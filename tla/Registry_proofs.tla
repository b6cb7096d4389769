--------------------------- MODULE Registry_proofs ---------------------------
(***************************************************************************)
(* Proofs about the registries, for any signers, multisigs and processes.  *)
(***************************************************************************)
EXTENDS Registry, FiniteSetTheorems, SequenceTheorems, TLAPS

-----------------------------------------------------------------------------
(* Type correctness *)

MultisigStep ==
  {"shared", "contract", "creator", "exchange", "proxy", "save", "emitter", "others"}

\* A process in a step of create-signer, or of create-multisig, has that command's record.
LEMMA CommandOfStep ==
  ASSUME RegistryTypeOK, NEW c \in Command
  PROVE  /\ InStep(c, "signer") => command[c] \in CreatingSigner
         /\ \A s \in MultisigStep : InStep(c, s) => command[c] \in CreatingMultisig
<1>1. command[c] \in CreatingSigner \cup CreatingMultisig \cup {Idle}
  BY DEF RegistryTypeOK
<1>2. command[c] \in CreatingSigner => command[c].step = "signer"
  BY DEF CreatingSigner
<1>3. command[c] \in CreatingMultisig => command[c].step \in MultisigStep
  BY DEF CreatingMultisig, MultisigStep
<1> QED
  BY <1>1, <1>2, <1>3 DEF InStep, MultisigStep

\* Initially every variable has its type.
LEMMA InitTypeOK == RegistryInit => RegistryTypeOK
<1> SUFFICES ASSUME RegistryInit PROVE RegistryTypeOK
  OBVIOUS
<1> USE NumbersAssumption, FoundingAssumption DEF RegistryInit
<1>1. Len(Founding) \in Nat /\ DOMAIN Founding = 1..Len(Founding)
  OBVIOUS
<1>2. signers \in Seq(SignerEntry)
  <2>1. \A i \in 1..Len(Founding) : [name |-> Founding[i], account |-> i] \in SignerEntry
    BY DEF SignerEntry, Deployment
  <2> QED
    BY <1>1, <2>1
<1>3. deployed \in 0..MaxDeployments
  BY <1>1
<1>4. emitter \in [Deployment -> Deployment \cup {None}]
  BY DEF None
<1> QED
  BY <1>2, <1>3, <1>4 DEF RegistryTypeOK

\* create-signer holds a list without its name, of unique names, until it writes.
ReadIsUnique ==
  \A c \in Command : InStep(c, "signer") =>
    LET read == command[c].read IN
      /\ ~HasSigner(read, command[c].name)
      /\ \A i, j \in DOMAIN read : read[i].name = read[j].name => i = j

TypeAndNames == RegistryTypeOK /\ NamesAreUnique /\ ReadIsUnique

\* Of a file of unique names, the entry of a name is the one that has it.
LEMMA AccountOfType ==
  ASSUME RegistryTypeOK, NamesAreUnique, NEW n \in SignerName, HasSigner(signers, n)
  PROVE  AccountOf(signers, n) \in Deployment
<1>1. signers \in Seq(SignerEntry)
  BY DEF RegistryTypeOK
<1>2. PICK k \in DOMAIN signers : signers[k].name = n
  BY DEF HasSigner
<1>3. \A j \in 1..k-1 : signers[j].name # n
  BY <1>1, <1>2 DEF NamesAreUnique
<1>4. (CHOOSE i \in DOMAIN signers : /\ signers[i].name = n
                                    /\ \A j \in 1..i-1 : signers[j].name # n) = k
  BY <1>2, <1>3 DEF NamesAreUnique
<1>5. signers[k].account \in Deployment
  <2>1. signers[k] \in SignerEntry
    BY <1>1, <1>2
  <2> QED
    BY <2>1 DEF SignerEntry
<1> QED
  BY <1>4, <1>5 DEF AccountOf

LEMMA InitNames == RegistryInit => NamesAreUnique /\ ReadIsUnique
<1> SUFFICES ASSUME RegistryInit PROVE NamesAreUnique /\ ReadIsUnique
  OBVIOUS
<1>1. NamesAreUnique
  BY FoundingAssumption DEF RegistryInit, NamesAreUnique, IsInjective
<1>2. ReadIsUnique
  BY DEF RegistryInit, ReadIsUnique, InStep
<1> QED
  BY <1>1, <1>2

\* A command's start: the signers' file is read and nothing is written.
LEMMA StartSignerTypeAndNames ==
  ASSUME TypeAndNames, NEW c \in Command, NEW name \in SignerName, StartSigner(c, name)
  PROVE  TypeAndNames'
<1> USE DEF TypeAndNames, StartSigner, files, chain
<1> DEFINE cmd == [step |-> "signer", name |-> name, read |-> signers]
<1>1. cmd \in CreatingSigner
  BY DEF RegistryTypeOK, CreatingSigner
<1>2. command' = [command EXCEPT ![c] = cmd]
  OBVIOUS
<1>3. RegistryTypeOK'
  BY <1>1, <1>2 DEF RegistryTypeOK
<1>4. NamesAreUnique'
  BY DEF NamesAreUnique
<1>5. ReadIsUnique'
  <2> SUFFICES ASSUME NEW d \in Command, InStep(d, "signer")'
               PROVE  /\ ~HasSigner(command'[d].read, command'[d].name)
                      /\ \A i, j \in DOMAIN command'[d].read :
                           command'[d].read[i].name = command'[d].read[j].name => i = j
    BY DEF ReadIsUnique, HasSigner
  <2>1. CASE d = c
    <3>1. command'[d] = cmd
      BY <1>2, <2>1 DEF RegistryTypeOK
    <3> QED
      BY <3>1 DEF NamesAreUnique, HasSigner
  <2>2. CASE d # c
    <3>1. command'[d] = command[d]
      BY <1>2, <2>2 DEF RegistryTypeOK
    <3> QED
      BY <3>1 DEF ReadIsUnique, InStep
  <2> QED
    BY <2>1, <2>2
<1> QED
  BY <1>3, <1>4, <1>5

LEMMA FinishSignerTypeAndNames ==
  ASSUME TypeAndNames, NEW c \in Command, FinishSigner(c)
  PROVE  TypeAndNames'
<1> USE DEF TypeAndNames, FinishSigner
<1> DEFINE read  == command[c].read
           entry == [name |-> command[c].name, account |-> deployed + 1]
<1>1. command[c] \in CreatingSigner
  BY CommandOfStep
<1>2. read \in Seq(SignerEntry) /\ entry \in SignerEntry
  <2>1. read \in Seq(SignerEntry) /\ command[c].name \in SignerName
    BY <1>1 DEF CreatingSigner
  <2>2. deployed + 1 \in Deployment
    BY NumbersAssumption DEF Deployment, RegistryTypeOK
  <2> QED
    BY <2>1, <2>2 DEF SignerEntry
<1>3. signers' = Append(read, entry)
  BY DEF ListRead
<1>4. RegistryTypeOK'
  <2>1. signers' \in Seq(SignerEntry)
    BY <1>2, <1>3, AppendProperties
  <2>2. deployed' \in 0..MaxDeployments
    BY NumbersAssumption DEF RegistryTypeOK
  <2>3. command' \in [Command -> CreatingSigner \cup CreatingMultisig \cup {Idle}]
    BY DEF RegistryTypeOK
  <2> QED
    BY <2>1, <2>2, <2>3 DEF RegistryTypeOK
<1>5. ~HasSigner(read, entry.name) /\ \A i, j \in DOMAIN read : read[i].name = read[j].name => i = j
  BY DEF ReadIsUnique
<1>6. NamesAreUnique'
  BY <1>2, <1>3, <1>5 DEF NamesAreUnique, HasSigner
<1>7. ReadIsUnique'
  <2>1. \A d \in Command : d # c => command'[d] = command[d]
    BY DEF RegistryTypeOK
  <2>2. command'[c] = Idle
    BY DEF RegistryTypeOK
  <2> QED
    BY <2>1, <2>2 DEF ReadIsUnique, InStep, HasSigner
<1> QED
  BY <1>4, <1>6, <1>7

-----------------------------------------------------------------------------
(* create-multisig: what its steps have done so far *)

At(c, steps) == command[c] # Idle /\ command[c].step \in steps

AfterSave     == {"emitter", "others"}
AfterProxy    == AfterSave \cup {"save"}
AfterExchange == AfterProxy \cup {"proxy"}
AfterContract == AfterExchange \cup {"creator", "exchange"}
AfterShared   == AfterContract \cup {"contract"}

ListsMatch(c)  == At(c, MultisigStep) => Len(command[c].accounts) = Len(command[c].list)
HasShared(c)   == At(c, AfterShared) => command[c].shared \in 1..deployed
HasContract(c) == At(c, AfterContract) => command[c].address \in 1..deployed /\ Backed(command[c])
HasHanded(c)   == At(c, AfterExchange) => command[c].address \in exchanged
HasProxy(c)    == At(c, AfterProxy) => command[c].proxy \in 1..deployed

\* Until it saves its entry nobody else has its address or its proxy ...
AddressUnsaved(c) == At(c, AfterContract \ AfterSave) =>
  \A i \in DOMAIN multisigs : multisigs[i].address # command[c].address
ProxyUnsaved(c) == At(c, {"save"}) =>
  /\ emitter[command[c].proxy] = None
  /\ \A i \in DOMAIN multisigs : multisigs[i].proxy # command[c].proxy

\* ... and from then on only its own entry has its proxy.
ProxySaved(c) == At(c, AfterSave) =>
  \A i \in DOMAIN multisigs :
    multisigs[i].proxy = command[c].proxy => multisigs[i].address = command[c].address

Progress(c) ==
  /\ ListsMatch(c) /\ HasShared(c) /\ HasContract(c) /\ HasHanded(c) /\ HasProxy(c)
  /\ AddressUnsaved(c) /\ ProxyUnsaved(c) /\ ProxySaved(c)

\* No two commands have one address or one proxy.
Apart ==
  \A c, d \in Command :
    /\ At(c, AfterContract) /\ At(d, AfterContract) /\ command[c].address = command[d].address
         => c = d
    /\ At(c, AfterProxy) /\ At(d, AfterProxy) /\ command[c].proxy = command[d].proxy
         => c = d

\* What is on file, or is a proxy's emitter, has been deployed.
FiledIsDeployed ==
  /\ \A i \in DOMAIN multisigs : multisigs[i].address \in 1..deployed
                                /\ multisigs[i].proxy \in 1..deployed
  /\ \A p \in Deployment : p > deployed => emitter[p] = None

RegistryInv ==
  /\ TypeAndNames
  /\ \A c \in Command : Progress(c)
  /\ Apart
  /\ FiledIsDeployed
  /\ SavedIsComplete
  /\ ProxyIsItsOwn

\* What a command has done stands while the others deploy and exchange.
LEMMA ProgressFrame ==
  ASSUME NEW d \in Command, Progress(d), command'[d] = command[d],
         deployed \in Int, deployed' \in Int, deployed' >= deployed,
         contracts \subseteq contracts', exchanged \subseteq exchanged',
         emitter' = emitter, multisigs' = multisigs
  PROVE  Progress(d)'
<1>1. \A steps : At(d, steps)' <=> At(d, steps)
  BY DEF At
<1>2. ListsMatch(d)'
  BY <1>1 DEF Progress, ListsMatch
<1>3. HasShared(d)' /\ HasProxy(d)'
  BY <1>1 DEF Progress, HasShared, HasProxy
<1>4. HasContract(d)'
  <2>1. Backed(command[d]) => Backed(command[d])'
    BY DEF Backed
  <2> QED
    BY <1>1, <2>1 DEF Progress, HasContract
<1>5. HasHanded(d)'
  BY <1>1 DEF Progress, HasHanded
<1>6. AddressUnsaved(d)' /\ ProxyUnsaved(d)' /\ ProxySaved(d)'
  BY <1>1 DEF Progress, AddressUnsaved, ProxyUnsaved, ProxySaved
<1> QED
  BY <1>2, <1>3, <1>4, <1>5, <1>6 DEF Progress

\* A process that runs no create-multisig has nothing to show.
LEMMA ProgressOfOthers ==
  ASSUME NEW d \in Command, command[d] = Idle \/ command[d].step = "signer"
  PROVE  Progress(d)
BY DEF Progress, At, ListsMatch, HasShared, HasContract, HasHanded, HasProxy, AddressUnsaved,
       ProxyUnsaved, ProxySaved, MultisigStep, AfterShared, AfterContract, AfterExchange,
       AfterProxy, AfterSave

\* Names stay unique while signers.json stands and no create-signer begins.
LEMMA NamesFrame ==
  ASSUME NamesAreUnique, ReadIsUnique, signers' = signers \/ signers' = <<>>,
         \A d \in Command : InStep(d, "signer")' => command'[d] = command[d]
  PROVE  NamesAreUnique' /\ ReadIsUnique'
<1>1. NamesAreUnique'
  BY DEF NamesAreUnique
<1>2. ReadIsUnique'
  BY DEF ReadIsUnique, InStep, HasSigner
<1> QED
  BY <1>1, <1>2

\* No entry changes: the two properties stand.
LEMMA FilesFrame ==
  ASSUME FiledIsDeployed, SavedIsComplete, ProxyIsItsOwn,
         deployed \in Int, deployed' \in Int, deployed' >= deployed,
         contracts \subseteq contracts', exchanged \subseteq exchanged',
         emitter' = emitter, multisigs' = multisigs
  PROVE  FiledIsDeployed' /\ SavedIsComplete' /\ ProxyIsItsOwn'
<1>1. FiledIsDeployed'
  BY NumbersAssumption DEF FiledIsDeployed, Deployment
<1>2. SavedIsComplete'
  BY DEF SavedIsComplete, Backed
<1>3. ProxyIsItsOwn'
  BY DEF ProxyIsItsOwn
<1> QED
  BY <1>1, <1>2, <1>3

\* Types and names after a step of create-multisig, or an end.
LEMMA CommandTypeAndNames ==
  ASSUME TypeAndNames, NEW c \in Command, NEW m \in CreatingMultisig \cup {Idle},
         command' = [command EXCEPT ![c] = m], signers' = signers, current' = current,
         multisigs' \in Seq(MultisigEntry), proxies' \in Seq(ProxyEntry),
         deployed' \in 0..MaxDeployments, contracts' \subseteq Contract,
         emitter' \in [Deployment -> Deployment \cup {None}], exchanged' \subseteq Deployment
  PROVE  TypeAndNames'
<1>1. RegistryTypeOK'
  BY DEF TypeAndNames, RegistryTypeOK
<1>2. \A d \in Command : InStep(d, "signer")' => command'[d] = command[d]
  <2>1. \A d \in Command : d # c => command'[d] = command[d]
    BY DEF TypeAndNames, RegistryTypeOK
  <2>2. command'[c] = m
    BY DEF TypeAndNames, RegistryTypeOK
  <2> QED
    BY <2>1, <2>2 DEF InStep, CreatingMultisig
<1> QED
  BY <1>1, <1>2, NamesFrame DEF TypeAndNames

\* One command goes on and writes neither an entry nor an emitter.
LEMMA Advance ==
  ASSUME RegistryInv, TypeAndNames', NEW c \in Command, Progress(c)',
         \A d \in Command : d # c => command'[d] = command[d],
         deployed' >= deployed,
         contracts \subseteq contracts', exchanged \subseteq exchanged',
         emitter' = emitter, multisigs' = multisigs,
         At(c, AfterContract)' =>
           \/ command'[c].address = deployed + 1
           \/ At(c, AfterContract) /\ command'[c].address = command[c].address,
         At(c, AfterProxy)' =>
           \/ command'[c].proxy = deployed + 1
           \/ At(c, AfterProxy) /\ command'[c].proxy = command[c].proxy
  PROVE  RegistryInv'
<1>1. deployed \in Int /\ deployed' \in Int
  BY NumbersAssumption DEF RegistryInv, TypeAndNames, RegistryTypeOK
<1>2. \A d \in Command : Progress(d)'
  <2>1. \A d \in Command : d # c => Progress(d)'
    BY <1>1, ProgressFrame DEF RegistryInv
  <2> QED
    BY <2>1
<1>3. Apart'
  <2>1. \A d \in Command : d # c => \A steps : At(d, steps)' <=> At(d, steps)
    BY DEF At
  <2>2. \A d \in Command : /\ At(d, AfterContract) => command[d].address <= deployed
                           /\ At(d, AfterProxy) => command[d].proxy <= deployed
    BY <1>1 DEF RegistryInv, Progress, HasContract, HasProxy
  <2>3. SUFFICES ASSUME NEW a \in Command, NEW b \in Command, a # b
                 PROVE  /\ ~(/\ At(a, AfterContract)' /\ At(b, AfterContract)'
                             /\ command'[a].address = command'[b].address)
                        /\ ~(/\ At(a, AfterProxy)' /\ At(b, AfterProxy)'
                             /\ command'[a].proxy = command'[b].proxy)
    BY DEF Apart
  <2>4. CASE a # c /\ b # c
    BY <2>1, <2>3, <2>4 DEF RegistryInv, Apart
  <2>5. CASE a = c
    BY <1>1, <2>1, <2>2, <2>3, <2>5 DEF RegistryInv, Apart
  <2>6. CASE b = c
    BY <1>1, <2>1, <2>2, <2>3, <2>6 DEF RegistryInv, Apart
  <2> QED
    BY <2>4, <2>5, <2>6
<1>4. FiledIsDeployed' /\ SavedIsComplete' /\ ProxyIsItsOwn'
  BY <1>1, FilesFrame DEF RegistryInv
<1> QED
  BY <1>2, <1>3, <1>4 DEF RegistryInv

-----------------------------------------------------------------------------
(* Each step keeps RegistryInv *)

LEMMA StartMultisigInv ==
  ASSUME RegistryInv, NEW c \in Command, NEW name \in MultisigName, NEW list \in SignerList,
         NEW threshold \in 0..MaxSigners, StartMultisig(c, name, list, threshold)
  PROVE  RegistryInv'
<1> USE DEF StartMultisig, files, chain
<1> DEFINE accounts == [i \in DOMAIN list |-> AccountOf(signers, list[i])]
           m == [step |-> "shared", name |-> name, list |-> list, threshold |-> threshold,
                 accounts |-> accounts, shared |-> None, address |-> None, proxy |-> None]
<1>1. list \in Seq(SignerName) /\ Len(list) \in Nat /\ DOMAIN list = 1..Len(list)
  BY SignerListAssumption
<1>2. accounts \in Seq(Deployment) /\ Len(accounts) = Len(list)
  <2>1. \A i \in 1..Len(list) : AccountOf(signers, list[i]) \in Deployment
    BY <1>1, AccountOfType DEF RegistryInv, TypeAndNames, Names
  <2> QED
    BY <1>1, <2>1
<1>3. m \in CreatingMultisig
  BY <1>2, NumbersAssumption DEF CreatingMultisig
<1>4. command' = [command EXCEPT ![c] = m]
  OBVIOUS
<1>5. TypeAndNames'
  BY <1>3, <1>4, CommandTypeAndNames DEF RegistryInv, TypeAndNames, RegistryTypeOK
<1>6. command'[c] = m /\ \A d \in Command : d # c => command'[d] = command[d]
  BY <1>4 DEF RegistryInv, TypeAndNames, RegistryTypeOK
<1>7. Progress(c)'
  BY <1>2, <1>6 DEF Progress, At, ListsMatch, HasShared, HasContract, HasHanded, HasProxy,
     AddressUnsaved, ProxyUnsaved, ProxySaved, AfterShared, AfterContract, AfterExchange,
     AfterProxy, AfterSave
<1>8. ~At(c, AfterContract)' /\ ~At(c, AfterProxy)'
  BY <1>6 DEF At, AfterContract, AfterExchange, AfterProxy, AfterSave
<1>9. deployed' >= deployed
  BY NumbersAssumption DEF RegistryInv, TypeAndNames, RegistryTypeOK
<1> QED
  BY <1>5, <1>6, <1>7, <1>8, <1>9, Advance

LEMMA DeploySharedInv ==
  ASSUME RegistryInv, NEW c \in Command, DeployShared(c)
  PROVE  RegistryInv'
<1> USE DEF DeployShared, files
<1> DEFINE m == [command[c] EXCEPT !.shared = deployed + 1, !.step = "contract"]
<1>1. /\ RegistryTypeOK
      /\ command[c] \in CreatingMultisig
      /\ deployed \in Nat /\ deployed + 1 \in Deployment /\ deployed' \in 0..MaxDeployments
  BY CommandOfStep, NumbersAssumption
     DEF RegistryInv, TypeAndNames, RegistryTypeOK, MultisigStep, Deployment
<1>2. m \in CreatingMultisig
  BY <1>1 DEF CreatingMultisig
<1>3. command' = [command EXCEPT ![c] = m]
  BY <1>1 DEF RegistryTypeOK
<1>4. m.step = "contract" /\ m.shared = deployed + 1 /\ Len(m.accounts) = Len(m.list)
  <2>1. Len(command[c].accounts) = Len(command[c].list)
    BY DEF RegistryInv, Progress, ListsMatch, At, InStep, MultisigStep
  <2> QED
    BY <1>1, <2>1 DEF CreatingMultisig
<1> HIDE DEF m
<1>5. command'[c] = m /\ \A d \in Command : d # c => command'[d] = command[d]
  BY <1>1, <1>3 DEF RegistryTypeOK
<1>6. TypeAndNames'
  BY <1>1, <1>2, <1>3, CommandTypeAndNames DEF RegistryInv, RegistryTypeOK
<1>7. deployed' >= deployed
  BY <1>1
<1>8. /\ ~At(c, AfterContract)' /\ ~At(c, AfterExchange)' /\ ~At(c, AfterProxy)'
      /\ ~At(c, AfterSave)' /\ ~At(c, {"save"})' /\ ~At(c, AfterContract \ AfterSave)'
  BY <1>4, <1>5 DEF At, AfterContract, AfterExchange, AfterProxy, AfterSave
<1>9. Progress(c)'
  <2>1. ListsMatch(c)'
    BY <1>4, <1>5 DEF ListsMatch
  <2>2. HasShared(c)'
    BY <1>1, <1>4, <1>5 DEF HasShared
  <2> QED
    BY <1>8, <2>1, <2>2 DEF Progress, HasContract, HasHanded, HasProxy, AddressUnsaved,
       ProxyUnsaved, ProxySaved
<1> QED
  BY <1>5, <1>6, <1>7, <1>8, <1>9, Advance

\* A list without duplicates has as many elements as it is long.
LEMMA InjectiveNames ==
  ASSUME NEW S, NEW s \in Seq(S), IsInjective(s)
  PROVE  Cardinality(Names(s)) = Len(s)
<1>1. Len(s) \in Nat /\ DOMAIN s = 1..Len(s)
  OBVIOUS
<1>2. ExistsBijection(1..Len(s), Names(s))
  <2>1. s \in Bijection(1..Len(s), Names(s))
    BY <1>1 DEF IsInjective, Names, Bijection, Injection, Surjection
  <2> QED
    BY <2>1 DEF ExistsBijection
<1> QED
  BY <1>1, <1>2, FS_CountingElements

LEMMA DeployContractInv ==
  ASSUME RegistryInv, NEW c \in Command, DeployContract(c)
  PROVE  RegistryInv'
<1> USE DEF DeployContract, files
<1> DEFINE old == command[c]
           m == [old EXCEPT !.address = deployed + 1, !.step = "creator"]
           k == [address |-> deployed + 1, signers |-> Names(old.accounts),
                 threshold |-> old.threshold, master |-> old.shared]
<1>1. /\ RegistryTypeOK
      /\ old \in CreatingMultisig
      /\ deployed \in Nat /\ deployed + 1 \in Deployment /\ deployed' \in 0..MaxDeployments
  BY CommandOfStep, NumbersAssumption
     DEF RegistryInv, TypeAndNames, RegistryTypeOK, MultisigStep, Deployment
<1>2. m \in CreatingMultisig
  BY <1>1 DEF CreatingMultisig
<1>3. command' = [command EXCEPT ![c] = m]
  BY <1>1 DEF RegistryTypeOK
<1>4. /\ m.step = "creator" /\ m.address = deployed + 1
      /\ m.accounts = old.accounts /\ m.list = old.list /\ m.shared = old.shared
      /\ m.threshold = old.threshold
  BY <1>1 DEF CreatingMultisig
<1>5. Len(old.accounts) = Len(old.list)
  BY DEF RegistryInv, Progress, ListsMatch, At, InStep, MultisigStep
<1>6. old.shared \in 1..deployed
  BY DEF RegistryInv, Progress, HasShared, At, InStep, AfterShared
<1>7. old.accounts \in Seq(Deployment) /\ old.threshold \in 1..MaxSigners
  BY <1>1 DEF CreatingMultisig
<1>8. Cardinality(k.signers) = Len(m.list)
  BY <1>4, <1>5, <1>7, InjectiveNames DEF ValidInitialization
<1>9. k \in Contract
  <2>1. Names(old.accounts) \subseteq Deployment
    BY <1>7 DEF Names
  <2>2. old.shared \in Deployment
    BY <1>1, <1>6, NumbersAssumption DEF Deployment
  <2> QED
    BY <1>1, <1>7, <2>1, <2>2 DEF Contract
<1>10. contracts' = contracts \cup {k} /\ k.address = deployed + 1
       /\ k.threshold = m.threshold /\ k.master = m.shared
  BY <1>4
<1> HIDE DEF m, k
<1>11. command'[c] = m /\ \A d \in Command : d # c => command'[d] = command[d]
  BY <1>1, <1>3 DEF RegistryTypeOK
<1>12. TypeAndNames'
  <2>1. contracts' \subseteq Contract
    BY <1>1, <1>9, <1>10 DEF RegistryTypeOK
  <2>2. TypeAndNames
    BY DEF RegistryInv
  <2> QED
    BY <1>1, <1>2, <1>3, <2>1, <2>2, CommandTypeAndNames DEF RegistryTypeOK
<1>13. deployed' = deployed + 1 /\ deployed' >= deployed
  BY <1>1
<1>14. /\ ~At(c, AfterExchange)' /\ ~At(c, AfterProxy)' /\ ~At(c, AfterSave)'
       /\ ~At(c, {"save"})'
  BY <1>4, <1>11 DEF At, AfterExchange, AfterProxy, AfterSave
<1>15. Progress(c)'
  <2>1. ListsMatch(c)' /\ HasShared(c)'
    BY <1>1, <1>4, <1>5, <1>6, <1>11, <1>13 DEF ListsMatch, HasShared
  <2>2. HasContract(c)'
    <3>1. Backed(command[c])'
      BY <1>4, <1>8, <1>10, <1>11 DEF Backed
    <3>2. command'[c].address \in 1..deployed'
      BY <1>1, <1>4, <1>11, <1>13
    <3> QED
      BY <3>1, <3>2 DEF HasContract
  <2>3. AddressUnsaved(c)'
    BY <1>1, <1>4, <1>11 DEF AddressUnsaved, RegistryInv, FiledIsDeployed
  <2> QED
    BY <1>14, <2>1, <2>2, <2>3 DEF Progress, HasHanded, HasProxy, ProxyUnsaved, ProxySaved
<1>16. command'[c].address = deployed + 1
  BY <1>4, <1>11
<1> QED
  BY <1>10, <1>11, <1>12, <1>13, <1>14, <1>15, <1>16, Advance

\* A step that only moves a command on, from a step to the next one of its kind.
LEMMA RegisterAtCreatorInv ==
  ASSUME RegistryInv, NEW c \in Command, RegisterAtCreator(c)
  PROVE  RegistryInv'
<1> USE DEF RegisterAtCreator, GoTo, files, chain
<1> DEFINE old == command[c]
           m == [old EXCEPT !.step = "exchange"]
<1>1. /\ RegistryTypeOK /\ old \in CreatingMultisig /\ deployed \in Nat
  BY CommandOfStep, NumbersAssumption DEF RegistryInv, TypeAndNames, RegistryTypeOK, MultisigStep
<1>2. m \in CreatingMultisig
  BY <1>1 DEF CreatingMultisig
<1>3. command' = [command EXCEPT ![c] = m]
  BY <1>1 DEF RegistryTypeOK
<1>4. /\ m.step = "exchange" /\ m.address = old.address
      /\ m.accounts = old.accounts /\ m.list = old.list /\ m.shared = old.shared
      /\ m.threshold = old.threshold
  BY <1>1 DEF CreatingMultisig
<1>5. At(c, MultisigStep) /\ At(c, AfterShared) /\ At(c, AfterContract)
      /\ At(c, AfterContract \ AfterSave)
  BY DEF At, InStep, MultisigStep, AfterShared, AfterContract, AfterExchange, AfterProxy, AfterSave
<1>6. /\ Len(old.accounts) = Len(old.list) /\ old.shared \in 1..deployed
      /\ old.address \in 1..deployed /\ Backed(old)
      /\ \A i \in DOMAIN multisigs : multisigs[i].address # old.address
  BY <1>5 DEF RegistryInv, Progress, ListsMatch, HasShared, HasContract, AddressUnsaved
<1> HIDE DEF m
<1>7. command'[c] = m /\ \A d \in Command : d # c => command'[d] = command[d]
  BY <1>1, <1>3 DEF RegistryTypeOK
<1>8. TypeAndNames'
  BY <1>1, <1>2, <1>3, CommandTypeAndNames DEF RegistryInv, RegistryTypeOK
<1>9. /\ ~At(c, AfterExchange)' /\ ~At(c, AfterProxy)' /\ ~At(c, AfterSave)'
      /\ ~At(c, {"save"})'
  BY <1>4, <1>7 DEF At, AfterExchange, AfterProxy, AfterSave
<1>10. Progress(c)'
  <2>1. ListsMatch(c)' /\ HasShared(c)' /\ AddressUnsaved(c)'
    BY <1>4, <1>6, <1>7 DEF ListsMatch, HasShared, AddressUnsaved
  <2>2. HasContract(c)'
    BY <1>4, <1>6, <1>7 DEF HasContract, Backed
  <2> QED
    BY <1>9, <2>1, <2>2 DEF Progress, HasHanded, HasProxy, ProxyUnsaved, ProxySaved
<1>11. deployed' >= deployed /\ command'[c].address = command[c].address
  BY <1>1, <1>4, <1>7
<1> QED
  BY <1>5, <1>7, <1>8, <1>9, <1>10, <1>11, Advance

LEMMA ExchangeInv ==
  ASSUME RegistryInv, NEW c \in Command, Exchange(c)
  PROVE  RegistryInv'
<1> USE DEF Exchange, Handed, GoTo, files, chain
<1> DEFINE old == command[c]
           m == [old EXCEPT !.step = "proxy"]
<1>1. /\ RegistryTypeOK /\ old \in CreatingMultisig /\ deployed \in Nat
  BY CommandOfStep, NumbersAssumption DEF RegistryInv, TypeAndNames, RegistryTypeOK, MultisigStep
<1>2. m \in CreatingMultisig
  BY <1>1 DEF CreatingMultisig
<1>3. command' = [command EXCEPT ![c] = m]
  BY <1>1 DEF RegistryTypeOK
<1>4. /\ m.step = "proxy" /\ m.address = old.address
      /\ m.accounts = old.accounts /\ m.list = old.list /\ m.shared = old.shared
      /\ m.threshold = old.threshold
  BY <1>1 DEF CreatingMultisig
<1>5. At(c, MultisigStep) /\ At(c, AfterShared) /\ At(c, AfterContract)
      /\ At(c, AfterContract \ AfterSave)
  BY DEF At, InStep, MultisigStep, AfterShared, AfterContract, AfterExchange, AfterProxy, AfterSave
<1>6. /\ Len(old.accounts) = Len(old.list) /\ old.shared \in 1..deployed
      /\ old.address \in 1..deployed /\ Backed(old)
      /\ \A i \in DOMAIN multisigs : multisigs[i].address # old.address
  BY <1>5 DEF RegistryInv, Progress, ListsMatch, HasShared, HasContract, AddressUnsaved
<1>7. exchanged' = exchanged \cup {old.address} /\ exchanged' \subseteq Deployment
  <2>1. old.address \in Deployment
    BY <1>1, <1>6, NumbersAssumption DEF Deployment, RegistryTypeOK
  <2> QED
    BY <1>1, <2>1 DEF RegistryTypeOK
<1> HIDE DEF m
<1>8. command'[c] = m /\ \A d \in Command : d # c => command'[d] = command[d]
  BY <1>1, <1>3 DEF RegistryTypeOK
<1>9. TypeAndNames'
  BY <1>1, <1>2, <1>3, <1>7, CommandTypeAndNames DEF RegistryInv, RegistryTypeOK
<1>10. ~At(c, AfterProxy)' /\ ~At(c, AfterSave)' /\ ~At(c, {"save"})'
  BY <1>4, <1>8 DEF At, AfterExchange, AfterProxy, AfterSave
<1>11. Progress(c)'
  <2>1. ListsMatch(c)' /\ HasShared(c)' /\ AddressUnsaved(c)' /\ HasHanded(c)'
    BY <1>4, <1>6, <1>7, <1>8 DEF ListsMatch, HasShared, AddressUnsaved, HasHanded
  <2>2. HasContract(c)'
    BY <1>4, <1>6, <1>8 DEF HasContract, Backed
  <2> QED
    BY <1>10, <2>1, <2>2 DEF Progress, HasProxy, ProxyUnsaved, ProxySaved
<1>12. /\ deployed' >= deployed /\ command'[c].address = command[c].address
       /\ exchanged \subseteq exchanged'
  BY <1>1, <1>4, <1>7, <1>8
<1> QED
  BY <1>5, <1>8, <1>9, <1>10, <1>11, <1>12, Advance

LEMMA DeployProxyInv ==
  ASSUME RegistryInv, NEW c \in Command, DeployProxy(c)
  PROVE  RegistryInv'
<1> USE DEF DeployProxy
<1> DEFINE old == command[c]
           m == [old EXCEPT !.proxy = deployed + 1, !.step = "save"]
           p == [multisig |-> old.name, address |-> deployed + 1]
<1>1. /\ RegistryTypeOK
      /\ old \in CreatingMultisig
      /\ deployed \in Nat /\ deployed + 1 \in Deployment /\ deployed' \in 0..MaxDeployments
  BY CommandOfStep, NumbersAssumption
     DEF RegistryInv, TypeAndNames, RegistryTypeOK, MultisigStep, Deployment
<1>2. m \in CreatingMultisig
  BY <1>1 DEF CreatingMultisig
<1>3. command' = [command EXCEPT ![c] = m]
  BY <1>1 DEF RegistryTypeOK
<1>4. /\ m.step = "save" /\ m.address = old.address /\ m.proxy = deployed + 1
      /\ m.accounts = old.accounts /\ m.list = old.list /\ m.shared = old.shared
      /\ m.threshold = old.threshold
  BY <1>1 DEF CreatingMultisig
<1>5. At(c, MultisigStep) /\ At(c, AfterShared) /\ At(c, AfterContract) /\ At(c, AfterExchange)
      /\ At(c, AfterContract \ AfterSave)
  BY DEF At, InStep, MultisigStep, AfterShared, AfterContract, AfterExchange, AfterProxy, AfterSave
<1>6. /\ Len(old.accounts) = Len(old.list) /\ old.shared \in 1..deployed
      /\ old.address \in 1..deployed /\ Backed(old) /\ old.address \in exchanged
      /\ \A i \in DOMAIN multisigs : multisigs[i].address # old.address
  BY <1>5
     DEF RegistryInv, Progress, ListsMatch, HasShared, HasContract, HasHanded, AddressUnsaved
<1>7. proxies' \in Seq(ProxyEntry)
  <2>1. p \in ProxyEntry
    BY <1>1 DEF ProxyEntry, CreatingMultisig
  <2>2. proxies \in Seq(ProxyEntry) /\ proxies' = Append(proxies, p)
    BY <1>1 DEF RegistryTypeOK
  <2> QED
    BY <2>1, <2>2, AppendProperties
<1>7a. /\ deployed' = deployed + 1 /\ emitter' = emitter /\ multisigs' = multisigs
       /\ signers' = signers /\ current' = current
       /\ contracts' = contracts /\ exchanged' = exchanged
  OBVIOUS
<1> HIDE DEF m, DeployProxy
<1>8. command'[c] = m /\ \A d \in Command : d # c => command'[d] = command[d]
  BY <1>1, <1>3 DEF RegistryTypeOK
<1>9. TypeAndNames'
  BY <1>1, <1>2, <1>3, <1>7, <1>7a, CommandTypeAndNames DEF RegistryInv, RegistryTypeOK
<1>10. ~At(c, AfterSave)'
  BY <1>4, <1>8 DEF At, AfterSave
<1>11. Progress(c)'
  <2>1. ListsMatch(c)' /\ HasShared(c)' /\ AddressUnsaved(c)' /\ HasHanded(c)' /\ HasProxy(c)'
    BY <1>1, <1>4, <1>6, <1>8, <1>7a
       DEF ListsMatch, HasShared, AddressUnsaved, HasHanded, HasProxy
  <2>2. HasContract(c)'
    <3>1. Backed(command[c])'
      BY <1>4, <1>6, <1>8, <1>7a DEF Backed
    <3> QED
      BY <1>1, <1>4, <1>6, <1>8, <1>7a, <3>1 DEF HasContract
  <2>3. ProxyUnsaved(c)'
    BY <1>1, <1>4, <1>8, <1>7a DEF ProxyUnsaved, RegistryInv, FiledIsDeployed
  <2> QED
    BY <1>10, <2>1, <2>2, <2>3 DEF Progress, ProxySaved
<1>12. /\ deployed' >= deployed /\ command'[c].address = command[c].address
       /\ command'[c].proxy = deployed + 1
  BY <1>1, <1>4, <1>8, <1>7a
<1>13. /\ contracts \subseteq contracts' /\ exchanged \subseteq exchanged'
       /\ emitter' = emitter /\ multisigs' = multisigs
  BY <1>7a
<1> QED
  BY <1>5, <1>8, <1>9, <1>11, <1>12, <1>13, Advance

\* An end, whatever was done: RegisterElsewhere and Abort.
LEMMA EndInv ==
  ASSUME RegistryInv, NEW c \in Command, command' = [command EXCEPT ![c] = Idle],
         UNCHANGED <<files, chain, exchanged>>
  PROVE  RegistryInv'
<1> USE DEF files, chain
<1>1. RegistryTypeOK /\ deployed \in Nat
  BY NumbersAssumption DEF RegistryInv, TypeAndNames, RegistryTypeOK
<1>2. command'[c] = Idle /\ \A d \in Command : d # c => command'[d] = command[d]
  BY <1>1 DEF RegistryTypeOK
<1>3. TypeAndNames'
  BY <1>1, CommandTypeAndNames DEF RegistryInv, RegistryTypeOK
<1>4. ~At(c, AfterContract)' /\ ~At(c, AfterProxy)'
  BY <1>2 DEF At
<1>5. Progress(c)'
  BY <1>2, ProgressOfOthers DEF Progress, At, ListsMatch, HasShared, HasContract, HasHanded,
     HasProxy, AddressUnsaved, ProxyUnsaved, ProxySaved
<1>6. deployed' >= deployed
  BY <1>1
<1> QED
  BY <1>2, <1>3, <1>4, <1>5, <1>6, Advance

LEMMA SaveInv ==
  ASSUME RegistryInv, NEW c \in Command, Save(c)
  PROVE  RegistryInv'
<1> USE DEF Save, GoTo, chain
<1> DEFINE old == command[c]
           e == Entry(c)
           m == [old EXCEPT !.step = "emitter"]
           n == Len(multisigs)
<1>1. /\ RegistryTypeOK /\ old \in CreatingMultisig /\ deployed \in Nat
      /\ multisigs \in Seq(MultisigEntry) /\ n \in Nat /\ DOMAIN multisigs = 1..n
  BY CommandOfStep, NumbersAssumption DEF RegistryInv, TypeAndNames, RegistryTypeOK, MultisigStep
<1>2. m \in CreatingMultisig
  BY <1>1 DEF CreatingMultisig
<1>3. command' = [command EXCEPT ![c] = m]
  BY <1>1 DEF RegistryTypeOK
<1>4. /\ m.step = "emitter" /\ m.address = old.address /\ m.proxy = old.proxy
      /\ m.accounts = old.accounts /\ m.list = old.list /\ m.shared = old.shared
      /\ m.threshold = old.threshold
  BY <1>1 DEF CreatingMultisig
<1>5. /\ At(c, MultisigStep) /\ At(c, AfterShared) /\ At(c, AfterContract)
      /\ At(c, AfterExchange) /\ At(c, AfterProxy) /\ At(c, {"save"})
      /\ At(c, AfterContract \ AfterSave)
  BY DEF At, InStep, MultisigStep, AfterShared, AfterContract, AfterExchange, AfterProxy, AfterSave
<1>6. /\ Len(old.accounts) = Len(old.list) /\ old.shared \in 1..deployed
      /\ old.address \in 1..deployed /\ Backed(old) /\ old.address \in exchanged
      /\ old.proxy \in 1..deployed
      /\ emitter[old.proxy] = None
      /\ \A i \in 1..n : multisigs[i].address # old.address /\ multisigs[i].proxy # old.proxy
  BY <1>1, <1>5 DEF RegistryInv, Progress, ListsMatch, HasShared, HasContract, HasHanded,
     HasProxy, AddressUnsaved, ProxyUnsaved
<1>7. /\ e.address = old.address /\ e.proxy = old.proxy /\ e.list = old.list
      /\ e.shared = old.shared /\ e.threshold = old.threshold
      /\ e \in MultisigEntry
  <2>1. old.shared \in Deployment /\ old.address \in Deployment /\ old.proxy \in Deployment
    BY <1>1, <1>6, NumbersAssumption DEF Deployment, RegistryTypeOK
  <2>2. old.name \in MultisigName /\ old.list \in SignerList /\ old.threshold \in 1..MaxSigners
    BY <1>1 DEF CreatingMultisig
  <2> QED
    BY <2>1, <2>2 DEF Entry, ProxyOf, MultisigEntry
<1>8. multisigs' = Append(multisigs, e)
  BY <1>1, <1>6, <1>7 DEF Saved
<1> HIDE DEF m, e
<1>9. /\ multisigs' \in Seq(MultisigEntry) /\ DOMAIN multisigs' = 1..(n + 1)
      /\ \A i \in 1..n : multisigs'[i] = multisigs[i]
      /\ multisigs'[n + 1] = e
  BY <1>1, <1>7, <1>8
<1>10. /\ deployed' = deployed /\ contracts' = contracts /\ emitter' = emitter
       /\ exchanged' = exchanged /\ signers' = signers /\ proxies' = proxies
       /\ current' = current
  OBVIOUS
<1>11. command'[c] = m /\ \A d \in Command : d # c => command'[d] = command[d]
  BY <1>1, <1>3 DEF RegistryTypeOK
<1> HIDE DEF Save, n
<1>12. TypeAndNames'
  BY <1>1, <1>2, <1>3, <1>9, <1>10, CommandTypeAndNames DEF RegistryInv, RegistryTypeOK
<1>13. \A d \in Command : d # c => \A steps : At(d, steps)' <=> At(d, steps)
  BY <1>11 DEF At
<1>14. /\ At(c, AfterContract)' => At(c, AfterContract)
       /\ At(c, AfterProxy)' => At(c, AfterProxy)
  BY <1>5
<1>15. Progress(c)'
  <2>1. ~At(c, AfterContract \ AfterSave)' /\ ~At(c, {"save"})'
    BY <1>4, <1>11 DEF At, AfterSave
  <2>2. ListsMatch(c)' /\ HasShared(c)' /\ HasHanded(c)' /\ HasProxy(c)'
    BY <1>4, <1>6, <1>10, <1>11 DEF ListsMatch, HasShared, HasHanded, HasProxy
  <2>3. HasContract(c)'
    <3>1. Backed(command[c])'
      BY <1>4, <1>6, <1>10, <1>11 DEF Backed
    <3> QED
      BY <1>4, <1>6, <1>10, <1>11, <3>1 DEF HasContract
  <2>4. ProxySaved(c)'
    BY <1>1, <1>4, <1>6, <1>7, <1>9, <1>11 DEF ProxySaved
  <2> QED
    BY <2>1, <2>2, <2>3, <2>4 DEF Progress, AddressUnsaved, ProxyUnsaved
<1>16. ASSUME NEW d \in Command, d # c PROVE Progress(d)'
  <2>1. Progress(d) /\ command'[d] = command[d]
    BY <1>11, <1>16 DEF RegistryInv
  <2>2. ListsMatch(d)' /\ HasShared(d)' /\ HasHanded(d)' /\ HasProxy(d)'
    BY <1>10, <1>13, <1>16, <2>1 DEF Progress, ListsMatch, HasShared, HasHanded, HasProxy
  <2>3. HasContract(d)'
    BY <1>10, <1>13, <1>16, <2>1 DEF Progress, HasContract, Backed
  <2>4. /\ At(d, AfterContract) => command[d].address # old.address
        /\ At(d, AfterProxy) => command[d].proxy # old.proxy
    BY <1>5, <1>16 DEF RegistryInv, Apart
  <2>5. AddressUnsaved(d)'
    <3>1. At(d, AfterContract \ AfterSave) => At(d, AfterContract)
      BY DEF At
    <3> QED
      BY <1>1, <1>7, <1>9, <1>13, <1>16, <2>1, <2>4, <3>1 DEF Progress, AddressUnsaved
  <2>6. ProxyUnsaved(d)'
    <3>1. At(d, {"save"}) => At(d, AfterProxy)
      BY DEF At, AfterProxy
    <3> QED
      BY <1>1, <1>7, <1>9, <1>10, <1>13, <1>16, <2>1, <2>4, <3>1 DEF Progress, ProxyUnsaved
  <2>7. ProxySaved(d)'
    <3>1. At(d, AfterSave) => At(d, AfterProxy)
      BY DEF At, AfterProxy
    <3> QED
      BY <1>1, <1>7, <1>9, <1>13, <1>16, <2>1, <2>4, <3>1 DEF Progress, ProxySaved
  <2> QED
    BY <2>2, <2>3, <2>5, <2>6, <2>7 DEF Progress
<1>17. Apart'
  BY <1>4, <1>11, <1>13, <1>14 DEF RegistryInv, Apart
<1>18. FiledIsDeployed'
  BY <1>1, <1>6, <1>7, <1>9, <1>10 DEF RegistryInv, FiledIsDeployed
<1>19. SavedIsComplete'
  <2> SUFFICES ASSUME NEW i \in DOMAIN multisigs'
               PROVE  multisigs'[i].address \in exchanged' /\ Backed(multisigs[i])'
    BY DEF SavedIsComplete
  <2>1. CASE i \in 1..n
    BY <1>1, <1>9, <1>10, <2>1 DEF RegistryInv, SavedIsComplete, Backed
  <2>2. CASE i = n + 1
    BY <1>6, <1>7, <1>9, <1>10, <2>2 DEF Backed
  <2> QED
    BY <1>1, <1>9, <2>1, <2>2
<1>20. ProxyIsItsOwn'
  BY <1>1, <1>6, <1>7, <1>9, <1>10 DEF RegistryInv, ProxyIsItsOwn
<1> QED
  BY <1>12, <1>15, <1>16, <1>17, <1>18, <1>19, <1>20 DEF RegistryInv

LEMMA RegisterEmitterInv ==
  ASSUME RegistryInv, NEW c \in Command, RegisterEmitter(c)
  PROVE  RegistryInv'
<1> USE DEF RegisterEmitter, GoTo, files
<1> DEFINE old == command[c]
           m == [old EXCEPT !.step = "others"]
<1>1. /\ RegistryTypeOK /\ old \in CreatingMultisig /\ deployed \in Nat
      /\ emitter \in [Deployment -> Deployment \cup {None}]
  BY CommandOfStep, NumbersAssumption DEF RegistryInv, TypeAndNames, RegistryTypeOK, MultisigStep
<1>2. m \in CreatingMultisig
  BY <1>1 DEF CreatingMultisig
<1>3. command' = [command EXCEPT ![c] = m]
  BY <1>1 DEF RegistryTypeOK
<1>4. /\ m.step = "others" /\ m.address = old.address /\ m.proxy = old.proxy
      /\ m.accounts = old.accounts /\ m.list = old.list /\ m.shared = old.shared
      /\ m.threshold = old.threshold
  BY <1>1 DEF CreatingMultisig
<1>5. /\ At(c, MultisigStep) /\ At(c, AfterShared) /\ At(c, AfterContract)
      /\ At(c, AfterExchange) /\ At(c, AfterProxy) /\ At(c, AfterSave)
  BY DEF At, InStep, MultisigStep, AfterShared, AfterContract, AfterExchange, AfterProxy, AfterSave
<1>6. /\ Len(old.accounts) = Len(old.list) /\ old.shared \in 1..deployed
      /\ old.address \in 1..deployed /\ Backed(old) /\ old.address \in exchanged
      /\ old.proxy \in 1..deployed
      /\ \A i \in DOMAIN multisigs :
           multisigs[i].proxy = old.proxy => multisigs[i].address = old.address
  BY <1>1, <1>5 DEF RegistryInv, Progress, ListsMatch, HasShared, HasContract, HasHanded,
     HasProxy, ProxySaved
<1>7. old.proxy \in Deployment /\ old.address \in Deployment
  BY <1>1, <1>6, NumbersAssumption DEF Deployment, RegistryTypeOK
<1>8. /\ emitter'[old.proxy] \in {emitter[old.proxy], old.address}
      /\ \A p \in Deployment : p # old.proxy => emitter'[p] = emitter[p]
      /\ emitter' \in [Deployment -> Deployment \cup {None}]
  BY <1>1, <1>7
<1>9. /\ deployed' = deployed /\ contracts' = contracts /\ multisigs' = multisigs
      /\ exchanged' = exchanged /\ signers' = signers /\ proxies' = proxies
      /\ current' = current
  OBVIOUS
<1> HIDE DEF m, RegisterEmitter
<1>10. command'[c] = m /\ \A d \in Command : d # c => command'[d] = command[d]
  BY <1>1, <1>3 DEF RegistryTypeOK
<1>11. TypeAndNames'
  BY <1>1, <1>2, <1>3, <1>8, <1>9, CommandTypeAndNames DEF RegistryInv, RegistryTypeOK
<1>12. \A d \in Command : d # c => \A steps : At(d, steps)' <=> At(d, steps)
  BY <1>10 DEF At
<1>13. Progress(c)'
  <2>1. ~At(c, AfterContract \ AfterSave)' /\ ~At(c, {"save"})'
    BY <1>4, <1>10 DEF At, AfterSave
  <2>2. ListsMatch(c)' /\ HasShared(c)' /\ HasHanded(c)' /\ HasProxy(c)' /\ ProxySaved(c)'
    BY <1>4, <1>6, <1>9, <1>10 DEF ListsMatch, HasShared, HasHanded, HasProxy, ProxySaved
  <2>3. HasContract(c)'
    <3>1. Backed(command[c])'
      BY <1>4, <1>6, <1>9, <1>10 DEF Backed
    <3> QED
      BY <1>4, <1>6, <1>9, <1>10, <3>1 DEF HasContract
  <2> QED
    BY <2>1, <2>2, <2>3 DEF Progress, AddressUnsaved, ProxyUnsaved
<1>14. ASSUME NEW d \in Command, d # c PROVE Progress(d)'
  <2>1. Progress(d) /\ command'[d] = command[d]
    BY <1>10, <1>14 DEF RegistryInv
  <2>2. ListsMatch(d)' /\ HasShared(d)' /\ HasHanded(d)' /\ HasProxy(d)'
        /\ AddressUnsaved(d)' /\ ProxySaved(d)'
    BY <1>9, <1>12, <1>14, <2>1 DEF Progress, ListsMatch, HasShared, HasHanded, HasProxy,
       AddressUnsaved, ProxySaved
  <2>3. HasContract(d)'
    BY <1>9, <1>12, <1>14, <2>1 DEF Progress, HasContract, Backed
  <2>4. ProxyUnsaved(d)'
    <3>1. At(d, {"save"}) => At(d, AfterProxy)
      BY DEF At, AfterProxy
    <3>2. At(d, AfterProxy) => command[d].proxy # old.proxy /\ command[d].proxy \in Deployment
      BY <1>1, <1>5, <1>14, <2>1, NumbersAssumption
         DEF RegistryInv, Apart, Progress, HasProxy, Deployment, RegistryTypeOK
    <3> QED
      BY <1>8, <1>9, <1>12, <1>14, <2>1, <3>1, <3>2 DEF Progress, ProxyUnsaved
  <2> QED
    BY <2>2, <2>3, <2>4 DEF Progress
<1>15. Apart'
  BY <1>4, <1>5, <1>10, <1>12 DEF RegistryInv, Apart
<1>16. FiledIsDeployed'
  BY <1>1, <1>6, <1>8, <1>9, NumbersAssumption DEF RegistryInv, FiledIsDeployed, Deployment
<1>17. SavedIsComplete'
  BY <1>9 DEF RegistryInv, SavedIsComplete, Backed
<1>18. ProxyIsItsOwn'
  <2>1. \A i \in DOMAIN multisigs : multisigs[i].proxy \in Deployment
    BY <1>1, NumbersAssumption DEF RegistryInv, FiledIsDeployed, Deployment, RegistryTypeOK
  <2> QED
    BY <1>6, <1>8, <1>9, <2>1 DEF RegistryInv, ProxyIsItsOwn
<1> QED
  BY <1>11, <1>13, <1>14, <1>15, <1>16, <1>17, <1>18 DEF RegistryInv

\* The signers and multisigs in use are not what the invariant is about.
LEMMA UseInv ==
  ASSUME RegistryInv,
         current' \in [signer : SignerName \cup {NoName}, multisig : MultisigName \cup {NoName}],
         UNCHANGED <<signers, multisigs, proxies, chain, exchanged, command>>
  PROVE  RegistryInv'
<1> USE DEF chain
<1>1. TypeAndNames'
  BY NamesFrame DEF RegistryInv, TypeAndNames, RegistryTypeOK
<1>2. deployed \in Int /\ deployed' = deployed
  BY NumbersAssumption DEF RegistryInv, TypeAndNames, RegistryTypeOK
<1>3. \A d \in Command : Progress(d)'
  BY <1>2, ProgressFrame DEF RegistryInv
<1>4. Apart'
  BY DEF RegistryInv, Apart, At
<1>5. FiledIsDeployed' /\ SavedIsComplete' /\ ProxyIsItsOwn'
  BY <1>2, FilesFrame DEF RegistryInv
<1> QED
  BY <1>1, <1>3, <1>4, <1>5 DEF RegistryInv

LEMMA CleanInv ==
  ASSUME RegistryInv, Clean
  PROVE  RegistryInv'
<1> USE DEF Clean, chain
<1>1. TypeAndNames'
  BY NamesFrame DEF RegistryInv, TypeAndNames, RegistryTypeOK
<1>2. multisigs' = <<>>
  OBVIOUS
<1>3. \A d \in Command : Progress(d)'
  BY DEF RegistryInv, Progress, At, ListsMatch, HasShared, HasContract, HasHanded, HasProxy,
     AddressUnsaved, ProxyUnsaved, ProxySaved, Backed
<1>4. Apart'
  BY DEF RegistryInv, Apart, At
<1>5. FiledIsDeployed' /\ SavedIsComplete' /\ ProxyIsItsOwn'
  BY <1>2 DEF RegistryInv, FiledIsDeployed, SavedIsComplete, ProxyIsItsOwn
<1> QED
  BY <1>1, <1>3, <1>4, <1>5 DEF RegistryInv

LEMMA SignerInv ==
  ASSUME RegistryInv, NEW c \in Command,
         \/ \E name \in SignerName : StartSigner(c, name)
         \/ FinishSigner(c)
  PROVE  RegistryInv'
<1>1. RegistryTypeOK /\ deployed \in Nat
  BY NumbersAssumption DEF RegistryInv, TypeAndNames, RegistryTypeOK
<1>2. TypeAndNames'
  BY StartSignerTypeAndNames, FinishSignerTypeAndNames DEF RegistryInv
<1>3. /\ \A d \in Command : d # c => command'[d] = command[d]
      /\ command'[c] = Idle \/ command'[c].step = "signer"
  BY <1>1 DEF RegistryTypeOK, StartSigner, FinishSigner
<1>4. /\ deployed' >= deployed
      /\ contracts \subseteq contracts' /\ exchanged \subseteq exchanged'
      /\ emitter' = emitter /\ multisigs' = multisigs
  BY <1>1 DEF StartSigner, FinishSigner, files, chain
<1>5. /\ Progress(c)' /\ ~At(c, AfterContract)' /\ ~At(c, AfterProxy)'
  BY <1>3 DEF Progress, At, ListsMatch, HasShared, HasContract, HasHanded,
     HasProxy, AddressUnsaved, ProxyUnsaved, ProxySaved, MultisigStep, AfterShared,
     AfterContract, AfterExchange, AfterProxy, AfterSave
<1> QED
  BY <1>2, <1>3, <1>4, <1>5, Advance

-----------------------------------------------------------------------------
(* The theorems *)

LEMMA InitInv == RegistryInit => RegistryInv
<1> SUFFICES ASSUME RegistryInit PROVE RegistryInv
  OBVIOUS
<1>1. TypeAndNames
  BY InitTypeOK, InitNames DEF TypeAndNames
<1>2. \A c \in Command : \A steps : ~At(c, steps)
  BY DEF RegistryInit, At
<1>3. \A c \in Command : Progress(c)
  BY <1>2 DEF Progress, ListsMatch, HasShared, HasContract, HasHanded, HasProxy,
     AddressUnsaved, ProxyUnsaved, ProxySaved
<1>4. Apart
  BY <1>2 DEF Apart
<1>5. FiledIsDeployed /\ SavedIsComplete /\ ProxyIsItsOwn
  BY DEF RegistryInit, FiledIsDeployed, SavedIsComplete, ProxyIsItsOwn
<1> QED
  BY <1>1, <1>3, <1>4, <1>5 DEF RegistryInv

LEMMA StepInv == RegistryInv /\ [RegistryNext]_regVars => RegistryInv'
<1> SUFFICES ASSUME RegistryInv, [RegistryNext]_regVars PROVE RegistryInv'
  OBVIOUS
<1>1. ASSUME NEW c \in Command, NEW name \in SignerName, StartSigner(c, name)
      PROVE RegistryInv'
  BY <1>1, SignerInv
<1>2. ASSUME NEW c \in Command, NEW name \in MultisigName, NEW list \in SignerList,
             NEW threshold \in 0..MaxSigners, StartMultisig(c, name, list, threshold)
      PROVE RegistryInv'
  BY <1>2, StartMultisigInv
<1>3. ASSUME NEW c \in Command, FinishSigner(c) PROVE RegistryInv'
  BY <1>3, SignerInv
<1>4. ASSUME NEW c \in Command, DeployShared(c) PROVE RegistryInv'
  BY <1>4, DeploySharedInv
<1>5. ASSUME NEW c \in Command, DeployContract(c) PROVE RegistryInv'
  BY <1>5, DeployContractInv
<1>6. ASSUME NEW c \in Command, RegisterAtCreator(c) PROVE RegistryInv'
  BY <1>6, RegisterAtCreatorInv
<1>7. ASSUME NEW c \in Command, Exchange(c) PROVE RegistryInv'
  BY <1>7, ExchangeInv
<1>8. ASSUME NEW c \in Command, DeployProxy(c) PROVE RegistryInv'
  BY <1>8, DeployProxyInv
<1>9. ASSUME NEW c \in Command, Save(c) PROVE RegistryInv'
  BY <1>9, SaveInv
<1>10. ASSUME NEW c \in Command, RegisterEmitter(c) PROVE RegistryInv'
  BY <1>10, RegisterEmitterInv
<1>11. ASSUME NEW c \in Command, RegisterElsewhere(c) \/ Abort(c) PROVE RegistryInv'
  BY <1>11, EndInv DEF RegisterElsewhere, Abort
<1>12. ASSUME NEW name \in SignerName, UseSigner(name) PROVE RegistryInv'
  BY <1>12, UseInv DEF UseSigner, RegistryInv, TypeAndNames, RegistryTypeOK
<1>13. ASSUME NEW name \in MultisigName, UseMultisig(name) PROVE RegistryInv'
  BY <1>13, UseInv DEF UseMultisig, RegistryInv, TypeAndNames, RegistryTypeOK
<1>14. CASE Clean
  BY <1>14, CleanInv
<1>15. CASE UNCHANGED regVars
  BY <1>15, UseInv DEF regVars, files, RegistryInv, TypeAndNames, RegistryTypeOK
<1> QED
  BY <1>1, <1>2, <1>3, <1>4, <1>5, <1>6, <1>7, <1>8, <1>9, <1>10, <1>11, <1>12, <1>13, <1>14,
     <1>15 DEF RegistryNext

LEMMA RegistryInvariant == RegistrySpec => []RegistryInv
BY InitInv, StepInv, PTL DEF RegistrySpec

\* The registries and the commands' records keep their types.
THEOREM RegistryTypeCorrect == RegistrySpec => []RegistryTypeOK
<1>1. RegistryInv => RegistryTypeOK
  BY DEF RegistryInv, TypeAndNames
<1> QED
  BY <1>1, RegistryInvariant, PTL

\* However many processes create signers at once, and wherever they end, no two
\* entries of signers.json have one name.
THEOREM NamesStayUnique == RegistrySpec => []NamesAreUnique
<1>1. RegistryInv => NamesAreUnique
  BY DEF RegistryInv, TypeAndNames
<1> QED
  BY <1>1, RegistryInvariant, PTL

\* However many processes create multisigs at once, and wherever they fail, what
\* multisigs.json lists is deployed as it says and its keys were handed to all.
THEOREM SavedStaysComplete == RegistrySpec => []SavedIsComplete
<1>1. RegistryInv => SavedIsComplete
  BY DEF RegistryInv
<1> QED
  BY <1>1, RegistryInvariant, PTL

\* No two accounts on file share a proxy, and no proxy has another account as
\* its emitter.
THEOREM ProxyStaysItsOwn == RegistrySpec => []ProxyIsItsOwn
<1>1. RegistryInv => ProxyIsItsOwn
  BY DEF RegistryInv
<1> QED
  BY <1>1, RegistryInvariant, PTL

=============================================================================
