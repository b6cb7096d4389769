---------------------------- MODULE Vaults_proofs ----------------------------
(* Theorems of the two vaults: what they minted covers, or is, what they have *)
(* on record, for every set of VAAs.  Both speak of a sum over transactions,  *)
(* computed by a fold, so that the first part is about sums.                  *)
EXTENDS ArbitrumIntentVault, Vault, FiniteSetTheorems, SequenceTheorems, WellFoundedInduction, TLAPS

-----------------------------------------------------------------------------
(* Sums *)

Sum(f, S) == MapThenSumSet(LAMBDA x : f[x], S)

Some(S) == CHOOSE x \in S : TRUE

\* The recursion of the fold.
IsSum(g, f, S) ==
  g = [s \in SUBSET S |-> IF s = {} THEN 0 ELSE f[Some(s)] + g[s \ {Some(s)}]]

LEMMA SumDef ==
  ASSUME NEW f, NEW S
  PROVE  Sum(f, S) = (CHOOSE g : IsSum(g, f, S))[S]
BY DEF Sum, MapThenSumSet, MapThenFoldSet, IsSum, Some

\* A smallest counterexample, with which the inductions below are refuted.
LEMMA MinimalSubset ==
  ASSUME NEW S, IsFiniteSet(S), NEW C, C \subseteq SUBSET S, C # {}
  PROVE  \E s \in C : \A u \in C : u \subseteq s => u = s
<1> DEFINE R == StrictSubsetOrdering(S)
<1>1. IsWellFoundedOn(R, SUBSET S)
  BY FS_StrictSubsetOrderingWellFounded, FS_FiniteSubsetsOfFinite
<1>2. \A u, s \in SUBSET S : <<u, s>> \in R <=> u \subseteq s /\ u # s
  BY DEF StrictSubsetOrdering
<1> HIDE DEF R
<1>3. PICK s \in C : \A u \in C : ~ (<<u, s>> \in R)
  BY <1>1, WFMin
<1>4. \A u \in C : u \subseteq s => u = s
  BY <1>2, <1>3
<1> QED
  BY <1>3, <1>4

LEMMA SomeIsIn == ASSUME NEW S, S # {} PROVE Some(S) \in S
BY DEF Some

\* Two solutions agree where both are defined.
LEMMA SolutionsAgree ==
  ASSUME NEW f, NEW S, IsFiniteSet(S), NEW T, NEW U, S \subseteq T, S \subseteq U,
         NEW g, IsSum(g, f, T), NEW h, IsSum(h, f, U)
  PROVE  g[S] = h[S]
<1> DEFINE C == {s \in SUBSET S : g[s] # h[s]}
<1> SUFFICES ASSUME C # {} PROVE FALSE
  OBVIOUS
<1>1. PICK s \in C : \A u \in C : u \subseteq s => u = s
  <2> C \subseteq SUBSET S
    OBVIOUS
  <2> HIDE DEF C
  <2> QED
    BY MinimalSubset
<1>2. s \in SUBSET S /\ s \in SUBSET T /\ s \in SUBSET U
  BY <1>1
<1>3. /\ g[s] = IF s = {} THEN 0 ELSE f[Some(s)] + g[s \ {Some(s)}]
      /\ h[s] = IF s = {} THEN 0 ELSE f[Some(s)] + h[s \ {Some(s)}]
  BY <1>2 DEF IsSum
<1>4. CASE s = {}
  BY <1>1, <1>3, <1>4
<1>5. CASE s # {}
  <2>1. Some(s) \in s
    BY <1>5, SomeIsIn
  <2>2. g[s \ {Some(s)}] = h[s \ {Some(s)}]
    BY <1>1, <1>2, <2>1
  <2> QED
    BY <1>1, <1>3, <1>5, <2>2
<1> QED
  BY <1>4, <1>5

LEMMA SumOfSolution ==
  ASSUME NEW f, NEW S, IsFiniteSet(S), NEW T, S \subseteq T,
         \E g : IsSum(g, f, S), NEW h, IsSum(h, f, T)
  PROVE  h[S] = Sum(f, S)
<1> DEFINE g == CHOOSE g : IsSum(g, f, S)
<1>1. IsSum(g, f, S)
  OBVIOUS
<1>2. Sum(f, S) = g[S]
  BY SumDef
<1> HIDE DEF g
<1> QED
  BY <1>1, <1>2, SolutionsAgree

LEMMA SolutionExists ==
  ASSUME NEW f, NEW S, IsFiniteSet(S)
  PROVE  \E g : IsSum(g, f, S)
<1> DEFINE C == {s \in SUBSET S : ~\E g : IsSum(g, f, s)}
<1> SUFFICES ASSUME C # {} PROVE FALSE
  OBVIOUS
<1>1. PICK s \in C : \A u \in C : u \subseteq s => u = s
  <2> C \subseteq SUBSET S
    OBVIOUS
  <2> HIDE DEF C
  <2> QED
    BY MinimalSubset
<1>2. \A u \in SUBSET s : u # s => \E g : IsSum(g, f, u)
  BY <1>1
<1>3. \A u \in SUBSET s : IsFiniteSet(u)
  BY <1>1, FS_Subset
<1> DEFINE h == [u \in SUBSET s |-> IF u = {} THEN 0 ELSE f[Some(u)] + Sum(f, u \ {Some(u)})]
<1>4. ASSUME NEW u \in SUBSET s, u # s
      PROVE  h[u] = Sum(f, u)
  <2>1. PICK g : IsSum(g, f, u)
    BY <1>2, <1>4
  <2>2. g[u] = Sum(f, u)
    BY <1>3, <2>1, SumOfSolution
  <2>3. g[u] = IF u = {} THEN 0 ELSE f[Some(u)] + g[u \ {Some(u)}]
    BY <2>1 DEF IsSum
  <2>4. CASE u = {}
    BY <2>2, <2>3, <2>4
  <2>5. CASE u # {}
    <3> DEFINE v == u \ {Some(u)}
    <3>1. v \subseteq u /\ v \in SUBSET s /\ v # s
      BY <1>4, <2>5, SomeIsIn
    <3>2. \E k : IsSum(k, f, v)
      BY <1>2, <3>1
    <3> HIDE DEF v
    <3>3. g[v] = Sum(f, v)
      BY <1>3, <2>1, <3>1, <3>2, SumOfSolution
    <3> QED
      BY <2>2, <2>3, <2>5, <3>3 DEF v
  <2> QED
    BY <2>4, <2>5
<1>5. ASSUME NEW u \in SUBSET s
      PROVE  h[u] = IF u = {} THEN 0 ELSE f[Some(u)] + h[u \ {Some(u)}]
  <2>1. CASE u = {}
    BY <2>1
  <2>2. CASE u # {}
    <3> DEFINE v == u \ {Some(u)}
    <3>1. v \in SUBSET s /\ v # s
      BY <2>2, SomeIsIn
    <3>2. h[u] = f[Some(u)] + Sum(f, v)
      BY <2>2
    <3> HIDE DEF h
    <3>3. h[v] = Sum(f, v)
      BY <1>4, <3>1
    <3> QED
      BY <2>2, <3>2, <3>3
  <2> QED
    BY <2>1, <2>2
<1>6. IsSum(h, f, s)
  <2> HIDE DEF h
  <2>1. h = [u \in SUBSET s |-> h[u]]
    BY DEF h
  <2> QED
    BY <1>5, <2>1 DEF IsSum
<1> HIDE DEF h
<1> QED
  BY <1>1, <1>6

\* What the fold does, without its recursion.
LEMMA SumUnfolds ==
  ASSUME NEW f, NEW S, IsFiniteSet(S)
  PROVE  Sum(f, S) = IF S = {} THEN 0 ELSE f[Some(S)] + Sum(f, S \ {Some(S)})
<1>1. PICK g : IsSum(g, f, S)
  BY SolutionExists
<1>2. g[S] = Sum(f, S)
  BY <1>1, SumOfSolution
<1>3. g[S] = IF S = {} THEN 0 ELSE f[Some(S)] + g[S \ {Some(S)}]
  BY <1>1 DEF IsSum
<1>4. CASE S = {}
  BY <1>2, <1>3, <1>4
<1>5. CASE S # {}
  <2> DEFINE T == S \ {Some(S)}
  <2>1. T \subseteq S /\ IsFiniteSet(T)
    BY FS_Subset
  <2> HIDE DEF T
  <2>2. g[T] = Sum(f, T)
    BY <1>1, <2>1, SolutionExists, SumOfSolution
  <2> QED
    BY <1>2, <1>3, <1>5, <2>2 DEF T
<1> QED
  BY <1>4, <1>5

LEMMA SumIsNat ==
  ASSUME NEW f, NEW S, IsFiniteSet(S), \A x \in S : f[x] \in Nat
  PROVE  Sum(f, S) \in Nat
<1> DEFINE C == {s \in SUBSET S : Sum(f, s) \notin Nat}
<1> SUFFICES ASSUME C # {} PROVE FALSE
  OBVIOUS
<1>1. PICK s \in C : \A u \in C : u \subseteq s => u = s
  <2> C \subseteq SUBSET S
    OBVIOUS
  <2> HIDE DEF C
  <2> QED
    BY MinimalSubset
<1>2. Sum(f, s) = IF s = {} THEN 0 ELSE f[Some(s)] + Sum(f, s \ {Some(s)})
  BY <1>1, FS_Subset, SumUnfolds
<1>3. CASE s = {}
  BY <1>1, <1>2, <1>3
<1>4. CASE s # {}
  <2>1. Some(s) \in s
    BY <1>4, SomeIsIn
  <2>2. Sum(f, s \ {Some(s)}) \in Nat /\ f[Some(s)] \in Nat
    BY <1>1, <2>1
  <2> QED
    BY <1>1, <1>2, <1>4, <2>2
<1> QED
  BY <1>3, <1>4

\* Only the summands count.
LEMMA SumSame ==
  ASSUME NEW f, NEW g, NEW S, IsFiniteSet(S), \A x \in S : f[x] = g[x]
  PROVE  Sum(f, S) = Sum(g, S)
<1> DEFINE C == {s \in SUBSET S : Sum(f, s) # Sum(g, s)}
<1> SUFFICES ASSUME C # {} PROVE FALSE
  OBVIOUS
<1>1. PICK s \in C : \A u \in C : u \subseteq s => u = s
  <2> C \subseteq SUBSET S
    OBVIOUS
  <2> HIDE DEF C
  <2> QED
    BY MinimalSubset
<1>2. /\ Sum(f, s) = IF s = {} THEN 0 ELSE f[Some(s)] + Sum(f, s \ {Some(s)})
      /\ Sum(g, s) = IF s = {} THEN 0 ELSE g[Some(s)] + Sum(g, s \ {Some(s)})
  BY <1>1, FS_Subset, SumUnfolds
<1>3. CASE s = {}
  BY <1>1, <1>2, <1>3
<1>4. CASE s # {}
  <2>1. Some(s) \in s
    BY <1>4, SomeIsIn
  <2>2. Sum(f, s \ {Some(s)}) = Sum(g, s \ {Some(s)}) /\ f[Some(s)] = g[Some(s)]
    BY <1>1, <2>1
  <2> QED
    BY <1>1, <1>2, <1>4, <2>2
<1> QED
  BY <1>3, <1>4

\* Any element can be taken out of the sum.
LEMMA SumWithout ==
  ASSUME NEW f, NEW S, IsFiniteSet(S), \A x \in S : f[x] \in Nat, NEW x \in S
  PROVE  Sum(f, S) = f[x] + Sum(f, S \ {x})
<1> DEFINE C == {s \in SUBSET S : \E y \in s : Sum(f, s) # f[y] + Sum(f, s \ {y})}
<1> SUFFICES ASSUME C # {} PROVE FALSE
  OBVIOUS
<1>1. PICK s \in C : \A u \in C : u \subseteq s => u = s
  <2> C \subseteq SUBSET S
    OBVIOUS
  <2> HIDE DEF C
  <2> QED
    BY MinimalSubset
<1>2. PICK y \in s : Sum(f, s) # f[y] + Sum(f, s \ {y})
  BY <1>1
<1> DEFINE z == Some(s)
<1>3. z \in s /\ s \in SUBSET S /\ IsFiniteSet(s)
  BY <1>1, <1>2, SomeIsIn, FS_Subset
<1>4. Sum(f, s) = f[z] + Sum(f, s \ {z})
  BY <1>2, <1>3, SumUnfolds
<1>5. y # z
  BY <1>2, <1>4
<1> HIDE DEF z
<1>6. ASSUME NEW u \in SUBSET s, u # s, NEW w \in u
      PROVE  Sum(f, u) = f[w] + Sum(f, u \ {w})
  <2>1. u \in SUBSET S /\ u \notin C
    BY <1>1, <1>3, <1>6
  <2> QED
    BY <2>1
<1>7. Sum(f, s \ {z}) = f[y] + Sum(f, (s \ {z}) \ {y})
  BY <1>2, <1>3, <1>5, <1>6
<1>8. Sum(f, s \ {y}) = f[z] + Sum(f, (s \ {y}) \ {z})
  BY <1>2, <1>3, <1>5, <1>6
<1>9. (s \ {z}) \ {y} = (s \ {y}) \ {z}
  OBVIOUS
<1>10. f[y] \in Nat /\ f[z] \in Nat /\ Sum(f, (s \ {z}) \ {y}) \in Nat
  <2>1. IsFiniteSet((s \ {z}) \ {y}) /\ \A w \in (s \ {z}) \ {y} : f[w] \in Nat
    BY <1>3, FS_Subset
  <2> QED
    BY <1>2, <1>3, <2>1, SumIsNat
<1> QED
  BY <1>2, <1>4, <1>7, <1>8, <1>9, <1>10

\* What t contributes.
Summand(f, S, t) == IF t \in S THEN f[t] ELSE 0

LEMMA SumOfRest ==
  ASSUME NEW f, NEW S, IsFiniteSet(S), \A x \in S : f[x] \in Nat, NEW t
  PROVE  /\ Sum(f, S) \in Nat /\ Sum(f, S \ {t}) \in Nat
         /\ Sum(f, S) = Sum(f, S \ {t}) + Summand(f, S, t)
<1>1. IsFiniteSet(S \ {t}) /\ \A x \in S \ {t} : f[x] \in Nat
  BY FS_Subset
<1>2. Sum(f, S) \in Nat
  BY SumIsNat
<1>3. Sum(f, S \ {t}) \in Nat
  BY <1>1, SumIsNat
<1>4. CASE t \in S
  <2>1. Sum(f, S) = f[t] + Sum(f, S \ {t})
    BY <1>4, SumWithout
  <2>2. f[t] \in Nat /\ Summand(f, S, t) = f[t]
    BY <1>4 DEF Summand
  <2> QED
    BY <1>2, <1>3, <2>1, <2>2
<1>5. CASE t \notin S
  <2>1. S \ {t} = S /\ Summand(f, S, t) = 0
    BY <1>5 DEF Summand
  <2> QED
    BY <1>2, <2>1
<1> QED
  BY <1>4, <1>5

\* One summand is set; t may be in either set, in both or in none.
LEMMA SumChanges ==
  ASSUME NEW f, NEW S, IsFiniteSet(S), \A x \in S : f[x] \in Nat,
         NEW g, NEW T, IsFiniteSet(T), \A x \in T : g[x] \in Nat,
         NEW t, S \ {t} = T \ {t}, \A x \in S \ {t} : g[x] = f[x]
  PROVE  /\ Sum(f, S) \in Nat /\ Sum(g, T) \in Nat
         /\ Sum(g, T) + Summand(f, S, t) = Sum(f, S) + Summand(g, T, t)
<1>1. /\ Sum(f, S) \in Nat /\ Sum(f, S \ {t}) \in Nat
      /\ Sum(f, S) = Sum(f, S \ {t}) + Summand(f, S, t)
  BY SumOfRest
<1>2. /\ Sum(g, T) \in Nat /\ Sum(g, T \ {t}) \in Nat
      /\ Sum(g, T) = Sum(g, T \ {t}) + Summand(g, T, t)
  BY SumOfRest
<1>3. Sum(g, T \ {t}) = Sum(f, S \ {t})
  <2>1. IsFiniteSet(S \ {t})
    BY FS_Subset
  <2> QED
    BY <2>1, SumSame
<1>4. Summand(f, S, t) \in Nat /\ Summand(g, T, t) \in Nat
  BY DEF Summand
<1> QED
  BY <1>1, <1>2, <1>3, <1>4

-----------------------------------------------------------------------------
(* The intent vault *)

TransfersTo(a) == {t \in TxId : intentTypes[t] = TRANSFER /\ intentTargets[t] = a}

RecordsArePaidTo(a) == paid[a] >= Sum(intentAmounts, TransfersTo(a))

LEMMA RecordsArePaidDef == RecordsArePaid <=> \A a \in Account : RecordsArePaidTo(a)
BY DEF RecordsArePaid, RecordsArePaidTo, Sum, TransfersTo

IntentInv == IntentTypeOK /\ \A a \in Account : RecordsArePaidTo(a)

LEMMA IntentInitInv == IntentInit => IntentInv
<1> SUFFICES ASSUME IntentInit PROVE IntentInv
  OBVIOUS
<1>1. IntentTypeOK
  BY DEF IntentInit, StateInit, IntentTypeOK, StateTypeOK, IntentType
<1>2. ASSUME NEW a \in Account PROVE RecordsArePaidTo(a)
  <2>1. TransfersTo(a) = {}
    BY DEF IntentInit, TransfersTo, NONE, TRANSFER
  <2>2. Sum(intentAmounts, {}) = 0
    BY FS_EmptySet, SumUnfolds
  <2>3. paid[a] = 0
    BY DEF IntentInit, StateInit
  <2> QED
    BY <2>1, <2>2, <2>3 DEF RecordsArePaidTo
<1> QED
  BY <1>1, <1>2 DEF IntentInv

LEMMA VerifyTypeOK ==
  ASSUME IntentTypeOK, NEW vm \in Vm, Verify(vm)
  PROVE  IntentTypeOK'
<1>1. /\ vm.txId \in TxId /\ vm.amount \in Nat /\ vm.recipient \in Account
      /\ vm.intentType \in IntentType
  BY IntentVmAssumption DEF Verify, Accepts, WellFormed
<1>2. paid' \in [Account -> Nat]
  BY <1>1 DEF Verify, ExecuteIntent, Donate, IntentTypeOK, StateTypeOK
<1> QED
  BY <1>1, <1>2 DEF Verify, IntentTypeOK, StateTypeOK

\* The record that verify overwrites leaves the sum of its recipient; the new
\* one enters the sum of the recipient that is paid.
LEMMA VerifyPays ==
  ASSUME IntentTypeOK, NEW vm \in Vm, Verify(vm), NEW a \in Account, RecordsArePaidTo(a)
  PROVE  RecordsArePaidTo(a)'
<1> DEFINE t == vm.txId
           S == TransfersTo(a)
           T == TransfersTo(a)'
<1>1. /\ t \in TxId /\ vm.amount \in Nat /\ vm.recipient \in Account
  BY IntentVmAssumption DEF Verify, Accepts, WellFormed
<1>2. /\ intentAmounts' = [intentAmounts EXCEPT ![t] = vm.amount]
      /\ intentTypes' = [intentTypes EXCEPT ![t] = vm.intentType]
      /\ intentTargets' = [intentTargets EXCEPT ![t] = vm.recipient]
  BY DEF Verify
<1>3. /\ intentAmounts \in [TxId -> Nat] /\ intentAmounts' \in [TxId -> Nat]
      /\ intentAmounts'[t] = vm.amount
      /\ \A x \in TxId \ {t} : intentAmounts'[x] = intentAmounts[x]
  BY <1>1, <1>2 DEF IntentTypeOK
<1>4. S \subseteq TxId /\ T \subseteq TxId /\ S \ {t} = T \ {t}
  BY <1>1, <1>2 DEF TransfersTo, IntentTypeOK
<1>5. t \in T <=> vm.intentType = TRANSFER /\ vm.recipient = a
  BY <1>1, <1>2 DEF TransfersTo, IntentTypeOK
<1>6. /\ paid[a] \in Nat
      /\ paid'[a] = paid[a] + Summand(intentAmounts', T, t)
  BY <1>1, <1>3, <1>5 DEF Summand, Verify, ExecuteIntent, Donate, IntentTypeOK, StateTypeOK
<1>7. IsFiniteSet(S) /\ IsFiniteSet(T)
  BY <1>4, TxIdAssumption, FS_Subset
<1> HIDE DEF t, S, T
<1>8. /\ Sum(intentAmounts, S) \in Nat /\ Sum(intentAmounts', T) \in Nat
      /\ Sum(intentAmounts', T) + Summand(intentAmounts, S, t)
           = Sum(intentAmounts, S) + Summand(intentAmounts', T, t)
  <2>1. /\ \A x \in S : intentAmounts[x] \in Nat
        /\ \A x \in T : intentAmounts'[x] \in Nat
        /\ \A x \in S \ {t} : intentAmounts'[x] = intentAmounts[x]
    BY <1>3, <1>4
  <2> QED
    BY <1>4, <1>7, <2>1, SumChanges
<1>9. Sum(intentAmounts, S) <= paid[a]
  BY <1>6, <1>8 DEF RecordsArePaidTo, S
<1>10. Summand(intentAmounts, S, t) \in Nat /\ Summand(intentAmounts', T, t) \in Nat
  BY <1>1, <1>3 DEF Summand
<1>11. Sum(intentAmounts', T) <= paid'[a]
  BY <1>6, <1>8, <1>9, <1>10
<1>12. paid'[a] \in Nat
  BY <1>6, <1>10
<1> QED
  BY <1>8, <1>11, <1>12 DEF RecordsArePaidTo, T

LEMMA IntentStepInv == IntentInv /\ [IntentNext]_intentVars => IntentInv'
<1> SUFFICES ASSUME IntentInv, [IntentNext]_intentVars PROVE IntentInv'
  OBVIOUS
<1>1. ASSUME NEW vm \in Vm, Verify(vm) PROVE IntentInv'
  <2>1. IntentTypeOK'
    BY <1>1, VerifyTypeOK DEF IntentInv
  <2>2. \A a \in Account : RecordsArePaidTo(a)'
    BY <1>1, VerifyPays DEF IntentInv
  <2> QED
    BY <2>1, <2>2 DEF IntentInv
<1>2. ASSUME NEW caller, NEW chain \in Chain, NEW emitter \in Emitter \cup {NoEmitter},
             Register(caller, chain, emitter)
      PROVE  IntentInv'
  <2>1. IntentTypeOK'
    BY <1>2 DEF Register, RegisterEmitter, IntentInv, IntentTypeOK, StateTypeOK
  <2>2. \A a \in Account : RecordsArePaidTo(a)'
    BY <1>2 DEF Register, IntentInv, RecordsArePaidTo, TransfersTo
  <2> QED
    BY <2>1, <2>2 DEF IntentInv
<1>3. CASE UNCHANGED intentVars
  BY <1>3 DEF intentVars, IntentInv, IntentTypeOK, StateTypeOK, RecordsArePaidTo, TransfersTo
<1> QED
  BY <1>1, <1>2, <1>3 DEF IntentNext

\* The intent vault has paid whatever it has on record, in whatever order, how
\* often and under which ids the messages come.
THEOREM RecordsStayPaid == IntentSpec => []RecordsArePaid
<1>1. IntentInv => RecordsArePaid
  BY RecordsArePaidDef DEF IntentInv
<1> QED
  BY <1>1, IntentInitInv, IntentStepInv, PTL DEF IntentSpec

\* Every part of the intent vault keeps its type: what verify lets through is a
\* known kind of intent, with an amount, for an address.
THEOREM IntentTypeCorrect == IntentSpec => []IntentTypeOK
<1>1. IntentInv => IntentTypeOK
  BY DEF IntentInv
<1> QED
  BY <1>1, IntentInitInv, IntentStepInv, PTL DEF IntentSpec

-----------------------------------------------------------------------------
(* The older vault *)

Minted == Sum(arbitrumMessages, TxId)

LEMMA MintedDef ==
  MintedIsRecorded <=> \A a \in Account : paid[a] = IF a = Receiver THEN Minted ELSE 0
BY DEF MintedIsRecorded, Minted, Sum

DonationInv ==
  /\ VaultTypeOK
  /\ \A a \in Account : paid[a] = IF a = Receiver THEN Minted ELSE 0

LEMMA DonationInitInv == ASSUME VaultInit PROVE DonationInv
<1>1. VaultTypeOK
  BY DEF VaultInit, StateInit, VaultTypeOK, StateTypeOK
<1>2. Minted = 0
  <2> DEFINE C == {s \in SUBSET TxId : Sum(arbitrumMessages, s) # 0}
  <2> SUFFICES ASSUME C # {} PROVE FALSE
    BY DEF Minted
  <2>1. PICK s \in C : \A u \in C : u \subseteq s => u = s
    <3> C \subseteq SUBSET TxId
      OBVIOUS
    <3> HIDE DEF C
    <3> QED
      BY TxIdAssumption, MinimalSubset
  <2>2. s \subseteq TxId /\ IsFiniteSet(s) /\ Sum(arbitrumMessages, s) # 0
    BY <2>1, TxIdAssumption, FS_Subset
  <2>3. Sum(arbitrumMessages, s) =
          IF s = {} THEN 0
          ELSE arbitrumMessages[Some(s)] + Sum(arbitrumMessages, s \ {Some(s)})
    BY <2>2, SumUnfolds
  <2>4. s # {} /\ Some(s) \in s
    BY <2>2, <2>3, SomeIsIn
  <2>5. Sum(arbitrumMessages, s \ {Some(s)}) = 0
    BY <2>1, <2>2, <2>4
  <2>6. arbitrumMessages[Some(s)] = 0
    BY <2>2, <2>4 DEF VaultInit, StateInit
  <2> QED
    BY <2>2, <2>3, <2>4, <2>5, <2>6
<1>3. \A a \in Account : paid[a] = IF a = Receiver THEN Minted ELSE 0
  BY <1>2 DEF VaultInit, StateInit
<1> QED
  BY <1>1, <1>3 DEF DonationInv

LEMMA DonationStepInv ==
  ASSUME DonationInv, [VaultNext]_stateVars
  PROVE  DonationInv'
<1>1. ASSUME NEW vm \in VaultVm, VaultVerify(vm) PROVE DonationInv'
  <2> DEFINE t == vm.txId
             n == ExtractedAmount(vm)
  <2>1. t \in TxId /\ arbitrumMessages[t] = 0 /\ n \in 0..255
    <3>1. t \in TxId /\ arbitrumMessages[t] = 0 /\ vm.amount # <<>>
      BY <1>1 DEF VaultVerify, NotProcessed
    <3>2. vm.amount \in Seq(0..255)
      BY VaultVmAssumption
    <3> QED
      BY <3>1, <3>2, HeadTailProperties DEF ExtractedAmount
  <2>2. /\ arbitrumMessages' = [arbitrumMessages EXCEPT ![t] = n]
        /\ UNCHANGED <<registeredEmitters, blockChainId>>
        /\ paid' = IF n > 0 THEN [paid EXCEPT ![Receiver] = @ + n] ELSE paid
    BY <1>1 DEF VaultVerify, Donate
  <2> HIDE DEF t, n
  <2>3. VaultTypeOK'
    <3>1. paid' \in [Account -> Nat]
      BY <2>1, <2>2, ReceiverAssumption DEF DonationInv, VaultTypeOK, StateTypeOK
    <3>2. /\ arbitrumMessages' \in [TxId -> Nat]
          /\ \A x \in TxId : arbitrumMessages'[x] \in 0..255
      BY <2>1, <2>2 DEF DonationInv, VaultTypeOK, StateTypeOK
    <3> QED
      BY <2>2, <3>1, <3>2 DEF DonationInv, VaultTypeOK, StateTypeOK
  <2>4. Minted' = Minted + n /\ Minted \in Nat
    <3>1. /\ arbitrumMessages \in [TxId -> Nat] /\ arbitrumMessages' \in [TxId -> Nat]
          /\ arbitrumMessages'[t] = n
          /\ \A x \in TxId \ {t} : arbitrumMessages'[x] = arbitrumMessages[x]
      BY <2>1, <2>2 DEF DonationInv, VaultTypeOK, StateTypeOK
    <3>2. /\ Sum(arbitrumMessages, TxId) \in Nat /\ Sum(arbitrumMessages', TxId) \in Nat
          /\ Sum(arbitrumMessages', TxId) + Summand(arbitrumMessages, TxId, t)
               = Sum(arbitrumMessages, TxId) + Summand(arbitrumMessages', TxId, t)
      <4>1. /\ \A x \in TxId : arbitrumMessages[x] \in Nat
            /\ \A x \in TxId : arbitrumMessages'[x] \in Nat
        BY <3>1
      <4> QED
        BY <3>1, <4>1, TxIdAssumption, SumChanges
    <3> QED
      BY <2>1, <3>1, <3>2 DEF Minted, Summand
  <2>5. \A a \in Account : paid'[a] = IF a = Receiver THEN Minted' ELSE 0
    BY <2>1, <2>2, <2>4, ReceiverAssumption DEF DonationInv, VaultTypeOK, StateTypeOK
  <2> QED
    BY <2>3, <2>5 DEF DonationInv
<1>2. ASSUME NEW caller, NEW chain \in Chain, NEW emitter \in Emitter \cup {NoEmitter},
             VaultRegister(caller, chain, emitter)
      PROVE  DonationInv'
  BY <1>2 DEF VaultRegister, RegisterEmitter, DonationInv, VaultTypeOK,
     StateTypeOK, Minted
<1>3. CASE UNCHANGED stateVars
  BY <1>3 DEF stateVars, DonationInv, VaultTypeOK, StateTypeOK, Minted
<1> QED
  BY <1>1, <1>2, <1>3 DEF VaultNext

\* The older vault has minted exactly what it has on record, for its receiver,
\* although messages of amount zero leave their transaction open for another.
THEOREM DonationsAreRecorded == VaultSpec => []MintedIsRecorded
<1>1. VaultInit => DonationInv
  BY DonationInitInv
<1>2. DonationInv /\ [VaultNext]_stateVars => DonationInv'
  BY DonationStepInv
<1>3. DonationInv => MintedIsRecorded
  BY MintedDef DEF DonationInv
<1> QED
  BY <1>1, <1>2, <1>3, PTL DEF VaultSpec

\* What the older vault has on record is a byte, whatever the amount was.
THEOREM DonationTypeCorrect == VaultSpec => []VaultTypeOK
<1>1. VaultInit => DonationInv
  BY DonationInitInv
<1>2. DonationInv /\ [VaultNext]_stateVars => DonationInv'
  BY DonationStepInv
<1>3. DonationInv => VaultTypeOK
  BY DEF DonationInv
<1> QED
  BY <1>1, <1>2, <1>3, PTL DEF VaultSpec
=============================================================================
