--------------------------- MODULE Relayer_proofs ---------------------------
(* Theorems of Relayer, for every set of VAAs, every number of goroutines    *)
(* and deliveries, every TTL and every length of a run.                     *)
EXTENDS Relayer, FiniteSetTheorems, TLAPS

\* The goroutines that have not finished their attempt.
Attempting == {w \in Worker : worker[w] # Idle /\ worker[w].pc # "finish"}

\* Every transaction, and every attempt that may still make one, is the only
\* one of a delivery.
NoncesCovered == pendingNonce + Cardinality(Attempting) <= deliveries

\* An attempt that ended well made a chain accept its VAA.
OkWasAccepted ==
  \A w \in Worker :
    worker[w] # Idle /\ worker[w].pc = "finish" /\ worker[w].ok =>
      accepted[worker[w].vaa] > 0 \/ Route[worker[w].vaa] = "other"

\* An entry is missing or wrong only once it is too old to suppress anything.
EntriesRemain ==
  \A v \in Vaa :
    \/ processed[v] = lastSuccess[v]
    \/ lastSuccess[v] # Never /\ now - lastSuccess[v] >= TTL

RInv ==
  /\ RelayerTypeOK
  /\ NoncesCovered
  /\ StoppedIsQuiet
  /\ OneGoroutinePerVaa
  /\ OkWasAccepted
  /\ SuppressedWasAccepted
  /\ EntriesRemain

\* The set of attempts is finite and its size a number.
LEMMA AttemptingFinite ==
  IsFiniteSet(Attempting) /\ Cardinality(Attempting) \in Nat
<1>1. Attempting \subseteq Worker
  BY DEF Attempting
<1>2. QED
  BY <1>1, WorkerAssumption, FS_Subset, FS_CardinalityType

\* What a busy goroutine is.
LEMMA BusyFields ==
  ASSUME RelayerTypeOK, NEW w \in Worker, worker[w] # Idle
  PROVE  /\ worker[w] \in Busy
         /\ worker[w].vaa \in Vaa
         /\ worker[w].pc \in PC
         /\ worker[w].nonce \in 0..MaxDeliveries
         /\ worker[w].ok \in BOOLEAN
BY DEF RelayerTypeOK, Busy

\* The process starts in the invariant: nothing attempted, nothing suppressed.
LEMMA InitRInv == RelayerInit => RInv
<1> SUFFICES ASSUME RelayerInit PROVE RInv
  OBVIOUS
<1> USE DEF RelayerInit
<1>1. RelayerTypeOK
  BY TTLAssumption, MaxTimeAssumption, MaxDeliveriesAssumption DEF RelayerTypeOK
<1>2. NoncesCovered
  <2>1. Attempting = {}
    BY DEF Attempting
  <2>2. QED
    BY <2>1, FS_EmptySet DEF NoncesCovered
<1>3. StoppedIsQuiet /\ OkWasAccepted /\ SuppressedWasAccepted /\ EntriesRemain
  BY DEF StoppedIsQuiet, OkWasAccepted, SuppressedWasAccepted, EntriesRemain
<1>4. OneGoroutinePerVaa
  BY DEF OneGoroutinePerVaa
<1>5. QED
  BY <1>1, <1>2, <1>3, <1>4 DEF RInv

-----------------------------------------------------------------------------
(* One step of an attempt *)

\* Goroutine w goes on to r: it keeps its VAA, and if a transaction of it took
\* the pending nonce, or if it succeeded, the attempt is over.
MovesTo(w, r) ==
  /\ r \in Busy
  /\ worker' = [worker EXCEPT ![w] = r]
  /\ r.vaa = worker[w].vaa
  /\ UNCHANGED <<loopVars, dedupeVars, now>>
  /\ \/ pendingNonce' = pendingNonce
     \/ pendingNonce' = pendingNonce + 1 /\ r.pc = "finish"
  /\ accepted' \in [Vaa -> 0..2]
  /\ \A v \in Vaa : accepted[v] > 0 => accepted'[v] > 0
  /\ r.pc = "finish" /\ r.ok => accepted'[r.vaa] > 0 \/ Route[r.vaa] = "other"

\* Every step of an attempt short of its end is such a move.
LEMMA AttemptMoves ==
  ASSUME RelayerTypeOK, NEW w \in Worker,
         \/ Dispatch(w) \/ GetNonce(w) \/ RpcError(w) \/ SendTransaction(w)
         \/ NonceTaken(w) \/ CallService(w) \/ CallPxe(w)
  PROVE  /\ worker[w] # Idle /\ worker[w].pc # "finish"
         /\ \E r : MovesTo(w, r)
<1> DEFINE b == worker[w]
<1>1. b # Idle /\ b.pc # "finish"
  BY DEF Dispatch, GetNonce, RpcError, SendTransaction, NonceTaken, CallService, CallPxe, At
<1>2. b \in Busy /\ b.vaa \in Vaa /\ b.nonce \in 0..MaxDeliveries /\ b.ok \in BOOLEAN
  BY <1>1, BusyFields
<1>3. accepted \in [Vaa -> 0..2]
  BY DEF RelayerTypeOK
<1>4. ASSUME Submitted(b.vaa)
      PROVE  /\ accepted' \in [Vaa -> 0..2]
             /\ accepted'[b.vaa] > 0
             /\ \A v \in Vaa : accepted[v] > 0 => accepted'[v] > 0
  BY <1>2, <1>3, <1>4 DEF Submitted
<1>5. \A pc \in PC : [b EXCEPT !.pc = pc] \in Busy
  BY <1>2 DEF Busy
<1>6. \A ok \in BOOLEAN : [b EXCEPT !.pc = "finish", !.ok = ok] \in Busy
  BY <1>2 DEF Busy, PC
<1> DEFINE to(pc) == [b EXCEPT !.pc = pc]
           done(ok) == [b EXCEPT !.pc = "finish", !.ok = ok]
<1>7. \A pc \in PC : to(pc).vaa = b.vaa /\ to(pc).pc = pc
  BY <1>2 DEF Busy
<1>8. \A ok \in BOOLEAN : done(ok).vaa = b.vaa /\ done(ok).pc = "finish" /\ done(ok).ok = ok
  BY <1>2 DEF Busy
<1>9. \A pc \in PC : Goto(w, pc) => worker' = [worker EXCEPT ![w] = to(pc)]
  BY DEF Goto
<1>10. \A ok \in BOOLEAN : Done(w, ok) => worker' = [worker EXCEPT ![w] = done(ok)]
  BY DEF Done
<1> HIDE DEF to, done
<1>11. ASSUME NEW pc \in PC \ {"finish"}, Goto(w, pc),
              UNCHANGED <<loopVars, dedupeVars, now, pendingNonce>>,
              UNCHANGED accepted \/ Submitted(b.vaa)
       PROVE  \E r : MovesTo(w, r)
  <2>1. MovesTo(w, to(pc))
    BY <1>3, <1>4, <1>5, <1>7, <1>9, <1>11 DEF MovesTo, to
  <2>2. QED
    BY <2>1
<1>12. ASSUME NEW ok \in BOOLEAN, Done(w, ok),
              UNCHANGED <<loopVars, dedupeVars, now>>,
              pendingNonce' \in {pendingNonce, pendingNonce + 1},
              \/ Submitted(b.vaa)
              \/ UNCHANGED accepted /\ (ok => Route[b.vaa] = "other")
       PROVE  \E r : MovesTo(w, r)
  <2>1. MovesTo(w, done(ok))
    BY <1>3, <1>4, <1>6, <1>8, <1>10, <1>12 DEF MovesTo, done
  <2>2. QED
    BY <2>1
<1>13. CASE Dispatch(w)
  BY <1>1, <1>11, <1>12, <1>13 DEF Dispatch, PC, chainVars
<1>14. CASE GetNonce(w)
  <2> DEFINE r == [b EXCEPT !.pc = "send", !.nonce = pendingNonce]
  <2>1. r \in Busy /\ r.vaa = b.vaa /\ r.pc = "send"
    BY <1>2 DEF Busy, PC, RelayerTypeOK
  <2>2. worker' = [worker EXCEPT ![w] = r]
    BY <1>14 DEF GetNonce
  <2> HIDE DEF r
  <2>3. MovesTo(w, r)
    BY <1>3, <1>14, <2>1, <2>2 DEF MovesTo, GetNonce, chainVars
  <2>4. QED
    BY <1>1, <2>3
<1>15. CASE RpcError(w)
  BY <1>1, <1>12, <1>15 DEF RpcError, chainVars
<1>16. CASE SendTransaction(w)
  BY <1>1, <1>12, <1>16 DEF SendTransaction
<1>17. CASE NonceTaken(w)
  BY <1>1, <1>12, <1>17 DEF NonceTaken, chainVars
<1>18. CASE CallService(w)
  BY <1>1, <1>11, <1>12, <1>18 DEF CallService, PC
<1>19. CASE CallPxe(w)
  BY <1>1, <1>12, <1>19 DEF CallPxe
<1>20. QED
  BY <1>13, <1>14, <1>15, <1>16, <1>17, <1>18, <1>19

-----------------------------------------------------------------------------
(* The invariant, action by action *)

\* A step of an attempt: the numbers add up because a transaction ends it.
LEMMA MoveKeeps ==
  ASSUME RInv, NEW w \in Worker, worker[w] # Idle, worker[w].pc # "finish",
         NEW r, MovesTo(w, r)
  PROVE  RInv'
<1> USE DEF MovesTo, loopVars, dedupeVars
<1>1. RelayerTypeOK /\ r # Idle /\ w \in Attempting
  BY IdleAssumption DEF RInv, Attempting
<1>2. \A u \in Worker : worker'[u] = IF u = w THEN r ELSE worker[u]
  BY <1>1 DEF RelayerTypeOK
<1>3. NoncesCovered'
  <2>1. deliveries' = deliveries /\ deliveries \in Nat /\ pendingNonce \in Nat
    BY <1>1, MaxDeliveriesAssumption DEF RelayerTypeOK
  <2>2. pendingNonce + Cardinality(Attempting) <= deliveries
    BY DEF RInv, NoncesCovered
  <2>3. CASE r.pc = "finish"
    <3>1. Attempting' = Attempting \ {w}
      BY <1>1, <1>2, <2>3 DEF Attempting
    <3>2. Cardinality(Attempting') = Cardinality(Attempting) - 1
      BY <1>1, <3>1, AttemptingFinite, FS_RemoveElement
    <3>3. QED
      BY <2>1, <2>2, <3>2, AttemptingFinite DEF NoncesCovered
  <2>4. CASE r.pc # "finish"
    <3>1. Attempting' = Attempting
      BY <1>1, <1>2, <2>4 DEF Attempting
    <3>2. QED
      BY <2>2, <2>4, <3>1 DEF NoncesCovered
  <2>5. QED
    BY <2>3, <2>4
<1>4. RelayerTypeOK'
  <2>1. pendingNonce' \in Nat /\ deliveries' \in Nat
    BY <1>1 DEF RelayerTypeOK
  <2>2. IsFiniteSet(Attempting') /\ Cardinality(Attempting') \in Nat
    <3>1. Attempting' \subseteq Worker
      BY DEF Attempting
    <3>2. QED
      BY <3>1, WorkerAssumption, FS_Subset, FS_CardinalityType
  <2>3. pendingNonce' \in 0..MaxDeliveries
    BY <1>1, <1>3, <2>1, <2>2, MaxDeliveriesAssumption DEF RelayerTypeOK, NoncesCovered
  <2>4. QED
    BY <1>1, <2>3 DEF RelayerTypeOK
<1>5. StoppedIsQuiet'
  BY <1>1 DEF RInv, StoppedIsQuiet
<1>6. OneGoroutinePerVaa'
  <2>1. \A u \in Worker : (worker'[u] # Idle <=> worker[u] # Idle)
                         /\ (worker[u] # Idle => worker'[u].vaa = worker[u].vaa)
    BY <1>1, <1>2
  <2>2. QED
    BY <2>1 DEF RInv, OneGoroutinePerVaa
<1>7. OkWasAccepted'
  <2>1. \A u \in Worker : worker[u] # Idle => worker[u].vaa \in Vaa
    BY <1>1, BusyFields
  <2>2. QED
    BY <1>1, <1>2, <2>1 DEF RInv, OkWasAccepted
<1>8. SuppressedWasAccepted' /\ EntriesRemain'
  BY DEF RInv, SuppressedWasAccepted, EntriesRemain
<1>9. QED
  BY <1>3, <1>4, <1>5, <1>6, <1>7, <1>8 DEF RInv

\* An entry that does not suppress v can be deleted.
LEMMA ForgetOld ==
  ASSUME RelayerTypeOK, EntriesRemain, NEW v \in Vaa, ~ProcessedRecently(v),
         processed' = [processed EXCEPT ![v] = Never],
         UNCHANGED <<lastSuccess, now>>
  PROVE  EntriesRemain'
<1>1. \A u \in Vaa : processed'[u] = IF u = v THEN Never ELSE processed[u]
  BY DEF RelayerTypeOK
<1>2. processed[v] \in {Never} \cup Nat /\ now \in Nat /\ TTL \in Nat
  BY MaxTimeAssumption, TTLAssumption DEF RelayerTypeOK
<1>3. processed[v] = Never \/ now - processed[v] >= TTL
  BY <1>2 DEF ProcessedRecently, Never
<1>4. QED
  BY <1>1, <1>3 DEF EntriesRemain

\* A new goroutine: one more attempt for one more delivery.
LEMMA AcceptKeeps ==
  ASSUME RInv, NEW v \in Vaa, NEW w \in Worker, Accept(v, w)
  PROVE  RInv'
<1> DEFINE r == [vaa |-> v, pc |-> "check", nonce |-> 0, ok |-> FALSE]
<1>a. /\ mode = "running" /\ deliveries < MaxDeliveries
      /\ ~ProcessedRecently(v) /\ v \notin inflight /\ worker[w] = Idle
      /\ deliveries' = deliveries + 1
      /\ processed' = [processed EXCEPT ![v] = Never]
      /\ inflight' = inflight \cup {v}
      /\ UNCHANGED <<mode, subscribed, lastSuccess, now, pendingNonce, accepted>>
  BY DEF Accept, Receive, InFlight, chainVars
<1>1. RelayerTypeOK /\ r \in Busy /\ r # Idle
  <2>1. r \in Busy
    BY MaxDeliveriesAssumption DEF Busy, PC
  <2>2. QED
    BY <2>1, IdleAssumption DEF RInv
<1>2. r.vaa = v /\ r.pc = "check"
  OBVIOUS
<1>3. worker' = [worker EXCEPT ![w] = r]
  BY DEF Accept
<1> HIDE DEF r
<1>4. \A u \in Worker : worker'[u] = IF u = w THEN r ELSE worker[u]
  BY <1>1, <1>3 DEF RelayerTypeOK
<1>5. NoncesCovered'
  <2>1. Attempting' = Attempting \cup {w} /\ w \notin Attempting
    BY <1>a, <1>1, <1>2, <1>4 DEF Attempting
  <2>2. Cardinality(Attempting') = Cardinality(Attempting) + 1
    BY <2>1, AttemptingFinite, FS_AddElement
  <2>3. QED
    BY <1>a, <1>1, <2>2, AttemptingFinite DEF RInv, NoncesCovered, RelayerTypeOK
<1>6. RelayerTypeOK'
  BY <1>a, <1>1, <1>3, MaxDeliveriesAssumption DEF RelayerTypeOK
<1>7. StoppedIsQuiet'
  BY <1>a DEF StoppedIsQuiet
<1>8. OneGoroutinePerVaa'
  <2>1. inflight = {worker[u].vaa : u \in {x \in Worker : worker[x] # Idle}}
    BY <1>a DEF RInv, OneGoroutinePerVaa
  <2>2. \A u \in Worker : worker[u] # Idle => worker[u].vaa # v
    BY <1>a, <2>1
  <2>3. \A u, x \in Worker :
          worker'[u] # Idle /\ worker'[x] # Idle /\ worker'[u].vaa = worker'[x].vaa => u = x
    BY <1>a, <1>1, <1>2, <1>4, <2>2 DEF RInv, OneGoroutinePerVaa
  <2>4. {x \in Worker : worker'[x] # Idle} = {x \in Worker : worker[x] # Idle} \cup {w}
    BY <1>1, <1>4
  <2>5. \A u \in {x \in Worker : worker[x] # Idle} : worker'[u] = worker[u]
    BY <1>a, <1>4
  <2>6. inflight' = {worker'[u].vaa : u \in {x \in Worker : worker'[x] # Idle}}
    BY <1>a, <1>2, <1>4, <2>1, <2>4, <2>5
  <2>7. QED
    BY <2>3, <2>6 DEF OneGoroutinePerVaa
<1>9. OkWasAccepted'
  BY <1>a, <1>2, <1>4 DEF RInv, OkWasAccepted
<1>10. SuppressedWasAccepted'
  BY <1>a, <1>1 DEF RInv, SuppressedWasAccepted, RelayerTypeOK
<1>11. EntriesRemain'
  BY <1>a, <1>1, ForgetOld DEF RInv
<1>12. QED
  BY <1>5, <1>6, <1>7, <1>8, <1>9, <1>10, <1>11 DEF RInv

\* The end of an attempt: its VAA leaves inflightVAAs, a success is entered,
\* and what is pruned is old.
LEMMA FinishKeeps ==
  ASSUME RInv, NEW w \in Worker, Finish(w)
  PROVE  RInv'
<1> DEFINE v == worker[w].vaa
           done == IF Succeeded(w) THEN [processed EXCEPT ![v] = now] ELSE processed
<1>1. RelayerTypeOK
  BY DEF RInv
<1>2. /\ worker[w] # Idle /\ worker[w].pc = "finish"
      /\ inflight' = inflight \ {v}
      /\ processed' = [u \in Vaa |-> IF OlderThanCutoff(done[u]) THEN Never ELSE done[u]]
      /\ lastSuccess' = IF worker[w].ok THEN [lastSuccess EXCEPT ![v] = now] ELSE lastSuccess
      /\ worker' = [worker EXCEPT ![w] = Idle]
      /\ UNCHANGED <<mode, subscribed, deliveries, now, pendingNonce, accepted>>
  BY DEF Finish, At, GoroutineEnds, Succeeded, loopVars, chainVars
<1>3. v \in Vaa
  BY <1>1, <1>2, BusyFields
<1>4. \A u \in Worker : worker'[u] = IF u = w THEN Idle ELSE worker[u]
  BY <1>1, <1>2 DEF RelayerTypeOK
<1>5. \A u \in Vaa : done[u] = IF u = v /\ worker[w].ok THEN now ELSE processed[u]
  BY <1>1 DEF Succeeded, RelayerTypeOK
<1>6. \A u \in Vaa : lastSuccess'[u] = IF u = v /\ worker[w].ok THEN now ELSE lastSuccess[u]
  BY <1>1, <1>2 DEF RelayerTypeOK
<1> HIDE DEF v, done
<1>7. \A u \in Vaa : processed'[u] = Never \/ processed'[u] = done[u]
  BY <1>2
<1>8. NoncesCovered'
  <2>1. Attempting' = Attempting
    BY <1>2, <1>4 DEF Attempting
  <2>2. QED
    BY <1>2, <2>1 DEF RInv, NoncesCovered
<1>9. RelayerTypeOK'
  <2>1. processed' \in [Vaa -> {Never} \cup 0..MaxTime]
    BY <1>1, <1>2, <1>5 DEF RelayerTypeOK
  <2>2. lastSuccess' \in [Vaa -> {Never} \cup 0..MaxTime]
    BY <1>1, <1>2 DEF RelayerTypeOK
  <2>3. worker' \in [Worker -> {Idle} \cup Busy]
    BY <1>1, <1>2 DEF RelayerTypeOK
  <2>4. QED
    BY <1>1, <1>2, <2>1, <2>2, <2>3 DEF RelayerTypeOK
<1>10. StoppedIsQuiet'
  BY <1>2, <1>4 DEF RInv, StoppedIsQuiet
<1>11. OneGoroutinePerVaa'
  <2> SUFFICES ASSUME mode' # "stopped"
               PROVE  /\ inflight' = {worker'[u].vaa : u \in {x \in Worker : worker'[x] # Idle}}
                      /\ \A u, x \in Worker :
                           worker'[u] # Idle /\ worker'[x] # Idle
                             /\ worker'[u].vaa = worker'[x].vaa => u = x
    BY DEF OneGoroutinePerVaa
  <2>1. /\ inflight = {worker[u].vaa : u \in {x \in Worker : worker[x] # Idle}}
        /\ \A u, x \in Worker :
             worker[u] # Idle /\ worker[x] # Idle /\ worker[u].vaa = worker[x].vaa => u = x
    BY <1>2 DEF RInv, OneGoroutinePerVaa
  <2>2. {x \in Worker : worker'[x] # Idle} = {x \in Worker : worker[x] # Idle} \ {w}
    BY <1>4
  <2>3. \A u \in {x \in Worker : worker'[x] # Idle} :
          worker'[u] = worker[u] /\ worker[u].vaa # v
    BY <1>2, <1>4, <2>1 DEF v
  <2>4. inflight' = {worker'[u].vaa : u \in {x \in Worker : worker'[x] # Idle}}
    BY <1>2, <2>1, <2>2, <2>3 DEF v
  <2>5. QED
    BY <2>1, <2>3, <2>4
<1>12. OkWasAccepted'
  BY <1>2, <1>4 DEF RInv, OkWasAccepted
<1>13. SuppressedWasAccepted'
  <2>1. worker[w].ok => accepted[v] > 0 \/ Route[v] = "other"
    BY <1>2 DEF RInv, OkWasAccepted, v
  <2>2. QED
    BY <1>2, <1>5, <1>7, <2>1 DEF RInv, SuppressedWasAccepted
<1>14. EntriesRemain'
  <2>1. now \in Nat /\ TTL \in Nat \ {0}
    BY <1>1, MaxTimeAssumption, TTLAssumption DEF RelayerTypeOK
  <2>2. ASSUME NEW u \in Vaa
        PROVE  \/ processed'[u] = lastSuccess'[u]
               \/ lastSuccess'[u] # Never /\ now' - lastSuccess'[u] >= TTL
    <3>1. processed[u] \in {Never} \cup Nat
      BY <1>1, MaxTimeAssumption DEF RelayerTypeOK
    <3>2. CASE u = v /\ worker[w].ok
      BY <1>2, <1>5, <1>6, <2>1, <3>2 DEF OlderThanCutoff
    <3>3. CASE ~(u = v /\ worker[w].ok)
      <4>1. done[u] = processed[u] /\ lastSuccess'[u] = lastSuccess[u]
        BY <1>5, <1>6, <3>3
      <4>2. \/ processed[u] = lastSuccess[u]
            \/ lastSuccess[u] # Never /\ now - lastSuccess[u] >= TTL
        BY DEF RInv, EntriesRemain
      <4>3. QED
        BY <1>2, <2>1, <3>1, <4>1, <4>2 DEF OlderThanCutoff
    <3>4. QED
      BY <3>2, <3>3
  <2>3. QED
    BY <2>2 DEF EntriesRemain
<1>15. QED
  BY <1>8, <1>9, <1>10, <1>11, <1>12, <1>13, <1>14 DEF RInv

\* A redelivery that is dropped.
LEMMA DropKeeps ==
  ASSUME RInv, NEW v \in Vaa, DropProcessed(v) \/ DropInflight(v)
  PROVE  RInv'
<1>1. RelayerTypeOK
  BY DEF RInv
<1>2. /\ deliveries < MaxDeliveries /\ deliveries' = deliveries + 1
      /\ UNCHANGED <<mode, subscribed, inflight, lastSuccess, worker, now, pendingNonce, accepted>>
  BY DEF DropProcessed, DropInflight, Receive, dedupeVars, chainVars
<1>3. \/ UNCHANGED processed
      \/ ~ProcessedRecently(v) /\ processed' = [processed EXCEPT ![v] = Never]
  BY DEF DropProcessed, DropInflight, dedupeVars
<1>4. RelayerTypeOK'
  BY <1>1, <1>2, <1>3, MaxDeliveriesAssumption DEF RelayerTypeOK
<1>5. NoncesCovered'
  BY <1>1, <1>2, AttemptingFinite DEF RInv, NoncesCovered, Attempting, RelayerTypeOK
<1>6. StoppedIsQuiet' /\ OneGoroutinePerVaa' /\ OkWasAccepted'
  BY <1>2 DEF RInv, StoppedIsQuiet, OneGoroutinePerVaa, OkWasAccepted
<1>7. SuppressedWasAccepted'
  BY <1>1, <1>2, <1>3 DEF RInv, SuppressedWasAccepted, RelayerTypeOK
<1>8. EntriesRemain'
  <2>1. CASE UNCHANGED processed
    BY <1>2, <2>1 DEF RInv, EntriesRemain
  <2>2. CASE ~ProcessedRecently(v) /\ processed' = [processed EXCEPT ![v] = Never]
    BY <1>1, <1>2, <2>2, ForgetOld DEF RInv
  <2>3. QED
    BY <1>3, <2>1, <2>2
<1>9. QED
  BY <1>4, <1>5, <1>6, <1>7, <1>8 DEF RInv

\* The stream, the signal, the end of wg.Wait and the clock.
LEMMA LoopKeeps ==
  ASSUME RInv, StreamError \/ Resubscribe \/ Shutdown \/ Stop \/ Tick
  PROVE  RInv'
<1>1. RelayerTypeOK
  BY DEF RInv
<1>2. UNCHANGED <<inflight, processed, lastSuccess, worker, deliveries, pendingNonce, accepted>>
  BY DEF StreamError, Resubscribe, Shutdown, Stop, Tick, loopVars, dedupeVars, chainVars
<1>3. RelayerTypeOK'
  <2>1. mode' \in {"running", "stopping", "stopped"}
    BY <1>1 DEF StreamError, Resubscribe, Shutdown, Stop, Tick, loopVars, RelayerTypeOK
  <2>2. subscribed' \in BOOLEAN
    BY <1>1 DEF StreamError, Resubscribe, Shutdown, Stop, Tick, loopVars, RelayerTypeOK
  <2>3. now' \in 0..MaxTime
    BY <1>1, MaxTimeAssumption DEF StreamError, Resubscribe, Shutdown, Stop, Tick, RelayerTypeOK
  <2>4. QED
    BY <1>1, <1>2, <2>1, <2>2, <2>3 DEF RelayerTypeOK
<1>4. NoncesCovered' /\ OkWasAccepted' /\ SuppressedWasAccepted'
  BY <1>2 DEF RInv, NoncesCovered, Attempting, OkWasAccepted, SuppressedWasAccepted
<1>5. mode' = "stopped" => mode = "stopped" \/ AllGoroutinesDone
  BY DEF StreamError, Resubscribe, Shutdown, Stop, Tick, loopVars
<1>6. mode' # "stopped" => mode # "stopped"
  BY DEF StreamError, Resubscribe, Shutdown, Stop, Tick, loopVars
<1>7. StoppedIsQuiet' /\ OneGoroutinePerVaa'
  BY <1>2, <1>5, <1>6 DEF RInv, StoppedIsQuiet, OneGoroutinePerVaa, AllGoroutinesDone
<1>8. EntriesRemain'
  <2>1. now' \in {now, now + 1} /\ now \in Nat /\ TTL \in Nat
    BY <1>1, MaxTimeAssumption, TTLAssumption
       DEF StreamError, Resubscribe, Shutdown, Stop, Tick, RelayerTypeOK
  <2>2. \A v \in Vaa : lastSuccess[v] # Never => lastSuccess[v] \in Nat
    BY <1>1, MaxTimeAssumption DEF RelayerTypeOK
  <2>3. QED
    BY <1>2, <2>1, <2>2 DEF RInv, EntriesRemain
<1>9. QED
  BY <1>3, <1>4, <1>7, <1>8 DEF RInv

\* A crash takes the goroutines, and what they attempted, with it.
LEMMA CrashKeeps ==
  ASSUME RInv, Crash
  PROVE  RInv'
<1>1. RelayerTypeOK
  BY DEF RInv
<1>2. /\ mode' = "stopped"
      /\ worker' = [w \in Worker |-> Idle]
      /\ UNCHANGED <<subscribed, deliveries, inflight, processed, lastSuccess, now,
                     pendingNonce, accepted>>
  BY DEF Crash, dedupeVars, chainVars
<1>3. RelayerTypeOK'
  BY <1>1, <1>2 DEF RelayerTypeOK
<1>4. NoncesCovered'
  <2>1. Attempting' = {}
    BY <1>2 DEF Attempting
  <2>2. Cardinality(Attempting') = 0
    BY <2>1, FS_EmptySet
  <2>3. QED
    BY <1>1, <1>2, <2>2, AttemptingFinite, MaxDeliveriesAssumption
       DEF RInv, NoncesCovered, RelayerTypeOK
<1>5. StoppedIsQuiet' /\ OneGoroutinePerVaa' /\ OkWasAccepted'
  BY <1>2 DEF StoppedIsQuiet, OneGoroutinePerVaa, OkWasAccepted
<1>6. SuppressedWasAccepted' /\ EntriesRemain'
  BY <1>2 DEF RInv, SuppressedWasAccepted, EntriesRemain
<1>7. QED
  BY <1>3, <1>4, <1>5, <1>6 DEF RInv

\* A new process starts with empty maps and no goroutine.
LEMMA RestartKeeps ==
  ASSUME RInv, Restart
  PROVE  RInv'
<1>1. RelayerTypeOK
  BY DEF RInv
<1>2. /\ mode = "stopped" /\ mode' = "running"
      /\ subscribed' = TRUE
      /\ inflight' = {}
      /\ processed' = [v \in Vaa |-> Never]
      /\ lastSuccess' = [v \in Vaa |-> Never]
      /\ UNCHANGED <<deliveries, worker, now, pendingNonce, accepted>>
  BY DEF Restart, chainVars
<1>3. \A w \in Worker : worker[w] = Idle
  BY <1>2 DEF RInv, StoppedIsQuiet
<1>4. RelayerTypeOK'
  BY <1>1, <1>2 DEF RelayerTypeOK
<1>5. NoncesCovered'
  BY <1>2 DEF RInv, NoncesCovered, Attempting
<1>6. StoppedIsQuiet' /\ OneGoroutinePerVaa' /\ OkWasAccepted'
  BY <1>2, <1>3 DEF StoppedIsQuiet, OneGoroutinePerVaa, OkWasAccepted
<1>7. SuppressedWasAccepted' /\ EntriesRemain'
  BY <1>2 DEF SuppressedWasAccepted, EntriesRemain
<1>8. QED
  BY <1>4, <1>5, <1>6, <1>7 DEF RInv

\* Every step keeps the invariant.
LEMMA NextRInv == RInv /\ [RelayerNext]_relayerVars => RInv'
<1> SUFFICES ASSUME RInv, [RelayerNext]_relayerVars PROVE RInv'
  OBVIOUS
<1>1. ASSUME NEW w \in Worker, WorkerStep(w)
      PROVE  RInv'
  <2>1. CASE Finish(w)
    BY <2>1, FinishKeeps
  <2>2. CASE ~Finish(w)
    <3>1. \/ Dispatch(w) \/ GetNonce(w) \/ RpcError(w) \/ SendTransaction(w)
          \/ NonceTaken(w) \/ CallService(w) \/ CallPxe(w)
      BY <1>1, <2>2 DEF WorkerStep
    <3>2. /\ worker[w] # Idle /\ worker[w].pc # "finish"
          /\ \E r : MovesTo(w, r)
      BY <3>1, AttemptMoves DEF RInv
    <3>3. QED
      BY <3>2, MoveKeeps
  <2>3. QED
    BY <2>1, <2>2
<1>2. CASE UNCHANGED relayerVars
  <2>1. UNCHANGED <<mode, subscribed, inflight, processed, worker, now, deliveries,
                    pendingNonce, accepted, lastSuccess>>
    BY <1>2 DEF relayerVars
  <2>2. RelayerTypeOK' /\ NoncesCovered'
    BY <2>1 DEF RInv, RelayerTypeOK, NoncesCovered, Attempting
  <2>3. StoppedIsQuiet' /\ OneGoroutinePerVaa' /\ OkWasAccepted'
    BY <2>1 DEF RInv, StoppedIsQuiet, OneGoroutinePerVaa, OkWasAccepted
  <2>4. SuppressedWasAccepted' /\ EntriesRemain'
    BY <2>1 DEF RInv, SuppressedWasAccepted, EntriesRemain
  <2>5. QED
    BY <2>2, <2>3, <2>4 DEF RInv
<1>3. QED
  BY <1>1, <1>2, AcceptKeeps, DropKeeps, LoopKeeps, CrashKeeps, RestartKeeps DEF RelayerNext

\* The invariant holds throughout.
LEMMA RelayerInvariance == RelayerSpec => []RInv
BY InitRInv, NextRInv, PTL DEF RelayerSpec

-----------------------------------------------------------------------------
(* Theorems *)

\* In particular the nonces: Arbitrum never takes more transactions than there
\* were deliveries, since every attempt makes one at most.
THEOREM RelayerTypeCorrect == RelayerSpec => []RelayerTypeOK
<1>1. RInv => RelayerTypeOK
  BY DEF RInv
<1>2. QED
  BY <1>1, RelayerInvariance, PTL

\* inflightVAAs is what the goroutines work on, no two on one VAA.
THEOREM NoTwoGoroutinesPerVaa == RelayerSpec => []OneGoroutinePerVaa
<1>1. RInv => OneGoroutinePerVaa
  BY DEF RInv
<1>2. QED
  BY <1>1, RelayerInvariance, PTL

\* A delivery is suppressed only for what some chain accepted.
THEOREM SuppressionIsJustified == RelayerSpec => []SuppressedWasAccepted
<1>1. RInv => SuppressedWasAccepted
  BY DEF RInv
<1>2. QED
  BY <1>1, RelayerInvariance, PTL

\* After wg.Wait nothing is left that could send.
THEOREM StoppedRelayerIsQuiet == RelayerSpec => []StoppedIsQuiet
<1>1. RInv => StoppedIsQuiet
  BY DEF RInv
<1>2. QED
  BY <1>1, RelayerInvariance, PTL

\* The safety of the relayer, which the bridge inherits.
LEMMA RelayerSafety == RelayerInit /\ [][RelayerNext]_relayerVars => []RInv /\ NoRepeatWithinTTL
<1>1. RInv /\ [RelayerNext]_relayerVars =>
        [\A w \in Worker :
           worker[w] = Idle /\ worker'[w] # Idle =>
             LET t == lastSuccess[worker'[w].vaa] IN t = Never \/ now - t >= TTL]_relayerVars
  <2> SUFFICES ASSUME RInv, [RelayerNext]_relayerVars,
                      NEW w \in Worker, worker[w] = Idle, worker'[w] # Idle
               PROVE  \/ lastSuccess[worker'[w].vaa] = Never
                      \/ now - lastSuccess[worker'[w].vaa] >= TTL
    OBVIOUS
  <2>1. RelayerTypeOK
    BY DEF RInv
  <2>2. PICK v \in Vaa, u \in Worker : Accept(v, u)
    <3>1. ASSUME NEW u \in Worker, WorkerStep(u)
          PROVE  FALSE
      <4>1. PICK r : worker' = [worker EXCEPT ![u] = r] /\ (worker[u] # Idle \/ r = Idle)
        <5>1. CASE Finish(u)
          BY <5>1 DEF Finish, GoroutineEnds
        <5>2. CASE ~Finish(u)
          BY <2>1, <3>1, <5>2, AttemptMoves DEF WorkerStep, MovesTo
        <5>3. QED
          BY <5>1, <5>2
      <4>2. QED
        BY <2>1, <4>1 DEF RelayerTypeOK
    <3>2. ~UNCHANGED worker
      OBVIOUS
    <3>3. ~Crash
      BY DEF Crash
    <3>4. QED
      BY <3>1, <3>2, <3>3
         DEF RelayerNext, DropProcessed, DropInflight, StreamError, Resubscribe, Shutdown, Stop,
             Restart, Tick, relayerVars
  <2>3. worker' = [worker EXCEPT ![u] = [vaa |-> v, pc |-> "check", nonce |-> 0, ok |-> FALSE]]
    BY <2>2 DEF Accept
  <2>4. worker'[w].vaa = v
    BY <2>1, <2>3 DEF RelayerTypeOK
  <2>5. ~ProcessedRecently(v)
    BY <2>2 DEF Accept
  <2>6. processed[v] \in {Never} \cup Nat /\ now \in Nat /\ TTL \in Nat
    BY <2>1, MaxTimeAssumption, TTLAssumption DEF RelayerTypeOK
  <2>7. processed[v] = Never \/ now - processed[v] >= TTL
    BY <2>5, <2>6 DEF ProcessedRecently
  <2>8. QED
    BY <2>4, <2>7 DEF RInv, EntriesRemain
<1>2. QED
  BY <1>1, InitRInv, NextRInv, PTL DEF NoRepeatWithinTTL

\* Whatever is deleted and pruned, a VAA that this process completed less than
\* TTL ago is not taken on again.
THEOREM RepeatsWait == RelayerSpec => NoRepeatWithinTTL
BY RelayerSafety, PTL DEF RelayerSpec

-----------------------------------------------------------------------------
(* Progress: the safety half of ShutdownCompletes *)

\* A step of a goroutine shortens what it has left, and touches no other.
LEMMA StepShortens ==
  ASSUME RelayerTypeOK, NEW w \in Worker, WorkerStep(w)
  PROVE  /\ worker[w] # Idle
         /\ \E r : worker' = [worker EXCEPT ![w] = r] /\ Left(r) < Left(worker[w])
<1> DEFINE b == worker[w]
<1>1. b # Idle /\ b \in Busy
  BY BusyFields DEF WorkerStep, Dispatch, GetNonce, RpcError, SendTransaction, NonceTaken,
     CallService, CallPxe, Finish, At
<1>2. \A r \in Busy : r # Idle
  BY IdleAssumption
<1>3. ASSUME NEW ok \in BOOLEAN, Done(w, ok), b.pc # "finish"
      PROVE  \E r : worker' = [worker EXCEPT ![w] = r] /\ Left(r) < Left(b)
  <2> DEFINE r == [b EXCEPT !.pc = "finish", !.ok = ok]
  <2>1. r \in Busy /\ r.pc = "finish"
    BY <1>1 DEF Busy, PC
  <2>2. Left(r) = 1
    BY <1>2, <2>1 DEF Left
  <2>3. Left(b) \in {2, 3, 4}
    BY <1>1, <1>3 DEF Left, Busy, PC
  <2>4. worker' = [worker EXCEPT ![w] = r]
    BY <1>3 DEF Done
  <2>5. Left(r) < Left(b)
    BY <2>2, <2>3
  <2> HIDE DEF r, b
  <2> QED
    BY <2>4, <2>5
<1>4. ASSUME NEW pc \in PC, worker' = [worker EXCEPT ![w].pc = pc] \/
             (pc = "send" /\ worker' = [worker EXCEPT ![w].pc = "send", ![w].nonce = pendingNonce]),
             \/ b.pc = "check" /\ pc \in {"nonce", "service"}
             \/ b.pc = "nonce" /\ pc = "send"
             \/ b.pc = "service" /\ pc = "pxe"
      PROVE  \E r : worker' = [worker EXCEPT ![w] = r] /\ Left(r) < Left(b)
  <2>1. \E r : r \in Busy /\ r.pc = pc /\ worker' = [worker EXCEPT ![w] = r]
    <3>1. CASE worker' = [worker EXCEPT ![w].pc = pc]
      <4> DEFINE r == [b EXCEPT !.pc = pc]
      <4>1. r \in Busy /\ r.pc = pc /\ worker' = [worker EXCEPT ![w] = r]
        BY <1>1, <3>1 DEF Busy
      <4> HIDE DEF r
      <4> QED
        BY <4>1
    <3>2. CASE pc = "send" /\ worker' = [worker EXCEPT ![w].pc = "send", ![w].nonce = pendingNonce]
      <4> DEFINE r == [b EXCEPT !.pc = "send", !.nonce = pendingNonce]
      <4>1. r \in Busy /\ r.pc = pc /\ worker' = [worker EXCEPT ![w] = r]
        BY <1>1, <3>2 DEF Busy, RelayerTypeOK
      <4> HIDE DEF r
      <4> QED
        BY <4>1
    <3> QED
      BY <1>4, <3>1, <3>2
  <2>2. PICK r : r \in Busy /\ r.pc = pc /\ worker' = [worker EXCEPT ![w] = r]
    BY <2>1
  <2>3. Left(r) < Left(b)
    BY <1>1, <1>2, <1>4, <2>2 DEF Left
  <2> QED
    BY <2>2, <2>3
<1>5. CASE Dispatch(w)
  BY <1>3, <1>4, <1>5 DEF Dispatch, At, Goto, PC
<1>6. CASE GetNonce(w)
  BY <1>4, <1>6 DEF GetNonce, At, PC
<1>7. CASE RpcError(w) \/ SendTransaction(w) \/ NonceTaken(w) \/ CallPxe(w)
  BY <1>3, <1>7 DEF RpcError, SendTransaction, NonceTaken, CallPxe, At
<1>8. CASE CallService(w)
  BY <1>3, <1>4, <1>8 DEF CallService, At, Goto, PC
<1>9. CASE Finish(w)
  <2>1. Left(Idle) = 0 /\ Left(b) = 1
    BY <1>1, <1>9 DEF Left, Finish, At
  <2>2. worker' = [worker EXCEPT ![w] = Idle]
    BY <1>9 DEF Finish, GoroutineEnds
  <2>3. Left(Idle) < Left(b)
    BY <2>1
  <2> QED
    BY <1>1, <2>2, <2>3
<1>10. \/ Dispatch(w) \/ GetNonce(w) \/ RpcError(w) \/ SendTransaction(w) \/ NonceTaken(w)
      \/ CallService(w) \/ CallPxe(w) \/ Finish(w)
  BY DEF WorkerStep
<1> QED
  BY <1>5, <1>6, <1>7, <1>8, <1>9, <1>10

\* Every goroutine is over after four steps, and while the process stops there
\* are no new ones: the sum of what they have left bounds the wait of wg.Wait.
THEOREM ShutdownRunsOut == RelayerSpec => AttemptsRunOut
<1>1. RelayerTypeOK /\ [RelayerNext]_relayerVars =>
        [\A w \in Worker :
           worker'[w] # worker[w] =>
             IF worker[w] = Idle THEN mode = "running"
                                 ELSE Left(worker'[w]) < Left(worker[w])]_relayerVars
  <2> SUFFICES ASSUME RelayerTypeOK, [RelayerNext]_relayerVars, NEW w \in Worker, worker'[w] # worker[w]
               PROVE  IF worker[w] = Idle THEN mode = "running"
                                          ELSE Left(worker'[w]) < Left(worker[w])
    OBVIOUS
  <2>1. worker \in [Worker -> {Idle} \cup Busy]
    BY DEF RelayerTypeOK
  <2>2. ASSUME NEW u \in Worker, WorkerStep(u)
        PROVE  worker[w] # Idle /\ Left(worker'[w]) < Left(worker[w])
    BY <2>1, <2>2, StepShortens
  <2>3. ASSUME Crash, worker[w] # Idle
        PROVE  Left(worker'[w]) < Left(worker[w])
    <3>1. Left(worker'[w]) = 0
      BY <2>3 DEF Crash, Left
    <3>2. Left(worker[w]) \in {1, 2, 3, 4}
      BY <2>3, BusyFields DEF Left, PC
    <3>3. QED
      BY <3>1, <3>2
  <2>4. Crash => worker[w] # Idle
    BY DEF Crash
  <2>5. ASSUME NEW v \in Vaa, NEW u \in Worker, Accept(v, u)
        PROVE  worker[w] = Idle /\ mode = "running"
    BY <2>1, <2>5 DEF Accept, Receive
  <2>6. QED
    BY <2>2, <2>3, <2>4, <2>5
       DEF RelayerNext, DropProcessed, DropInflight, StreamError, Resubscribe, Shutdown, Stop,
           Restart, Tick, relayerVars
<1>2. QED
  BY <1>1, RelayerTypeCorrect, PTL DEF RelayerSpec, AttemptsRunOut
=============================================================================
