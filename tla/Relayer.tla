------------------------------ MODULE Relayer ------------------------------
(***************************************************************************)
(* relayer/relayer.go: a process that receives signed VAAs from the        *)
(* Wormhole spy, which delivers each at least once, and hands each to a    *)
(* goroutine of its own that submits it: to the vault on Arbitrum in a     *)
(* transaction with the account's pending nonce, to Aztec through the      *)
(* verification service or, when that fails, through the PXE.  What is in  *)
(* flight and what was processed is remembered in memory, the latter for   *)
(* TTL, so that a second delivery is dropped.                              *)
(*                                                                         *)
(* Time is counted in ticks.  A goroutine's remote calls may fail, and may *)
(* time out after the other side has done its part.                        *)
(***************************************************************************)
EXTENDS Integers, FiniteSets

CONSTANTS
  Vaa,            \* encodings of VAAs: the key is a hash of the bytes
  Route,          \* Vaa -> "arbitrum" | "aztec" | "other", by emitter chain, or
                  \* "unparsable": bytes that are no VAA
  Worker,         \* bound: the goroutines there can be at a time
  Idle,           \* no goroutine
  TTL,            \* dedupeTTL
  MaxTime,        \* bound: the last tick
  MaxDeliveries   \* bound: how many deliveries the spy makes in all

PC == {"check", "nonce", "send", "service", "pxe", "finish"}
Busy == [vaa : Vaa, pc : PC, nonce : 0..MaxDeliveries, ok : BOOLEAN]

ASSUME IdleAssumption    == Idle \notin Busy
ASSUME WorkerAssumption  == IsFiniteSet(Worker)
ASSUME RouteAssumption   == Route \in [Vaa -> {"arbitrum", "aztec", "other", "unparsable"}]
ASSUME TTLAssumption     == TTL \in Nat \ {0}
ASSUME MaxTimeAssumption == MaxTime \in Nat
ASSUME MaxDeliveriesAssumption == MaxDeliveries \in Nat

Never == -1   \* no entry in processedVAAs

VARIABLES
  mode,        \* of the process: "running", "stopping" (wg.Wait), "stopped"
  subscribed,  \* whether the spy stream is open
  inflight,    \* inflightVAAs
  processed,   \* processedVAAs: the completion time or Never
  worker,      \* the goroutines
  now,         \* the clock
  deliveries,  \* deliveries so far
  pendingNonce,  \* PendingNonceAt: the transactions Arbitrum accepted so far
  accepted,    \* per VAA, how many transactions for it some chain accepted: 0, 1, 2 for more
  lastSuccess  \* history: when this process last completed the VAA

relayerVars == <<mode, subscribed, inflight, processed, worker, now, deliveries,
                 pendingNonce, accepted, lastSuccess>>
dedupeVars == <<inflight, processed, lastSuccess>>
chainVars  == <<pendingNonce, accepted>>
loopVars   == <<mode, subscribed, deliveries>>

RelayerTypeOK ==
  /\ mode \in {"running", "stopping", "stopped"}
  /\ subscribed \in BOOLEAN
  /\ inflight \subseteq Vaa
  /\ processed \in [Vaa -> {Never} \cup 0..MaxTime]
  /\ worker \in [Worker -> {Idle} \cup Busy]
  /\ now \in 0..MaxTime
  /\ deliveries \in 0..MaxDeliveries
  /\ pendingNonce \in 0..MaxDeliveries
  /\ accepted \in [Vaa -> 0..2]
  /\ lastSuccess \in [Vaa -> {Never} \cup 0..MaxTime]

RelayerInit ==
  /\ mode = "running"
  /\ subscribed = TRUE
  /\ inflight = {}
  /\ processed = [v \in Vaa |-> Never]
  /\ worker = [w \in Worker |-> Idle]
  /\ now = 0
  /\ deliveries = 0
  /\ pendingNonce = 0
  /\ accepted = [v \in Vaa |-> 0]
  /\ lastSuccess = [v \in Vaa |-> Never]

-----------------------------------------------------------------------------
(* The receive loop *)

\* beginProcessingVAA, "already processed this VAA recently".
ProcessedRecently(v) == processed[v] # Never /\ now - processed[v] < TTL

Receive == mode = "running" /\ subscribed /\ deliveries < MaxDeliveries

DropProcessed(v) ==
  /\ Receive
  /\ ProcessedRecently(v)
  /\ deliveries' = deliveries + 1
  /\ UNCHANGED <<mode, subscribed, dedupeVars, worker, now, chainVars>>

InflightUnchecked(v) == FALSE /\ v \in Vaa   \* (mutant)
InFlight(v)          == v \in inflight

\* "Another goroutine is already working on this VAA": only the expired entry
\* is deleted.
DropInflight(v) ==
  /\ Receive
  /\ ~ProcessedRecently(v)
  /\ InFlight(v)
  /\ deliveries' = deliveries + 1
  /\ processed' = [processed EXCEPT ![v] = Never]
  /\ UNCHANGED <<mode, subscribed, inflight, lastSuccess, worker, now, chainVars>>

Accept(v, w) ==
  /\ Receive
  /\ ~ProcessedRecently(v)
  /\ ~InFlight(v)
  /\ worker[w] = Idle
  /\ deliveries' = deliveries + 1
  /\ processed' = [processed EXCEPT ![v] = Never]
  /\ inflight' = inflight \cup {v}
  /\ worker' = [worker EXCEPT ![w] = [vaa |-> v, pc |-> "check", nonce |-> 0, ok |-> FALSE]]
  /\ UNCHANGED <<mode, subscribed, lastSuccess, now, chainVars>>

\* Recv fails; what the spy sends before the next subscription is not received.
StreamError ==
  /\ mode = "running"
  /\ subscribed
  /\ subscribed' = FALSE
  /\ UNCHANGED <<mode, deliveries, dedupeVars, worker, now, chainVars>>

Resubscribe ==
  /\ mode = "running"
  /\ ~subscribed
  /\ subscribed' = TRUE
  /\ UNCHANGED <<mode, deliveries, dedupeVars, worker, now, chainVars>>

\* A signal, or a subscription that fails after all its attempts: processing is
\* cancelled and the goroutines are waited for.
Shutdown ==
  /\ mode = "running"
  /\ mode' = "stopping"
  /\ UNCHANGED <<subscribed, deliveries, dedupeVars, worker, now, chainVars>>

NoWait            == mode = "stopping"   \* (mutant)
AllGoroutinesDone == \A w \in Worker : worker[w] = Idle

Stop ==
  /\ mode = "stopping"
  /\ AllGoroutinesDone
  /\ mode' = "stopped"
  /\ UNCHANGED <<subscribed, deliveries, dedupeVars, worker, now, chainVars>>

\* The process dies: its goroutines and its memory are gone.
Crash ==
  /\ mode # "stopped"
  /\ mode' = "stopped"
  /\ worker' = [w \in Worker |-> Idle]
  /\ UNCHANGED <<subscribed, deliveries, dedupeVars, now, chainVars>>

\* NewRelayer and Start: empty maps, a fresh subscription.
Restart ==
  /\ mode = "stopped"
  /\ mode' = "running"
  /\ subscribed' = TRUE
  /\ inflight' = {}
  /\ processed' = [v \in Vaa |-> Never]
  /\ lastSuccess' = [v \in Vaa |-> Never]
  /\ UNCHANGED <<deliveries, worker, now, chainVars>>

-----------------------------------------------------------------------------
(* A goroutine: processVAA, defaultVAAProcessor, finishProcessingVAA *)

At(w, pc) == worker[w] # Idle /\ worker[w].pc = pc

Goto(w, pc) == worker' = [worker EXCEPT ![w].pc = pc]

\* (for the mutant: a failed attempt starts over at once)
RetryAtOnce(w, ok) ==
  worker' = [worker EXCEPT ![w].pc = IF ok THEN "finish" ELSE "nonce", ![w].ok = ok]

Done(w, ok) == worker' = [worker EXCEPT ![w].pc = "finish", ![w].ok = ok]

\* Some chain takes a transaction for v.
Submitted(v) == accepted' = [accepted EXCEPT ![v] = IF @ = 0 THEN 1 ELSE 2]

\* ctx.Done of the processing context is looked at here and nowhere else.
Dispatch(w) ==
  /\ At(w, "check")
  /\ \/ mode = "stopping" /\ Done(w, FALSE)
     \/ mode = "running" /\ Route[worker[w].vaa] = "unparsable" /\ Done(w, FALSE)
     \/ mode = "running" /\ Route[worker[w].vaa] = "other" /\ Done(w, TRUE)
     \/ mode = "running" /\ Route[worker[w].vaa] = "arbitrum" /\ Goto(w, "nonce")
     \/ mode = "running" /\ Route[worker[w].vaa] = "aztec" /\ Goto(w, "service")
  /\ UNCHANGED <<loopVars, dedupeVars, now, chainVars>>

GetNonce(w) ==
  /\ At(w, "nonce")
  /\ worker' = [worker EXCEPT ![w].pc = "send", ![w].nonce = pendingNonce]
  /\ UNCHANGED <<loopVars, dedupeVars, now, chainVars>>

\* An RPC of the goroutine fails, or the 60 s are over, before anything is sent.
RpcError(w) ==
  /\ At(w, "nonce") \/ At(w, "send") \/ At(w, "pxe")
  /\ Done(w, FALSE)
  /\ UNCHANGED <<loopVars, dedupeVars, now, chainVars>>

\* The node takes the transaction if its nonce is still the next one; the
\* answer may come too late for the goroutine.
SendTransaction(w) ==
  /\ At(w, "send")
  /\ worker[w].nonce = pendingNonce
  /\ pendingNonce' = pendingNonce + 1
  /\ Submitted(worker[w].vaa)
  /\ \E inTime \in BOOLEAN : Done(w, inTime)
  /\ UNCHANGED <<loopVars, dedupeVars, now>>

\* (for the mutant: "nonce too low" taken for a transaction that is known already)
NonceTakenIsSent(w) ==
  /\ At(w, "send")
  /\ worker[w].nonce # pendingNonce
  /\ Done(w, TRUE)
  /\ UNCHANGED <<loopVars, dedupeVars, now, chainVars>>

\* Another goroutine read the same pending nonce and was first.
NonceTaken(w) ==
  /\ At(w, "send")
  /\ worker[w].nonce # pendingNonce
  /\ Done(w, FALSE)
  /\ UNCHANGED <<loopVars, dedupeVars, now, chainVars>>

\* POST /verify: the service sends verify_vaa and waits for it to be mined.  An
\* error leads to the PXE, whether or not the transaction was sent; when the
\* context has expired the PXE is not reached.
CallService(w) ==
  /\ At(w, "service")
  /\ \E sent \in BOOLEAN, answer \in {"success", "error", "timeout"} :
       /\ answer = "success" => sent
       /\ IF sent THEN Submitted(worker[w].vaa) ELSE UNCHANGED accepted
       /\ \/ answer = "success" /\ Done(w, TRUE)
          \/ answer = "error" /\ Goto(w, "pxe")
          \/ answer = "timeout" /\ Done(w, FALSE)
  /\ UNCHANGED <<loopVars, dedupeVars, now, pendingNonce>>

\* pxe_sendTransaction, sent; the answer may come too late.
CallPxe(w) ==
  /\ At(w, "pxe")
  /\ Submitted(worker[w].vaa)
  /\ \E inTime \in BOOLEAN : Done(w, inTime)
  /\ UNCHANGED <<loopVars, dedupeVars, now, pendingNonce>>

\* Entries older than the cutoff are pruned.
OlderThanNow(t)    == t # Never /\ t < now   \* (mutant: the TTL forgotten)
OlderThanCutoff(t) == t # Never /\ t < now - TTL

SuccessAssumed(w) == worker[w].pc = "finish"   \* (mutant)
Succeeded(w)      == worker[w].ok

\* (for the mutant: wg.Done missed on the error path)
EndsOnSuccess(w) == worker' = IF worker[w].ok THEN [worker EXCEPT ![w] = Idle] ELSE worker

GoroutineEnds(w) == worker' = [worker EXCEPT ![w] = Idle]

Finish(w) ==
  /\ At(w, "finish")
  /\ LET v    == worker[w].vaa
         done == IF Succeeded(w) THEN [processed EXCEPT ![v] = now] ELSE processed
     IN  /\ inflight' = inflight \ {v}
         /\ processed' = [u \in Vaa |-> IF OlderThanCutoff(done[u]) THEN Never ELSE done[u]]
         /\ lastSuccess' = IF Succeeded(w) THEN [lastSuccess EXCEPT ![v] = now]
                                           ELSE lastSuccess
  /\ GoroutineEnds(w)
  /\ UNCHANGED <<loopVars, now, chainVars>>

WorkerStep(w) ==
  \/ Dispatch(w) \/ GetNonce(w) \/ RpcError(w) \/ SendTransaction(w)
  \/ NonceTaken(w) \/ CallService(w) \/ CallPxe(w) \/ Finish(w)

Tick ==
  /\ now < MaxTime
  /\ now' = now + 1
  /\ UNCHANGED <<loopVars, dedupeVars, worker, chainVars>>

RelayerNext ==
  \/ \E v \in Vaa : DropProcessed(v) \/ DropInflight(v)
  \/ \E v \in Vaa, w \in Worker : Accept(v, w)
  \/ \E w \in Worker : WorkerStep(w)
  \/ StreamError \/ Resubscribe
  \/ Shutdown \/ Stop \/ Crash \/ Restart
  \/ Tick

\* A goroutine's calls all end, at the latest when its context expires; nothing
\* is assumed of the spy, of the clock, or of signals.
Fairness == (\A w \in Worker : WF_relayerVars(WorkerStep(w))) /\ WF_relayerVars(Stop)

RelayerSpec == RelayerInit /\ [][RelayerNext]_relayerVars /\ Fairness

-----------------------------------------------------------------------------
(* Properties *)

\* While the process runs, inflightVAAs is exactly what the goroutines work on,
\* and no two work on one VAA.
OneGoroutinePerVaa ==
  mode # "stopped" =>
    /\ inflight = {worker[w].vaa : w \in {u \in Worker : worker[u] # Idle}}
    /\ \A w, u \in Worker :
         worker[w] # Idle /\ worker[u] # Idle /\ worker[w].vaa = worker[u].vaa => w = u

\* No goroutine starts on a VAA that this process completed less than TTL ago,
\* however entries were deleted and pruned in between.
NoRepeatWithinTTL ==
  [][\A w \in Worker :
       worker[w] = Idle /\ worker'[w] # Idle =>
         LET t == lastSuccess[worker'[w].vaa] IN t = Never \/ now - t >= TTL]_relayerVars

\* The calls and steps that a goroutine has left at most.
Left(b) == IF b = Idle THEN 0
           ELSE CASE b.pc = "check" -> 4
                  [] b.pc \in {"nonce", "service"} -> 3
                  [] b.pc \in {"send", "pxe"} -> 2
                  [] b.pc = "finish" -> 1

\* wg.Wait has an end to wait for: nothing makes a goroutine do a step over, each
\* brings it nearer to wg.Done, and once the process stops no other starts.
AttemptsRunOut ==
  [][\A w \in Worker :
       worker'[w] # worker[w] =>
         IF worker[w] = Idle THEN mode = "running" ELSE Left(worker'[w]) < Left(worker[w])]_relayerVars

\* Deliveries are suppressed as already processed only for a VAA that a chain
\* has accepted, or that is not for either chain.
SuppressedWasAccepted ==
  \A v \in Vaa : processed[v] # Never /\ Route[v] # "other" => accepted[v] > 0

\* When Start has returned, no goroutine is left that could still send.
StoppedIsQuiet == mode = "stopped" => \A w \in Worker : worker[w] = Idle

\* Shutting down ends: every goroutine that wg.Wait waits for finishes.
ShutdownCompletes == mode = "stopping" ~> mode = "stopped"
=============================================================================
