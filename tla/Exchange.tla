------------------------------ MODULE Exchange ------------------------------
(***************************************************************************)
(* exchangeSharedStateViaWebRTC: the process of `create-multisig` starts a *)
(* signaling server (signaling-server.ts), a client for the creator and    *)
(* one for each recipient (webrtc-client.ts), all in this one process,     *)
(* connects the creator's client to every other by WebRTC and sends the    *)
(* shared account over the data channels (webrtc-signaling.ts).            *)
(*                                                                         *)
(* The clients talk to the server over sockets: FIFO in either direction.  *)
(* "ready", which the server sends to the room at a join, is ignored by     *)
(* every client and left out.  Timers are not tied to what they wait for:   *)
(* any may fire at any time.                                               *)
(*                                                                         *)
(* Of the WebRTC library (external) is assumed what the JSEP standard says: *)
(* a side finds candidates once its local description is set, after the    *)
(* promise has resolved; a channel can open when both sides have both      *)
(* descriptions and one of them knows a candidate of the other.  Its       *)
(* promises may reject and a channel may be lost.                          *)
(***************************************************************************)
EXTENDS Integers, Sequences

CONSTANT N   \* recipientSigners.length

\* createMultisig does not call it without recipients.
ASSUME NAssumption == N \in Nat \ {0}

Creator   == 0
Recipient == 1..N         \* the place in recipientSigners
Name      == 0..N

Message == [type : {"join", "offer", "answer", "ice-candidate"}, from : Name, to : Name]

Msg(type, from, to) == [type |-> type, from |-> from, to |-> to]

Over    == {"succeeded", "failed", "crashed"}
Running == {"first wait", "second wait", "offering", "waiting", "sending", "sent"}

VARIABLES
  pc,        \* where exchangeSharedStateViaWebRTC is
  next,      \* the recipient its loop is at
  port,      \* 8081: "free", "ours" or "taken" by another process
  socket,    \* ws, per client: "none", "connecting", "open", "closed"
  clients,   \* the server's map of the same name
  toServer, toClient,   \* what is in flight on the sockets
  offerer,   \* the creator's connection to a recipient
  answerer,  \* the recipient's connection to the creator
  found,     \* the candidates found: <<from, to>>
  known,     \* the candidates added to the other side's connection: <<from, to>>
  channel,   \* the creator's data channel to a recipient
  sent       \* the recipients whose channel took the data

vars == <<pc, next, port, socket, clients, toServer, toClient,
          offerer, answerer, found, known, channel, sent>>
loopVars   == <<pc, next, port, sent>>
serverVars == <<clients, toServer, toClient>>
peerVars   == <<offerer, answerer, found, known, channel>>

Pairs == {<<Creator, r>> : r \in Recipient} \cup {<<r, Creator>> : r \in Recipient}

TypeOK ==
  /\ pc \in {"start"} \cup Running \cup Over
  /\ next \in Recipient
  /\ port \in {"free", "ours", "taken"}
  /\ socket \in [Name -> {"none", "connecting", "open", "closed"}]
  /\ clients \subseteq Name
  /\ toServer \in [Name -> Seq(Message)]
  /\ toClient \in [Name -> Seq(Message)]
  /\ offerer \in [Recipient -> {"none", "offered", "stable", "closed"}]
  /\ answerer \in [Recipient -> {"none", "answering", "stable", "closed", "aborted"}]
  /\ found \subseteq Pairs
  /\ known \subseteq Pairs
  /\ channel \in [Recipient -> {"none", "connecting", "open", "closed"}]
  /\ sent \subseteq Recipient

Init ==
  /\ pc = "start"
  /\ next = 1
  /\ port \in {"free", "taken"}
  /\ socket = [n \in Name |-> "none"]
  /\ clients = {}
  /\ toServer = [n \in Name |-> <<>>]
  /\ toClient = [n \in Name |-> <<>>]
  /\ offerer = [r \in Recipient |-> "none"]
  /\ answerer = [r \in Recipient |-> "none"]
  /\ found = {}
  /\ known = {}
  /\ channel = [r \in Recipient |-> "none"]
  /\ sent = {}

-----------------------------------------------------------------------------
(* WebRTCClient.send and the sockets *)

\* Dropped unless the socket is open.
Send(n, m) ==
  toServer' = IF socket[n] = "open" THEN [toServer EXCEPT ![n] = Append(@, m)] ELSE toServer

SocketOpens(n) ==
  /\ pc \in Running
  /\ socket[n] = "connecting"
  /\ socket' = [socket EXCEPT ![n] = "open"]
  /\ toServer' = [toServer EXCEPT ![n] = Append(@, Msg("join", n, n))]
  /\ UNCHANGED <<loopVars, clients, toClient, peerVars>>

\* "WebSocket error", "Disconnected from signaling server": nothing is retried,
\* and the server forgets the name.
SocketLost(n) ==
  /\ pc \in Running
  /\ socket[n] \in {"connecting", "open"}
  /\ socket' = [socket EXCEPT ![n] = "closed"]
  /\ clients' = clients \ {n}
  /\ toServer' = [toServer EXCEPT ![n] = <<>>]
  /\ toClient' = [toClient EXCEPT ![n] = <<>>]
  /\ UNCHANGED <<loopVars, peerVars>>

-----------------------------------------------------------------------------
(* SignalingServer *)

FromClient(n, types) == toServer[n] # <<>> /\ Head(toServer[n]).type \in types

ServeJoin(n) ==
  /\ FromClient(n, {"join"})
  /\ clients' = clients \cup {n}
  /\ toServer' = [toServer EXCEPT ![n] = Tail(@)]
  /\ UNCHANGED <<loopVars, socket, toClient, peerVars>>

Overtaking(m) == [toClient EXCEPT ![m.to] = <<m>> \o @]   \* (mutant)
PassedOn(m)   == [toClient EXCEPT ![m.to] = Append(@, m)]

\* Passed on to a client that has joined; dropped, and nobody told, if not.
Forward(n) ==
  /\ FromClient(n, {"offer", "answer", "ice-candidate"})
  /\ LET m == Head(toServer[n]) IN
       toClient' = IF m.to \in clients THEN PassedOn(m) ELSE toClient
  /\ toServer' = [toServer EXCEPT ![n] = Tail(@)]
  /\ UNCHANGED <<loopVars, socket, clients, peerVars>>

-----------------------------------------------------------------------------
(* The clients' handlers: each runs up to its first await in one step *)

FromServer(n, type) == toClient[n] # <<>> /\ Head(toClient[n]).type = type

Receive(n) == toClient' = [toClient EXCEPT ![n] = Tail(@)]

\* handleOffer: the connection is on record before the first await.

HandleOffer(r) ==
  /\ FromServer(r, "offer")
  /\ Receive(r)
  /\ answerer' = [answerer EXCEPT ![r] = "answering"]
  /\ UNCHANGED <<loopVars, socket, clients, toServer, offerer, found, known, channel>>

\* handleOffer, after its awaits; a client that was closed before it began
\* drops the answer, and keeps the connection.
SendAnswer(r) ==
  /\ pc # "crashed"
  /\ answerer[r] = "answering"
  /\ answerer' = [answerer EXCEPT ![r] = "stable"]
  /\ Send(r, Msg("answer", r, Creator))
  /\ UNCHANGED <<loopVars, socket, clients, toClient, offerer, found, known, channel>>

\* handleAnswer: dropped without a connection.
HandleAnswer ==
  /\ FromServer(Creator, "answer")
  /\ LET r == Head(toClient[Creator]).from IN
       offerer' = IF offerer[r] = "offered" THEN [offerer EXCEPT ![r] = "stable"] ELSE offerer
  /\ Receive(Creator)
  /\ UNCHANGED <<loopVars, socket, clients, toServer, answerer, found, known, channel>>

HasPeer(n, from) == IF n = Creator THEN offerer[from] \in {"offered", "stable"}
                                   ELSE answerer[n] \in {"answering", "stable"}

\* handleIceCandidate: dropped without a connection.
HandleIceCandidate(n) ==
  /\ FromServer(n, "ice-candidate")
  /\ LET from == Head(toClient[n]).from IN
       known' = IF HasPeer(n, from) THEN known \cup {<<from, n>>} ELSE known
  /\ Receive(n)
  /\ UNCHANGED <<loopVars, socket, clients, toServer, offerer, answerer, found, channel>>

\* onicecandidate, once per side in this model.
Find(from, to) ==
  /\ pc \in Running
  /\ <<from, to>> \notin found
  /\ found' = found \cup {<<from, to>>}
  /\ Send(from, Msg("ice-candidate", from, to))
  /\ UNCHANGED <<loopVars, socket, clients, toClient, offerer, answerer, known, channel>>

OffererFinds(r)  == offerer[r] \in {"offered", "stable"} /\ Find(Creator, r)
AnswererFinds(r) == answerer[r] = "stable" /\ Find(r, Creator)

\* The process is gone with all that was in flight in it.
CrashProcess ==
  /\ pc' = "crashed"
  /\ toServer' = [n \in Name |-> <<>>]
  /\ toClient' = [n \in Name |-> <<>>]
  /\ UNCHANGED <<next, port, sent, socket, clients, peerVars>>

\* handleSignalingMessage is not awaited, so what handleOffer and handleAnswer
\* throw is an unhandled rejection: a description the library refuses, or a
\* connection closed under the handler.
HandlerRejects ==
  /\ pc # "crashed"
  /\ \/ \E r \in Recipient : answerer[r] \in {"answering", "aborted"}
     \/ FromServer(Creator, "answer") /\ offerer[Head(toClient[Creator]).from] = "offered"
  /\ CrashProcess

-----------------------------------------------------------------------------
(* exchangeSharedStateViaWebRTC *)

LeftAsItIs(a) == a   \* (mutant: only the creator's client is closed)

ClosedAnswerer(a) == CASE a = "answering" -> "aborted"
                       [] a = "stable" -> "closed"
                       [] OTHER -> a

\* The finally block: every client's close, then stopSignalingServer.  Messages
\* on their way to a client still reach it; those on their way to the server
\* find no client.
Finish(outcome) ==
  /\ pc' = outcome
  /\ port' = "free"
  /\ socket' = [n \in Name |-> IF socket[n] = "open" THEN "closed" ELSE socket[n]]
  /\ clients' = {}
  /\ toServer' = [n \in Name |-> <<>>]
  /\ offerer' = [r \in Recipient |-> IF offerer[r] = "none" THEN "none" ELSE "closed"]
  /\ answerer' = [r \in Recipient |-> ClosedAnswerer(answerer[r])]
  /\ channel' = [r \in Recipient |-> IF channel[r] = "none" THEN "none" ELSE "closed"]
  /\ UNCHANGED <<next, sent, toClient, found, known>>

StartServer ==
  /\ pc = "start"
  /\ port = "free"
  /\ pc' = "first wait"
  /\ port' = "ours"
  /\ socket' = [socket EXCEPT ![Creator] = "connecting"]
  /\ UNCHANGED <<next, sent, serverVars, peerVars>>

\* EADDRINUSE: an "error" event of the WebSocketServer that nothing listens to.
PortTaken ==
  /\ pc = "start"
  /\ port = "taken"
  /\ CrashProcess

\* The second of waiting is over: the recipients' clients.
FirstWaitOver ==
  /\ pc = "first wait"
  /\ pc' = "second wait"
  /\ socket' = [n \in Name |-> IF n \in Recipient THEN "connecting" ELSE socket[n]]
  /\ UNCHANGED <<next, port, sent, serverVars, peerVars>>

SecondWaitOver ==
  /\ pc = "second wait"
  /\ pc' = "offering"
  /\ UNCHANGED <<next, port, sent, socket, serverVars, peerVars>>

\* (for the mutant: a counter that is not advanced)
LoopStays(after) ==
  IF next = N THEN pc' = after /\ next' = 1 ELSE UNCHANGED <<pc, next>>

\* A loop over the recipients, and where it goes from the last.
LoopTo(after) ==
  IF next = N THEN pc' = after /\ next' = 1 ELSE next' = next + 1 /\ UNCHANGED pc

NextOne == next + 1   \* (for the mutant: the wrong recipient)
Target  == next

CreateOffer ==
  /\ pc = "offering"
  /\ offerer' = [offerer EXCEPT ![next] = "offered"]
  /\ channel' = [channel EXCEPT ![next] = "connecting"]
  /\ Send(Creator, Msg("offer", Creator, Target))
  /\ LoopTo("waiting")
  /\ UNCHANGED <<port, sent, socket, clients, toClient, answerer, found, known>>

CreateOfferFails == pc = "offering" /\ Finish("failed")

\* waitForDataChannel finds the channel open.
AlreadyOpen ==
  /\ pc = "waiting"
  /\ channel[next] = "open"
  /\ LoopTo("sending")
  /\ UNCHANGED <<port, sent, socket, serverVars, peerVars>>

\* Its 30 s are over, or the channel has an error.
OnlyConnecting(r) == channel[r] = "connecting"   \* (mutant: no timer for a closed channel)
NotOpen(r)        == channel[r] # "open"

WaitFails == pc = "waiting" /\ NotOpen(next) /\ Finish("failed")

\* sendSharedState of every recipient: a channel that is open takes the data, one
\* that was lost rejects.
SendSharedState ==
  /\ pc = "sending"
  /\ pc' = "sent"
  /\ sent' = {r \in Recipient : channel[r] = "open"}
  /\ UNCHANGED <<next, port, socket, serverVars, peerVars>>

AnySent == sent # {}         \* (mutant: Promise.any)
AllSent == sent = Recipient  \* Promise.all

SendResolves == pc = "sent" /\ AllSent /\ Finish("succeeded")
SendRejects  == pc = "sent" /\ ~AllSent /\ Finish("failed")

LoopStep ==
  \/ StartServer \/ PortTaken
  \/ FirstWaitOver \/ SecondWaitOver
  \/ CreateOffer \/ CreateOfferFails
  \/ AlreadyOpen \/ WaitFails
  \/ SendSharedState \/ SendResolves \/ SendRejects

\* External: the two connections find each other.  onopen goes on with the loop
\* if it waits for this channel.
OpenChannel(r) ==
  /\ pc \in Running
  /\ channel[r] = "connecting"
  /\ offerer[r] = "stable"
  /\ answerer[r] = "stable"
  /\ <<Creator, r>> \in known \/ <<r, Creator>> \in known
  /\ channel' = [channel EXCEPT ![r] = "open"]
  /\ IF pc = "waiting" /\ next = r THEN LoopTo("sending") ELSE UNCHANGED <<pc, next>>
  /\ UNCHANGED <<port, sent, socket, serverVars, offerer, answerer, found, known>>

LoseChannel(r) ==
  /\ pc \in Running
  /\ channel[r] \in {"connecting", "open"}
  /\ channel' = [channel EXCEPT ![r] = "closed"]
  /\ UNCHANGED <<loopVars, socket, serverVars, offerer, answerer, found, known>>

Next ==
  \/ LoopStep
  \/ \E n \in Name : SocketOpens(n) \/ SocketLost(n) \/ ServeJoin(n) \/ Forward(n)
  \/ \E n \in Name : HandleIceCandidate(n)
  \/ \E r \in Recipient : HandleOffer(r) \/ SendAnswer(r)
  \/ HandleAnswer
  \/ \E r \in Recipient : OffererFinds(r) \/ AnswererFinds(r)
  \/ \E r \in Recipient : OpenChannel(r) \/ LoseChannel(r)
  \/ HandlerRejects

\* The loop's timers fire and the promises it awaits settle; nothing is assumed
\* of the sockets, the server or the channels.
Spec == Init /\ [][Next]_vars /\ WF_vars(LoopStep)

-----------------------------------------------------------------------------
(* Properties *)

Outcome == CASE pc = "succeeded" -> "succeeded"
             [] pc \in {"failed", "crashed"} -> "failed"
             [] OTHER -> "running"

Promise == INSTANCE SharedStateExchange WITH outcome <- Outcome, handed <- sent

\* createMultisig sees what it relies on, whatever the sockets, the server and
\* the library do: the call returns only when every recipient's channel took the
\* keys, a failed call hands out nothing more, and no handler still at work
\* brings the process down after the call has returned.
ImplementsPromise == Promise!Spec

InFlight(m) ==
  \E n \in Name : \/ \E i \in DOMAIN toServer[n] : toServer[n][i] = m
                  \/ \E i \in DOMAIN toClient[n] : toClient[n][i] = m

OfferLost(r) ==
  /\ offerer[r] # "none"
  /\ answerer[r] = "none"
  /\ ~InFlight(Msg("offer", Creator, r))

\* While the exchange runs, an answer always finds its connection and a candidate
\* finds one unless the offer itself was lost: the offer is sent first, nothing
\* overtakes it on its way through the server, and the connection is on record
\* before either handler awaits.
FindsItsPeer ==
  pc \in Running =>
    /\ FromServer(Creator, "answer") => HasPeer(Creator, Head(toClient[Creator]).from)
    /\ \A n \in Name : FromServer(n, "ice-candidate") =>
         HasPeer(n, Head(toClient[n]).from) \/ (n # Creator /\ OfferLost(n))

\* When the exchange has returned nothing of it is left: all connections and
\* channels are closed for good, no handler is at work, and no offer is still on
\* its way to a client, which would open a connection that nobody closes (as it
\* does after a failure).
NothingLeftAfterSuccess ==
  pc = "succeeded" =>
    \A r \in Recipient :
      /\ offerer[r] = "closed" /\ answerer[r] = "closed" /\ channel[r] = "closed"
      /\ ~InFlight(Msg("offer", Creator, r))

\* The steps that the loop has left at most.
StepsLeft == CASE pc = "start"       -> 2 * N + 5
               [] pc = "first wait"  -> 2 * N + 4
               [] pc = "second wait" -> 2 * N + 3
               [] pc = "offering"    -> 2 * N + 3 - next
               [] pc = "waiting"     -> N + 3 - next
               [] pc = "sending"     -> 2
               [] pc = "sent"        -> 1
               [] OTHER              -> 0

\* However channels come and go, the loop waits for no recipient twice: it is
\* over after 2N + 5 steps, and nothing that happens to it sets it back.
LoopAdvances ==
  [][StepsLeft' <= StepsLeft /\ (LoopStep => StepsLeft' < StepsLeft)]_vars

\* The exchange ends, one way or the other, so that createMultisig does too.
ExchangeEnds == <>(pc \in Over)
=============================================================================
