--------------------------- MODULE Exchange_proofs ---------------------------
(* Proofs about the exchange, for any number of recipients.                  *)
EXTENDS Exchange, SequenceTheorems, TLAPS

-----------------------------------------------------------------------------
(* The inductive invariant *)

Offer(r) == Msg("offer", Creator, r)

\* What a client may send, and what it may be passed on.
Outgoing(n) ==
  {Msg("join", n, n)} \cup
  (IF n = Creator THEN {Msg(t, Creator, r) : t \in {"offer", "ice-candidate"}, r \in Recipient}
                  ELSE {Msg(t, n, Creator) : t \in {"answer", "ice-candidate"}})
Incoming(n) ==
  IF n = Creator THEN {Msg(t, r, Creator) : t \in {"answer", "ice-candidate"}, r \in Recipient}
                 ELSE {Msg(t, Creator, n) : t \in {"offer", "ice-candidate"}}

\* Messages pass between the creator and a recipient only, each to the one it names.
MessagesGoTheirWay ==
  \A n \in Name : toServer[n] \in Seq(Outgoing(n)) /\ toClient[n] \in Seq(Incoming(n))

NoOfferIn(q, r)        == \A i \in DOMAIN q : q[i] # Offer(r)
AtMostOneOfferIn(q, r) == \A i, j \in DOMAIN q : q[i] = Offer(r) /\ q[j] = Offer(r) => i = j

\* A recipient is sent one offer, which is under way before it answers and never after.
OneOffer(r) ==
  /\ AtMostOneOfferIn(toServer[Creator], r)
  /\ AtMostOneOfferIn(toClient[r], r)
  /\ NoOfferIn(toServer[Creator], r) \/ NoOfferIn(toClient[r], r)
  /\ offerer[r] = "none" => answerer[r] = "none"
  /\ offerer[r] = "none" \/ answerer[r] # "none" =>
       NoOfferIn(toServer[Creator], r) /\ NoOfferIn(toClient[r], r)

\* The loop of createOffer has not come to these recipients.
NotYetOffered ==
  /\ pc \in {"start", "first wait", "second wait"} =>
       next = 1 /\ \A r \in Recipient : offerer[r] = "none"
  /\ pc = "offering" => \A r \in Recipient : r >= next => offerer[r] = "none"

Stable(r) == offerer[r] = "stable" /\ answerer[r] = "stable"
Closed(r) == offerer[r] = "closed" /\ answerer[r] = "closed" /\ channel[r] = "closed"

Channels ==
  \A r \in Recipient : /\ offerer[r] # "none" => channel[r] # "none"
                       /\ channel[r] = "open" => Stable(r)

\* What is sent went through connections that stand until all is closed.
SentIsStable ==
  /\ pc \notin {"sent"} \cup Over => sent = {}
  /\ pc = "sent" => \A r \in sent : Stable(r) /\ channel[r] # "none"
  /\ pc = "succeeded" => sent = Recipient /\ \A r \in Recipient : Closed(r)

ExchangeInv ==
  /\ TypeOK
  /\ MessagesGoTheirWay
  /\ \A r \in Recipient : OneOffer(r)
  /\ NotYetOffered
  /\ Channels
  /\ SentIsStable

-----------------------------------------------------------------------------
(* Queues *)

LEMMA NamesOfPeers ==
  /\ Creator \in Name /\ Recipient \subseteq Name /\ Creator \notin Recipient
  /\ Name = Recipient \cup {Creator}
BY NAssumption DEF Creator, Recipient, Name

LEMMA MessageFields ==
  /\ \A r, q \in Recipient : Offer(r) = Offer(q) => r = q
  /\ \A m \in Message : m.type \in {"join", "offer", "answer", "ice-candidate"}
                        /\ m.from \in Name /\ m.to \in Name
BY NamesOfPeers DEF Offer, Msg, Message

LEMMA OutgoingIs ==
  ASSUME NEW n \in Name, NEW m \in Outgoing(n)
  PROVE  /\ m \in Message
         /\ m.type # "join" => m.to \in Name /\ m \in Incoming(m.to)
         /\ m.type = "offer" => n = Creator /\ m.to \in Recipient /\ m = Offer(m.to)
         /\ \A r \in Recipient : m = Offer(r) => m.type = "offer" /\ m.to = r
<1>1. CASE m = Msg("join", n, n)
  BY <1>1 DEF Msg, Message, Offer
<1>2. CASE n = Creator /\ m # Msg("join", n, n)
  <2>1. PICK t \in {"offer", "ice-candidate"}, r \in Recipient : m = Msg(t, Creator, r)
    BY <1>2 DEF Outgoing
  <2> QED
    BY <1>2, <2>1, NamesOfPeers DEF Msg, Message, Offer, Incoming
<1>3. CASE n # Creator /\ m # Msg("join", n, n)
  <2>1. PICK t \in {"answer", "ice-candidate"} : m = Msg(t, n, Creator)
    BY <1>3 DEF Outgoing
  <2> QED
    BY <1>3, <2>1, NamesOfPeers DEF Msg, Message, Offer, Incoming
<1> QED
  BY <1>1, <1>2, <1>3

LEMMA IncomingIs ==
  ASSUME NEW n \in Name, NEW m \in Incoming(n)
  PROVE  /\ m \in Message
         /\ n = Creator => m.from \in Recipient /\ m.type # "offer"
         /\ n # Creator => m.from = Creator /\ (m.type = "offer" => m = Offer(n))
         /\ \A r \in Recipient : m = Offer(r) => m.type = "offer" /\ n = r
<1>1. CASE n = Creator
  <2>1. PICK t \in {"answer", "ice-candidate"}, r \in Recipient : m = Msg(t, r, Creator)
    BY <1>1 DEF Incoming
  <2> QED
    BY <1>1, <2>1, NamesOfPeers DEF Msg, Message, Offer
<1>2. CASE n # Creator
  <2>1. PICK t \in {"offer", "ice-candidate"} : m = Msg(t, Creator, n)
    BY <1>2 DEF Incoming
  <2> QED
    BY <1>2, <2>1, NamesOfPeers DEF Msg, Message, Offer
<1> QED
  BY <1>1, <1>2

\* The elements of a queue that takes or gives one.
LEMMA AppendElements ==
  ASSUME NEW S, NEW q \in Seq(S), NEW m \in S
  PROVE  /\ Append(q, m) \in Seq(S)
         /\ DOMAIN Append(q, m) = 1..(Len(q) + 1) /\ DOMAIN q = 1..Len(q) /\ Len(q) \in Nat
         /\ \A i \in 1..Len(q) : Append(q, m)[i] = q[i]
         /\ Append(q, m)[Len(q) + 1] = m
BY AppendProperties

LEMMA TailElements ==
  ASSUME NEW S, NEW q \in Seq(S), q # <<>>
  PROVE  /\ Tail(q) \in Seq(S) /\ Head(q) \in S /\ Head(q) = q[1]
         /\ DOMAIN Tail(q) = 1..(Len(q) - 1) /\ DOMAIN q = 1..Len(q) /\ Len(q) \in Nat \ {0}
         /\ \A i \in 1..(Len(q) - 1) : Tail(q)[i] = q[i + 1]
<1>1. Len(q) \in Nat \ {0} /\ DOMAIN q = 1..Len(q)
  BY EmptySeq
<1>2. Tail(q) \in Seq(S) /\ Head(q) \in S /\ Head(q) = q[1] /\ Len(Tail(q)) = Len(q) - 1
  BY HeadTailProperties
<1>3. \A i \in 1..(Len(q) - 1) : Tail(q)[i] = q[i + 1]
  BY <1>1
<1>4. DOMAIN Tail(q) = 1..(Len(q) - 1)
  BY <1>2
<1> QED
  BY <1>1, <1>2, <1>3, <1>4

LEMMA OffersAfterAppend ==
  ASSUME NEW S, NEW q \in Seq(S), NEW m \in S, NEW r
  PROVE  /\ m # Offer(r) /\ NoOfferIn(q, r) => NoOfferIn(Append(q, m), r)
         /\ m # Offer(r) /\ AtMostOneOfferIn(q, r) => AtMostOneOfferIn(Append(q, m), r)
         /\ NoOfferIn(q, r) => AtMostOneOfferIn(Append(q, m), r)
<1> HIDE DEF Offer
<1> QED
  BY AppendElements DEF NoOfferIn, AtMostOneOfferIn

LEMMA OffersAfterTail ==
  ASSUME NEW S, NEW q \in Seq(S), q # <<>>, NEW r
  PROVE  /\ NoOfferIn(q, r) => NoOfferIn(Tail(q), r) /\ Head(q) # Offer(r)
         /\ AtMostOneOfferIn(q, r) => AtMostOneOfferIn(Tail(q), r)
         /\ AtMostOneOfferIn(q, r) /\ Head(q) = Offer(r) => NoOfferIn(Tail(q), r)
<1>1. /\ Head(q) = q[1]
      /\ DOMAIN Tail(q) = 1..(Len(q) - 1) /\ DOMAIN q = 1..Len(q) /\ Len(q) \in Nat \ {0}
      /\ \A i \in 1..(Len(q) - 1) : Tail(q)[i] = q[i + 1]
  BY TailElements
<1>2. \A i \in 1..(Len(q) - 1) : i + 1 \in 1..Len(q) /\ i + 1 # 1
  BY <1>1
<1>3. 1 \in DOMAIN q
  BY <1>1
<1>4. NoOfferIn(q, r) => NoOfferIn(Tail(q), r) /\ Head(q) # Offer(r)
  BY <1>1, <1>2, <1>3 DEF NoOfferIn
<1>5. AtMostOneOfferIn(q, r) => AtMostOneOfferIn(Tail(q), r)
  <2> SUFFICES ASSUME AtMostOneOfferIn(q, r), NEW i \in 1..(Len(q) - 1), NEW j \in 1..(Len(q) - 1),
                      Tail(q)[i] = Offer(r), Tail(q)[j] = Offer(r)
               PROVE  i = j
    BY <1>1 DEF AtMostOneOfferIn
  <2>1. q[i + 1] = Offer(r) /\ q[j + 1] = Offer(r)
    BY <1>1
  <2>2. i + 1 = j + 1
    BY <1>1, <1>2, <2>1 DEF AtMostOneOfferIn
  <2> QED
    BY <1>1, <2>2
<1>6. AtMostOneOfferIn(q, r) /\ Head(q) = Offer(r) => NoOfferIn(Tail(q), r)
  BY <1>1, <1>2, <1>3 DEF AtMostOneOfferIn, NoOfferIn
<1> QED
  BY <1>4, <1>5, <1>6

LEMMA NoOfferInEmpty == \A r : NoOfferIn(<<>>, r) /\ AtMostOneOfferIn(<<>>, r)
BY DEF NoOfferIn, AtMostOneOfferIn

-----------------------------------------------------------------------------
(* Type correctness *)

\* Sending and receiving keep the queues' types.
LEMMA SendType ==
  ASSUME TypeOK, NEW n \in Name, NEW m \in Message, Send(n, m)
  PROVE  toServer' \in [Name -> Seq(Message)]
<1>1. toServer[n] \in Seq(Message)
  BY DEF TypeOK
<1>2. Append(toServer[n], m) \in Seq(Message)
  BY <1>1, AppendElements
<1> QED
  BY <1>2 DEF TypeOK, Send

LEMMA TailType ==
  ASSUME NEW q \in Seq(Message), q # <<>>
  PROVE  Tail(q) \in Seq(Message) /\ Head(q) \in Message
BY TailElements

\* A loop's place stays a recipient's.
LEMMA LoopToType ==
  ASSUME TypeOK, NEW after \in Running, LoopTo(after)
  PROVE  next' \in Recipient /\ pc' \in {pc, after}
BY NAssumption DEF TypeOK, LoopTo, Recipient

LEMMA FinishType ==
  ASSUME TypeOK, NEW outcome \in Over, Finish(outcome)
  PROVE  TypeOK'
<1>1. /\ pc' \in Over
      /\ port' = "free" /\ clients' = {}
      /\ toServer' \in [Name -> Seq(Message)]
      /\ next' = next /\ sent' = sent /\ toClient' = toClient /\ found' = found /\ known' = known
  BY DEF Finish
<1>2. /\ socket' \in [Name -> {"none", "connecting", "open", "closed"}]
      /\ offerer' \in [Recipient -> {"none", "offered", "stable", "closed"}]
      /\ channel' \in [Recipient -> {"none", "connecting", "open", "closed"}]
  BY DEF Finish, TypeOK
<1>3. answerer' \in [Recipient -> {"none", "answering", "stable", "closed", "aborted"}]
  <2>1. \A r \in Recipient : ClosedAnswerer(answerer[r])
                            \in {"none", "answering", "stable", "closed", "aborted"}
    BY DEF TypeOK, ClosedAnswerer
  <2> QED
    BY <2>1 DEF Finish
<1> QED
  BY <1>1, <1>2, <1>3 DEF TypeOK

LEMMA LoopStepType == TypeOK /\ LoopStep => TypeOK'
<1> SUFFICES ASSUME TypeOK, LoopStep PROVE TypeOK'
  OBVIOUS
<1> USE DEF loopVars, serverVars, peerVars
<1>1. CASE StartServer
  BY <1>1 DEF StartServer, TypeOK, Creator, Name, Running
<1>2. CASE PortTaken
  BY <1>2 DEF PortTaken, CrashProcess, TypeOK, Over
<1>3. CASE FirstWaitOver \/ SecondWaitOver
  BY <1>3 DEF FirstWaitOver, SecondWaitOver, TypeOK, Running
<1>4. CASE CreateOffer
  <2>1. Creator \in Name /\ next \in Recipient /\ Msg("offer", Creator, Target) \in Message
    BY NAssumption DEF TypeOK, Target, Msg, Message, Name, Recipient, Creator
  <2>2. toServer' \in [Name -> Seq(Message)]
    BY <1>4, <2>1, SendType DEF CreateOffer
  <2>3. next' \in Recipient /\ pc' \in {pc, "waiting"}
    BY <1>4, LoopToType DEF CreateOffer, Running
  <2> QED
    BY <1>4, <2>1, <2>2, <2>3 DEF CreateOffer, TypeOK, Running
<1>5. CASE CreateOfferFails \/ WaitFails \/ SendResolves \/ SendRejects
  BY <1>5, FinishType DEF CreateOfferFails, WaitFails, SendResolves, SendRejects, Over
<1>6. CASE AlreadyOpen
  <2>1. next' \in Recipient /\ pc' \in {pc, "sending"}
    BY <1>6, LoopToType DEF AlreadyOpen, Running
  <2> QED
    BY <1>6, <2>1 DEF AlreadyOpen, TypeOK, Running
<1>7. CASE SendSharedState
  BY <1>7 DEF SendSharedState, TypeOK, Running
<1> QED
  BY <1>1, <1>2, <1>3, <1>4, <1>5, <1>6, <1>7 DEF LoopStep

LEMMA SocketType ==
  ASSUME TypeOK, NEW n \in Name, SocketOpens(n) \/ SocketLost(n) \/ ServeJoin(n) \/ Forward(n)
  PROVE  TypeOK'
<1> USE DEF loopVars, serverVars, peerVars
<1>1. CASE SocketOpens(n)
  <2>1. toServer' \in [Name -> Seq(Message)]
    <3>1. Msg("join", n, n) \in Message /\ toServer[n] \in Seq(Message)
      BY DEF TypeOK, Msg, Message
    <3>2. Append(toServer[n], Msg("join", n, n)) \in Seq(Message)
      BY <3>1, AppendElements
    <3> QED
      BY <1>1, <3>2 DEF SocketOpens, TypeOK
  <2> QED
    BY <1>1, <2>1 DEF SocketOpens, TypeOK
<1>2. CASE SocketLost(n)
  BY <1>2 DEF SocketLost, TypeOK
<1>3. CASE ServeJoin(n)
  <2>1. toServer' \in [Name -> Seq(Message)]
    <3>1. Tail(toServer[n]) \in Seq(Message)
      BY <1>3, TailType DEF ServeJoin, FromClient, TypeOK
    <3> QED
      BY <1>3, <3>1 DEF ServeJoin, TypeOK
  <2> QED
    BY <1>3, <2>1 DEF ServeJoin, TypeOK
<1>4. CASE Forward(n)
  <2>1. Tail(toServer[n]) \in Seq(Message) /\ Head(toServer[n]) \in Message
    BY <1>4, TailType DEF Forward, FromClient, TypeOK
  <2>2. toServer' \in [Name -> Seq(Message)]
    BY <1>4, <2>1 DEF Forward, TypeOK
  <2> DEFINE m == Head(toServer[n])
  <2>3. toClient' \in [Name -> Seq(Message)]
    <3>1. m.to \in Name
      BY <2>1, MessageFields
    <3>2. Append(toClient[m.to], m) \in Seq(Message)
      BY <2>1, <3>1, AppendElements DEF TypeOK
    <3> QED
      BY <1>4, <3>2 DEF Forward, PassedOn, TypeOK
  <2> QED
    BY <1>4, <2>2, <2>3 DEF Forward, TypeOK
<1> QED
  BY <1>1, <1>2, <1>3, <1>4

\* A handler takes the message at the head of its client's queue.
LEMMA ReceiveType ==
  ASSUME TypeOK, NEW n \in Name, toClient[n] # <<>>, Receive(n)
  PROVE  toClient' \in [Name -> Seq(Message)] /\ Head(toClient[n]) \in Message
<1>1. Tail(toClient[n]) \in Seq(Message) /\ Head(toClient[n]) \in Message
  BY TailType DEF TypeOK
<1> QED
  BY <1>1 DEF Receive, TypeOK

LEMMA HandlerType ==
  ASSUME TypeOK, MessagesGoTheirWay, NEW n \in Name,
         \/ n \in Recipient /\ (HandleOffer(n) \/ SendAnswer(n))
         \/ n = Creator /\ HandleAnswer
         \/ HandleIceCandidate(n)
  PROVE  TypeOK'
<1> USE DEF loopVars, serverVars, peerVars
<1>1. CASE n \in Recipient /\ HandleOffer(n)
  <2>1. toClient' \in [Name -> Seq(Message)]
    BY <1>1, ReceiveType DEF HandleOffer, FromServer
  <2> QED
    BY <1>1, <2>1 DEF HandleOffer, TypeOK
<1>2. CASE n \in Recipient /\ SendAnswer(n)
  <2>1. Msg("answer", n, Creator) \in Message
    BY NamesOfPeers DEF Msg, Message
  <2>2. toServer' \in [Name -> Seq(Message)]
    BY <1>2, <2>1, SendType DEF SendAnswer
  <2> QED
    BY <1>2, <2>2 DEF SendAnswer, TypeOK
<1>3. CASE n = Creator /\ HandleAnswer
  <2>1. toClient' \in [Name -> Seq(Message)]
    BY <1>3, ReceiveType DEF HandleAnswer, FromServer
  <2>2. offerer' \in [Recipient -> {"none", "offered", "stable", "closed"}]
    BY <1>3 DEF HandleAnswer, TypeOK
  <2> QED
    BY <1>3, <2>1, <2>2 DEF HandleAnswer, TypeOK
<1>4. CASE HandleIceCandidate(n)
  <2> DEFINE from == Head(toClient[n]).from
  <2>1. toClient' \in [Name -> Seq(Message)]
    BY <1>4, ReceiveType DEF HandleIceCandidate, FromServer
  <2>2. <<from, n>> \in Pairs
    <3>1. toClient[n] # <<>> /\ toClient[n] \in Seq(Incoming(n))
      BY <1>4 DEF HandleIceCandidate, FromServer, MessagesGoTheirWay
    <3>2. Head(toClient[n]) \in Incoming(n)
      BY <3>1, TailElements
    <3>3. (n = Creator /\ from \in Recipient) \/ (n \in Recipient /\ from = Creator)
      BY <3>2, IncomingIs, NamesOfPeers
    <3> QED
      BY <3>3 DEF Pairs
  <2>3. known' \subseteq Pairs
    BY <1>4, <2>2 DEF HandleIceCandidate, TypeOK
  <2> QED
    BY <1>4, <2>1, <2>3 DEF HandleIceCandidate, TypeOK
<1> QED
  BY <1>1, <1>2, <1>3, <1>4

LEMMA ConnectionType ==
  ASSUME TypeOK, NEW r \in Recipient,
         OffererFinds(r) \/ AnswererFinds(r) \/ OpenChannel(r) \/ LoseChannel(r)
  PROVE  TypeOK'
<1> USE DEF loopVars, serverVars, peerVars
<1>1. ASSUME NEW from \in Name, NEW to \in Name, <<from, to>> \in Pairs, Find(from, to)
      PROVE  TypeOK'
  <2>1. Msg("ice-candidate", from, to) \in Message
    BY DEF Msg, Message
  <2>2. toServer' \in [Name -> Seq(Message)]
    BY <1>1, <2>1, SendType DEF Find
  <2>3. found' \subseteq Pairs
    BY <1>1 DEF Find, TypeOK
  <2> QED
    BY <1>1, <2>2, <2>3 DEF Find, TypeOK
<1>2. CASE OffererFinds(r) \/ AnswererFinds(r)
  BY <1>1, <1>2, NamesOfPeers DEF OffererFinds, AnswererFinds, Pairs
<1>3. CASE OpenChannel(r)
  <2>1. next' \in Recipient /\ pc' \in {pc, "sending"}
    BY <1>3, LoopToType DEF OpenChannel, Running, TypeOK
  <2> QED
    BY <1>3, <2>1 DEF OpenChannel, TypeOK, Running
<1>4. CASE LoseChannel(r)
  BY <1>4 DEF LoseChannel, TypeOK
<1> QED
  BY <1>2, <1>3, <1>4

LEMMA NextType == TypeOK /\ MessagesGoTheirWay /\ [Next]_vars => TypeOK'
<1> SUFFICES ASSUME TypeOK, MessagesGoTheirWay, [Next]_vars PROVE TypeOK'
  OBVIOUS
<1>1. CASE LoopStep
  BY <1>1, LoopStepType
<1>2. ASSUME NEW n \in Name, SocketOpens(n) \/ SocketLost(n) \/ ServeJoin(n) \/ Forward(n)
      PROVE  TypeOK'
  BY <1>2, SocketType
<1>3. ASSUME NEW n \in Name, HandleIceCandidate(n) PROVE TypeOK'
  BY <1>3, HandlerType
<1>4. ASSUME NEW r \in Recipient, HandleOffer(r) \/ SendAnswer(r) PROVE TypeOK'
  BY <1>4, HandlerType, NamesOfPeers
<1>5. CASE HandleAnswer
  BY <1>5, HandlerType, NamesOfPeers
<1>6. ASSUME NEW r \in Recipient,
             OffererFinds(r) \/ AnswererFinds(r) \/ OpenChannel(r) \/ LoseChannel(r)
      PROVE  TypeOK'
  BY <1>6, ConnectionType
<1>7. CASE HandlerRejects
  BY <1>7 DEF HandlerRejects, CrashProcess, TypeOK, Over, serverVars, peerVars
<1>8. CASE UNCHANGED vars
  BY <1>8 DEF vars, TypeOK
<1> QED
  BY <1>1, <1>2, <1>3, <1>4, <1>5, <1>6, <1>7, <1>8 DEF Next

-----------------------------------------------------------------------------
(* Where the messages are *)

\* From q to s no offer to r has been added.
NoMoreOffers(q, s, r) == /\ NoOfferIn(q, r) => NoOfferIn(s, r)
                         /\ AtMostOneOfferIn(q, r) => AtMostOneOfferIn(s, r)

LEMMA NoMoreOffersIn ==
  ASSUME NEW S, NEW q \in Seq(S), NEW r
  PROVE  /\ NoMoreOffers(q, q, r) /\ NoMoreOffers(q, <<>>, r)
         /\ q # <<>> => NoMoreOffers(q, Tail(q), r)
         /\ \A m \in S : m # Offer(r) => NoMoreOffers(q, Append(q, m), r)
BY OffersAfterAppend, OffersAfterTail, NoOfferInEmpty DEF NoMoreOffers

Queued == MessagesGoTheirWay /\ \A r \in Recipient : OneOffer(r)

\* No handler, no loss and no candidate touches the one offer.
LEMMA OneOfferKept ==
  ASSUME NEW r \in Recipient, OneOffer(r),
         NoMoreOffers(toServer[Creator], toServer'[Creator], r),
         NoMoreOffers(toClient[r], toClient'[r], r),
         offerer'[r] = "none" <=> offerer[r] = "none",
         answerer'[r] = "none" <=> answerer[r] = "none"
  PROVE  OneOffer(r)'
BY DEF OneOffer, NoMoreOffers

LEMMA SendQueued ==
  ASSUME TypeOK, Queued, NEW n \in Name, NEW m \in Outgoing(n), m.type # "offer",
         toServer' \in {toServer, [toServer EXCEPT ![n] = Append(@, m)]}, toClient' = toClient,
         \A r \in Recipient : (offerer'[r] = "none" <=> offerer[r] = "none")
                              /\ (answerer'[r] = "none" <=> answerer[r] = "none")
  PROVE  Queued'
<1>1. \A k \in Name : toServer'[k] = toServer[k] \/ (k = n /\ toServer'[k] = Append(toServer[k], m))
  BY DEF TypeOK
<1>2. \A r \in Recipient : m # Offer(r)
  BY OutgoingIs
<1>3. MessagesGoTheirWay'
  <2>1. Append(toServer[n], m) \in Seq(Outgoing(n))
    BY AppendElements DEF Queued, MessagesGoTheirWay
  <2>2. (\A k \in Name : toServer[k] \in Seq(Outgoing(k)))'
    BY <1>1, <2>1 DEF Queued, MessagesGoTheirWay
  <2>3. (\A k \in Name : toClient[k] \in Seq(Incoming(k)))'
    BY DEF Queued, MessagesGoTheirWay
  <2> QED
    BY <2>2, <2>3 DEF MessagesGoTheirWay
<1>4. ASSUME NEW r \in Recipient PROVE OneOffer(r)'
  <2>1. NoMoreOffers(toServer[Creator], toServer'[Creator], r)
    <3>1. toServer[Creator] \in Seq(Outgoing(Creator)) /\ m # Offer(r)
      BY <1>2, NamesOfPeers DEF Queued, MessagesGoTheirWay
    <3>2. \/ toServer'[Creator] = toServer[Creator]
          \/ n = Creator /\ toServer'[Creator] = Append(toServer[Creator], m)
      BY <1>1, NamesOfPeers
    <3> QED
      BY <3>1, <3>2, NoMoreOffersIn
  <2>2. NoMoreOffers(toClient[r], toClient'[r], r)
    BY NoMoreOffersIn, NamesOfPeers DEF Queued, MessagesGoTheirWay
  <2> QED
    BY <2>1, <2>2, OneOfferKept DEF Queued
<1> QED
  BY <1>3, <1>4 DEF Queued

Shrinks(q, s) == s = q \/ s = <<>> \/ (q # <<>> /\ s = Tail(q))

\* A message is taken from a client's or the server's queue, or queues are lost.
LEMMA ShrinkQueued ==
  ASSUME TypeOK, Queued,
         \A k \in Name : Shrinks(toServer[k], toServer'[k]),
         \A k \in Name : Shrinks(toClient[k], toClient'[k]),
         \A r \in Recipient : (offerer'[r] = "none" <=> offerer[r] = "none")
                              /\ (answerer'[r] = "none" <=> answerer[r] = "none")
  PROVE  Queued'
<1>1. MessagesGoTheirWay'
  <2>1. ASSUME NEW S, NEW q \in Seq(S), NEW s, Shrinks(q, s) PROVE s \in Seq(S)
    BY <2>1, TailElements, EmptySeq DEF Shrinks
  <2>2. ASSUME NEW k \in Name PROVE toServer'[k] \in Seq(Outgoing(k)) /\ toClient'[k] \in Seq(Incoming(k))
    BY <2>1 DEF Queued, MessagesGoTheirWay
  <2> QED
    BY <2>2 DEF MessagesGoTheirWay
<1>2. ASSUME NEW r \in Recipient PROVE OneOffer(r)'
  <2>1. /\ toServer[Creator] \in Seq(Outgoing(Creator)) /\ toClient[r] \in Seq(Incoming(r))
        /\ Creator \in Name /\ r \in Name
    BY NamesOfPeers DEF Queued, MessagesGoTheirWay
  <2>2. NoMoreOffers(toServer[Creator], toServer'[Creator], r)
    BY <2>1, NoMoreOffersIn DEF Shrinks
  <2>3. NoMoreOffers(toClient[r], toClient'[r], r)
    BY <2>1, NoMoreOffersIn DEF Shrinks
  <2> QED
    BY <2>2, <2>3, OneOfferKept DEF Queued
<1> QED
  BY <1>1, <1>2 DEF Queued

LEMMA CreateOfferQueued ==
  ASSUME TypeOK, Queued, NotYetOffered, CreateOffer
  PROVE  Queued'
<1>1. /\ next \in Recipient /\ offerer[next] = "none"
      /\ offerer' = [offerer EXCEPT ![next] = "offered"]
      /\ answerer' = answerer /\ toClient' = toClient
  BY DEF CreateOffer, NotYetOffered, TypeOK, Recipient
<1>2. /\ toServer'[Creator] \in {toServer[Creator], Append(toServer[Creator], Offer(next))}
      /\ \A k \in Recipient : toServer'[k] = toServer[k]
  BY NamesOfPeers DEF CreateOffer, Send, Target, Offer, TypeOK
<1>3. toServer[Creator] \in Seq(Outgoing(Creator)) /\ Offer(next) \in Outgoing(Creator)
  BY <1>1, NamesOfPeers DEF Queued, MessagesGoTheirWay, Outgoing, Offer
<1>4. MessagesGoTheirWay'
  <2>1. toServer'[Creator] \in Seq(Outgoing(Creator))
    BY <1>2, <1>3, AppendElements
  <2>2. ASSUME NEW k \in Name PROVE toServer'[k] \in Seq(Outgoing(k)) /\ toClient'[k] \in Seq(Incoming(k))
    BY <1>1, <1>2, <2>1, NamesOfPeers DEF Queued, MessagesGoTheirWay
  <2> QED
    BY <2>2 DEF MessagesGoTheirWay
<1>5. ASSUME NEW r \in Recipient, r = next PROVE OneOffer(r)'
  <2>1. /\ NoOfferIn(toServer[Creator], next) /\ NoOfferIn(toClient[next], next)
        /\ AtMostOneOfferIn(toClient[next], next) /\ answerer[next] = "none"
        /\ AtMostOneOfferIn(toServer[Creator], next)
    BY <1>1 DEF Queued, OneOffer
  <2>2. AtMostOneOfferIn(toServer'[Creator], next)
    BY <1>2, <1>3, <2>1, OffersAfterAppend
  <2>3. offerer'[next] = "offered"
    BY <1>1 DEF TypeOK
  <2>4. /\ AtMostOneOfferIn(toServer'[Creator], r) /\ NoOfferIn(toClient'[r], r)
        /\ AtMostOneOfferIn(toClient'[r], r) /\ answerer'[r] = "none" /\ offerer'[r] # "none"
    BY <1>1, <1>5, <2>1, <2>2, <2>3
  <2> QED
    BY <2>4 DEF OneOffer
<1>6. ASSUME NEW r \in Recipient, r # next PROVE OneOffer(r)'
  <2>1. Offer(next) # Offer(r)
    BY <1>1, <1>6, MessageFields
  <2>2. NoMoreOffers(toServer[Creator], toServer'[Creator], r)
    BY <1>2, <1>3, <2>1, NoMoreOffersIn
  <2>3. NoMoreOffers(toClient[r], toClient'[r], r)
    BY <1>1, NoMoreOffersIn, NamesOfPeers DEF Queued, MessagesGoTheirWay
  <2>4. offerer'[r] = offerer[r] /\ answerer'[r] = answerer[r]
    BY <1>1, <1>6 DEF TypeOK
  <2> QED
    BY <2>2, <2>3, <2>4, OneOfferKept DEF Queued
<1> QED
  BY <1>4, <1>5, <1>6 DEF Queued

LEMMA ForwardQueued ==
  ASSUME TypeOK, Queued, NEW n \in Name, Forward(n)
  PROVE  Queued'
<1> DEFINE m == Head(toServer[n])
<1>1. /\ toServer[n] \in Seq(Outgoing(n)) /\ toServer[n] # <<>> /\ m.type # "join"
      /\ toServer' = [toServer EXCEPT ![n] = Tail(@)]
      /\ toClient' \in {toClient, [toClient EXCEPT ![m.to] = Append(@, m)]}
      /\ offerer' = offerer /\ answerer' = answerer
  BY DEF Forward, FromClient, PassedOn, Queued, MessagesGoTheirWay, peerVars
<1>2. m \in Outgoing(n) /\ Tail(toServer[n]) \in Seq(Outgoing(n))
  BY <1>1, TailElements
<1>3. m.to \in Name /\ m \in Incoming(m.to)
  BY <1>1, <1>2, OutgoingIs
<1>4. /\ \A k \in Name : toServer'[k] = IF k = n THEN Tail(toServer[k]) ELSE toServer[k]
      /\ \A k \in Name : toClient'[k] = toClient[k] \/ (k = m.to /\ toClient'[k] = Append(toClient[k], m))
  BY <1>1 DEF TypeOK
<1> HIDE DEF m
<1>5. MessagesGoTheirWay'
  <2>1. Append(toClient[m.to], m) \in Seq(Incoming(m.to))
    BY <1>3, AppendElements DEF Queued, MessagesGoTheirWay
  <2>2. ASSUME NEW k \in Name PROVE toServer'[k] \in Seq(Outgoing(k)) /\ toClient'[k] \in Seq(Incoming(k))
    BY <1>2, <1>4, <2>1 DEF Queued, MessagesGoTheirWay
  <2> QED
    BY <2>2 DEF MessagesGoTheirWay
<1>6. ASSUME NEW r \in Recipient PROVE OneOffer(r)'
  <2>1. /\ toServer[Creator] \in Seq(Outgoing(Creator)) /\ toClient[r] \in Seq(Incoming(r))
        /\ Creator \in Name /\ r \in Name
    BY NamesOfPeers DEF Queued, MessagesGoTheirWay
  <2>2. NoMoreOffers(toServer[Creator], toServer'[Creator], r)
    BY <1>1, <1>4, <2>1, NoMoreOffersIn
  <2>3. CASE m # Offer(r)
    <3>1. NoMoreOffers(toClient[r], toClient'[r], r)
      BY <1>3, <1>4, <2>1, <2>3, NoMoreOffersIn
    <3> QED
      BY <1>1, <2>2, <3>1, OneOfferKept DEF Queued
  <2>4. CASE m = Offer(r)
    <3>1. n = Creator /\ m.to = r
      BY <1>2, <2>4, OutgoingIs
    <3>2. ~NoOfferIn(toServer[Creator], r) /\ NoOfferIn(toServer'[Creator], r)
      BY <1>1, <1>4, <2>1, <2>4, <3>1, OffersAfterTail DEF m, Queued, OneOffer
    <3>3. /\ NoOfferIn(toClient[r], r) /\ offerer[r] # "none" /\ answerer[r] = "none"
          /\ AtMostOneOfferIn(toClient[r], r)
      BY <3>2 DEF Queued, OneOffer
    <3>4. AtMostOneOfferIn(toClient'[r], r)
      <4>1. m \in Incoming(r) /\ toClient'[r] \in {toClient[r], Append(toClient[r], m)}
        BY <1>3, <1>4, <2>1, <3>1
      <4> QED
        BY <2>1, <3>3, <4>1, OffersAfterAppend
    <3>5. AtMostOneOfferIn(toServer'[Creator], r)
      BY <3>2 DEF NoOfferIn, AtMostOneOfferIn
    <3> QED
      BY <1>1, <3>2, <3>3, <3>4, <3>5 DEF OneOffer
  <2> QED
    BY <2>3, <2>4
<1> QED
  BY <1>5, <1>6 DEF Queued

LEMMA HandleOfferQueued ==
  ASSUME TypeOK, Queued, NEW n \in Recipient, HandleOffer(n)
  PROVE  /\ Queued'
         /\ answerer[n] = "none" /\ offerer[n] # "none"
<1>1. /\ toClient[n] \in Seq(Incoming(n)) /\ toClient[n] # <<>>
      /\ Head(toClient[n]).type = "offer"
      /\ toClient' = [toClient EXCEPT ![n] = Tail(@)]
      /\ answerer' = [answerer EXCEPT ![n] = "answering"]
      /\ toServer' = toServer /\ offerer' = offerer
  BY NamesOfPeers DEF HandleOffer, FromServer, Receive, Queued, MessagesGoTheirWay
<1>2. Head(toClient[n]) \in Incoming(n) /\ Tail(toClient[n]) \in Seq(Incoming(n))
  BY <1>1, TailElements
<1>3. Head(toClient[n]) = Offer(n)
  BY <1>1, <1>2, IncomingIs, NamesOfPeers
<1>4. ~NoOfferIn(toClient[n], n) /\ NoOfferIn(Tail(toClient[n]), n)
  BY <1>1, <1>3, OffersAfterTail DEF Queued, OneOffer
<1>5. /\ NoOfferIn(toServer[Creator], n) /\ answerer[n] = "none" /\ offerer[n] # "none"
      /\ AtMostOneOfferIn(toServer[Creator], n)
  BY <1>4 DEF Queued, OneOffer
<1>6. \A k \in Name : toClient'[k] = IF k = n THEN Tail(toClient[k]) ELSE toClient[k]
  BY <1>1 DEF TypeOK
<1>7. MessagesGoTheirWay'
  <2>1. ASSUME NEW k \in Name PROVE toServer'[k] \in Seq(Outgoing(k)) /\ toClient'[k] \in Seq(Incoming(k))
    BY <1>1, <1>2, <1>6 DEF Queued, MessagesGoTheirWay
  <2> QED
    BY <2>1 DEF MessagesGoTheirWay
<1>8. ASSUME NEW r \in Recipient PROVE OneOffer(r)'
  <2>1. CASE r = n
    <3>1. /\ NoOfferIn(toClient'[r], r) /\ NoOfferIn(toServer'[Creator], r)
          /\ AtMostOneOfferIn(toServer'[Creator], r) /\ offerer'[r] # "none"
      BY <1>1, <1>4, <1>5, <1>6, <2>1, NamesOfPeers
    <3>2. AtMostOneOfferIn(toClient'[r], r)
      BY <3>1 DEF NoOfferIn, AtMostOneOfferIn
    <3> QED
      BY <3>1, <3>2 DEF OneOffer
  <2>2. CASE r # n
    <3>1. toClient'[r] = toClient[r] /\ answerer'[r] = answerer[r] /\ toServer' = toServer /\ offerer' = offerer
      BY <1>1, <1>6, <2>2, NamesOfPeers DEF TypeOK
    <3> QED
      BY <3>1 DEF Queued, OneOffer
  <2> QED
    BY <2>1, <2>2
<1> QED
  BY <1>5, <1>7, <1>8 DEF Queued

LEMMA LoopStepQueued ==
  ASSUME TypeOK, Queued, NotYetOffered, LoopStep
  PROVE  Queued'
<1> USE DEF loopVars, serverVars, peerVars, Shrinks
<1>1. CASE \/ StartServer \/ FirstWaitOver \/ SecondWaitOver \/ AlreadyOpen \/ SendSharedState
  BY <1>1, ShrinkQueued DEF StartServer, FirstWaitOver, SecondWaitOver, AlreadyOpen, SendSharedState
<1>2. CASE PortTaken
  BY <1>2, ShrinkQueued DEF PortTaken, CrashProcess
<1>3. CASE CreateOffer
  BY <1>3, CreateOfferQueued
<1>4. CASE CreateOfferFails \/ WaitFails \/ SendResolves \/ SendRejects
  <2>1. PICK outcome : Finish(outcome)
    BY <1>4 DEF CreateOfferFails, WaitFails, SendResolves, SendRejects
  <2>2. \A r \in Recipient : (offerer'[r] = "none" <=> offerer[r] = "none")
                            /\ (answerer'[r] = "none" <=> answerer[r] = "none")
    BY <2>1 DEF Finish, ClosedAnswerer, TypeOK
  <2> QED
    BY <2>1, <2>2, ShrinkQueued DEF Finish
<1> QED
  BY <1>1, <1>2, <1>3, <1>4 DEF LoopStep

LEMMA NextQueued ==
  ASSUME TypeOK, Queued, NotYetOffered, [Next]_vars
  PROVE  Queued'
<1> USE DEF loopVars, serverVars, peerVars, Shrinks
<1>1. CASE LoopStep
  BY <1>1, LoopStepQueued
<1>2. ASSUME NEW n \in Name, SocketOpens(n) PROVE Queued'
  <2>1. Msg("join", n, n) \in Outgoing(n) /\ Msg("join", n, n).type # "offer"
    BY DEF Outgoing, Msg
  <2> QED
    BY <1>2, <2>1, SendQueued DEF SocketOpens
<1>3. ASSUME NEW n \in Name, SocketLost(n) \/ ServeJoin(n) PROVE Queued'
  BY <1>3, ShrinkQueued DEF SocketLost, ServeJoin, FromClient, TypeOK
<1>4. ASSUME NEW n \in Name, Forward(n) PROVE Queued'
  BY <1>4, ForwardQueued
<1>5. ASSUME NEW n \in Name, HandleIceCandidate(n) PROVE Queued'
  BY <1>5, ShrinkQueued DEF HandleIceCandidate, FromServer, Receive, TypeOK
<1>6. ASSUME NEW r \in Recipient, HandleOffer(r) PROVE Queued'
  BY <1>6, HandleOfferQueued
<1>7. ASSUME NEW r \in Recipient, SendAnswer(r) PROVE Queued'
  <2>1. Msg("answer", r, Creator) \in Outgoing(r) /\ Msg("answer", r, Creator).type # "offer"
    BY NamesOfPeers DEF Outgoing, Msg
  <2>2. r \in Name /\ \A k \in Recipient : answerer'[k] = "none" <=> answerer[k] = "none"
    BY <1>7, NamesOfPeers DEF SendAnswer, TypeOK
  <2> QED
    BY <1>7, <2>1, <2>2, SendQueued DEF SendAnswer, Send
<1>8. CASE HandleAnswer
  <2>1. \A k \in Recipient : offerer'[k] = "none" <=> offerer[k] = "none"
    BY <1>8 DEF HandleAnswer, TypeOK
  <2> QED
    BY <1>8, <2>1, ShrinkQueued DEF HandleAnswer, FromServer, Receive, TypeOK
<1>9. ASSUME NEW r \in Recipient, OffererFinds(r) \/ AnswererFinds(r) PROVE Queued'
  <2>1. PICK n \in Name, to \in Name :
          Find(n, to) /\ Msg("ice-candidate", n, to) \in Outgoing(n)
    BY <1>9, NamesOfPeers DEF OffererFinds, AnswererFinds, Outgoing
  <2>2. Msg("ice-candidate", n, to).type # "offer"
    BY DEF Msg
  <2> QED
    BY <2>1, <2>2, SendQueued DEF Find, Send
<1>10. ASSUME NEW r \in Recipient, OpenChannel(r) \/ LoseChannel(r) PROVE Queued'
  BY <1>10, ShrinkQueued DEF OpenChannel, LoseChannel
<1>11. CASE HandlerRejects
  BY <1>11, ShrinkQueued DEF HandlerRejects, CrashProcess
<1>12. CASE UNCHANGED vars
  BY <1>12, ShrinkQueued DEF vars
<1> QED
  BY <1>1, <1>2, <1>3, <1>4, <1>5, <1>6, <1>7, <1>8, <1>9, <1>10, <1>11, <1>12 DEF Next

-----------------------------------------------------------------------------
(* The loop and the connections *)

Control == NotYetOffered /\ Channels /\ SentIsStable

LEMMA FinishControl ==
  ASSUME TypeOK, Channels, NEW outcome \in Over, Finish(outcome),
         outcome = "succeeded" => sent = Recipient /\ \A r \in Recipient : Stable(r) /\ channel[r] # "none"
  PROVE  Control'
<1>1. /\ pc' = outcome /\ sent' = sent
      /\ \A r \in Recipient : offerer'[r] = IF offerer[r] = "none" THEN "none" ELSE "closed"
      /\ \A r \in Recipient : channel'[r] = IF channel[r] = "none" THEN "none" ELSE "closed"
      /\ \A r \in Recipient : answerer[r] = "stable" => answerer'[r] = "closed"
  BY DEF Finish, ClosedAnswerer
<1>2. Channels'
  BY <1>1 DEF Channels
<1>3. NotYetOffered'
  BY <1>1 DEF NotYetOffered, Over
<1>4. SentIsStable'
  BY <1>1 DEF SentIsStable, Over, Stable, Closed
<1> QED
  BY <1>2, <1>3, <1>4 DEF Control

LEMMA LoopStepControl ==
  ASSUME TypeOK, Control, LoopStep
  PROVE  Control'
<1> USE DEF loopVars, serverVars, peerVars, Control, NotYetOffered, Channels, SentIsStable, Stable, Over
<1>1. CASE StartServer \/ FirstWaitOver \/ SecondWaitOver
  BY <1>1 DEF StartServer, FirstWaitOver, SecondWaitOver, Recipient, TypeOK
<1>2. CASE PortTaken
  BY <1>2 DEF PortTaken, CrashProcess
<1>3. CASE CreateOffer
  <2>1. /\ pc = "offering" /\ offerer[next] = "none" /\ next \in Recipient
        /\ offerer' = [offerer EXCEPT ![next] = "offered"]
        /\ channel' = [channel EXCEPT ![next] = "connecting"]
        /\ answerer' = answerer /\ sent' = sent
        /\ \/ next = N /\ pc' = "waiting" /\ next' = 1
           \/ next' = next + 1 /\ pc' = pc
    BY <1>3 DEF CreateOffer, LoopTo, TypeOK, Recipient
  <2>2. NotYetOffered'
    <3>1. \A r \in Recipient : r # next => offerer'[r] = offerer[r]
      BY <2>1 DEF TypeOK
    <3>2. \A r \in Recipient : r >= next + 1 => r >= next /\ r # next
      BY <2>1 DEF Recipient
    <3>3. CASE next' = next + 1 /\ pc' = pc
      <4>1. \A r \in Recipient : r >= next' => offerer'[r] = "none"
        BY <2>1, <3>1, <3>2, <3>3
      <4> QED
        BY <2>1, <3>3, <4>1
    <3>4. CASE pc' = "waiting"
      BY <3>4
    <3> QED
      BY <2>1, <3>3, <3>4
  <2>3. Channels'
    BY <2>1 DEF TypeOK
  <2>4. SentIsStable'
    BY <2>1
  <2> QED
    BY <2>2, <2>3, <2>4
<1>4. CASE CreateOfferFails \/ WaitFails \/ SendRejects
  BY <1>4, FinishControl DEF CreateOfferFails, WaitFails, SendRejects
<1>5. CASE SendResolves
  BY <1>5, FinishControl DEF SendResolves, AllSent
<1>6. CASE AlreadyOpen
  BY <1>6 DEF AlreadyOpen, LoopTo
<1>7. CASE SendSharedState
  BY <1>7 DEF SendSharedState, TypeOK
<1> QED
  BY <1>1, <1>2, <1>3, <1>4, <1>5, <1>6, <1>7 DEF LoopStep

LEMMA HandlerControl ==
  ASSUME TypeOK, Queued, Control, NEW r \in Recipient, HandleOffer(r) \/ SendAnswer(r) \/ HandleAnswer
  PROVE  Control'
<1> USE DEF loopVars, serverVars, peerVars, Control, NotYetOffered, Channels, SentIsStable, Stable, Closed, Over
<1>1. CASE HandleOffer(r)
  <2>1. answerer[r] = "none" /\ offerer[r] # "none"
    BY <1>1, HandleOfferQueued
  <2> QED
    BY <1>1, <2>1 DEF HandleOffer, TypeOK
<1>2. CASE SendAnswer(r)
  BY <1>2 DEF SendAnswer, TypeOK
<1>3. CASE HandleAnswer
  BY <1>3 DEF HandleAnswer, TypeOK
<1> QED
  BY <1>1, <1>2, <1>3

LEMMA NextControl ==
  ASSUME TypeOK, Queued, Control, [Next]_vars
  PROVE  Control'
<1> USE DEF loopVars, serverVars, peerVars
<1>1. CASE LoopStep
  BY <1>1, LoopStepControl
<1>2. ASSUME NEW r \in Recipient, HandleOffer(r) \/ SendAnswer(r) \/ HandleAnswer PROVE Control'
  BY <1>2, HandlerControl
<1>3. CASE HandleAnswer
  BY <1>3, HandlerControl, NAssumption DEF Recipient
<1>4. ASSUME NEW r \in Recipient, OpenChannel(r) PROVE Control'
  BY <1>4 DEF OpenChannel, LoopTo, TypeOK, Control, NotYetOffered, Channels, SentIsStable, Stable,
              Closed, Over, Running
<1>5. ASSUME NEW r \in Recipient, LoseChannel(r) PROVE Control'
  BY <1>5 DEF LoseChannel, TypeOK, Control, NotYetOffered, Channels, SentIsStable, Stable,
              Closed, Over, Running
<1>6. CASE HandlerRejects
  BY <1>6 DEF HandlerRejects, CrashProcess, Control, NotYetOffered, Channels, SentIsStable, Stable, Over
<1>7. CASE UNCHANGED <<pc, next, offerer, answerer, channel, sent>>
  BY <1>7 DEF Control, NotYetOffered, Channels, SentIsStable, Stable, Closed
<1>8. ASSUME NEW n \in Name, SocketOpens(n) \/ SocketLost(n) \/ ServeJoin(n) \/ Forward(n)
                            \/ HandleIceCandidate(n)
      PROVE  Control'
  BY <1>7, <1>8 DEF SocketOpens, SocketLost, ServeJoin, Forward, HandleIceCandidate
<1>9. ASSUME NEW r \in Recipient, OffererFinds(r) \/ AnswererFinds(r) PROVE Control'
  BY <1>7, <1>9 DEF OffererFinds, AnswererFinds, Find
<1> QED
  BY <1>1, <1>2, <1>3, <1>4, <1>5, <1>6, <1>7, <1>8, <1>9 DEF Next, vars

-----------------------------------------------------------------------------
(* The order of the messages *)

Candidate(r) == Msg("ice-candidate", Creator, r)

NoCandidateIn(q, r) == \A i \in DOMAIN q : q[i] # Candidate(r)

\* An offer in a queue is ahead of the candidates that follow it.
InOrder(q, r) ==
  \/ NoOfferIn(q, r)
  \/ \A i \in DOMAIN q : q[i] = Candidate(r) => \E j \in DOMAIN q : j < i /\ q[j] = Offer(r)

\* On the creator's side nothing overtakes the offer on its way through both queues.
OfferFirst(r) ==
  /\ offerer[r] = "none" => NoCandidateIn(toServer[Creator], r) /\ NoCandidateIn(toClient[r], r)
  /\ InOrder(toServer[Creator], r) /\ InOrder(toClient[r], r)
  /\ NoOfferIn(toServer[Creator], r) \/ NoCandidateIn(toClient[r], r)

\* On the recipient's side nothing is sent before the offer has come.
SilentBefore(r) ==
  answerer[r] = "none" =>
    /\ \A i \in DOMAIN toServer[r] : toServer[r][i].type = "join"
    /\ \A i \in DOMAIN toClient[Creator] : toClient[Creator][i].from # r

Ordered == \A r \in Recipient : OfferFirst(r) /\ SilentBefore(r)

\* Only the end closes connections.
ClosedAtTheEnd ==
  pc \notin Over =>
    \A r \in Recipient : offerer[r] # "closed" /\ answerer[r] \notin {"closed", "aborted"}

LEMMA OrderAfterAppend ==
  ASSUME NEW S, NEW q \in Seq(S), NEW m \in S, NEW r
  PROVE  /\ InOrder(q, r) /\ m # Offer(r) => InOrder(Append(q, m), r)
         /\ NoCandidateIn(q, r) => InOrder(Append(q, m), r)
         /\ NoCandidateIn(q, r) /\ m # Candidate(r) => NoCandidateIn(Append(q, m), r)
<1>1. /\ DOMAIN Append(q, m) = 1..(Len(q) + 1) /\ DOMAIN q = 1..Len(q) /\ Len(q) \in Nat
      /\ \A i \in 1..Len(q) : Append(q, m)[i] = q[i]
      /\ Append(q, m)[Len(q) + 1] = m
  BY AppendElements
<1>2. Offer(r) # Candidate(r)
  BY DEF Offer, Candidate, Msg
<1> DEFINE s == Append(q, m)
<1> HIDE DEF s, Offer, Candidate
<1>3. ASSUME InOrder(q, r), m # Offer(r) PROVE InOrder(s, r)
  <2>1. CASE NoOfferIn(q, r)
    BY <1>1, <1>3, <2>1 DEF s, NoOfferIn, InOrder
  <2>2. CASE ~NoOfferIn(q, r)
    <3>1. PICK k \in 1..Len(q) : q[k] = Offer(r)
      BY <1>1, <2>2 DEF NoOfferIn
    <3>2. ASSUME NEW i \in 1..(Len(q) + 1), s[i] = Candidate(r)
          PROVE  \E j \in 1..(Len(q) + 1) : j < i /\ s[j] = Offer(r)
      <4>1. CASE i = Len(q) + 1
        BY <1>1, <3>1, <4>1 DEF s
      <4>2. CASE i # Len(q) + 1
        <5>1. i \in 1..Len(q) /\ q[i] = Candidate(r)
          BY <1>1, <3>2, <4>2 DEF s
        <5>2. PICK j \in 1..Len(q) : j < i /\ q[j] = Offer(r)
          BY <1>1, <1>3, <2>2, <5>1 DEF InOrder
        <5> QED
          BY <1>1, <5>2 DEF s
      <4> QED
        BY <4>1, <4>2
    <3> QED
      BY <1>1, <3>2 DEF InOrder, s
  <2> QED
    BY <2>1, <2>2
<1>4. ASSUME NoCandidateIn(q, r), m # Candidate(r) PROVE NoCandidateIn(s, r)
  BY <1>1, <1>4 DEF s, NoCandidateIn
<1>5. ASSUME NoCandidateIn(q, r) PROVE InOrder(s, r)
  <2>1. CASE m = Candidate(r)
    <3>1. InOrder(q, r)
      BY <1>5 DEF NoCandidateIn, InOrder
    <3> QED
      BY <1>2, <1>3, <2>1, <3>1
  <2>2. CASE m # Candidate(r)
    BY <1>4, <1>5, <2>2 DEF NoCandidateIn, InOrder
  <2> QED
    BY <2>1, <2>2
<1> QED
  BY <1>3, <1>4, <1>5 DEF s

LEMMA OrderAfterTail ==
  ASSUME NEW S, NEW q \in Seq(S), q # <<>>, NEW r, AtMostOneOfferIn(q, r)
  PROVE  /\ InOrder(q, r) => InOrder(Tail(q), r)
         /\ NoCandidateIn(q, r) => NoCandidateIn(Tail(q), r)
         /\ InOrder(q, r) /\ Head(q) = Candidate(r) => NoOfferIn(q, r)
<1>1. /\ Head(q) = q[1]
      /\ DOMAIN Tail(q) = 1..(Len(q) - 1) /\ DOMAIN q = 1..Len(q) /\ Len(q) \in Nat \ {0}
      /\ \A i \in 1..(Len(q) - 1) : Tail(q)[i] = q[i + 1]
  BY TailElements
<1> HIDE DEF Offer, Candidate
<1>2. ASSUME NoCandidateIn(q, r) PROVE NoCandidateIn(Tail(q), r)
  BY <1>1, <1>2 DEF NoCandidateIn
<1>3. ASSUME InOrder(q, r) PROVE InOrder(Tail(q), r)
  <2>1. CASE NoOfferIn(q, r)
    BY <2>1, OffersAfterTail DEF InOrder
  <2>2. CASE Head(q) = Offer(r)
    BY <2>2, OffersAfterTail DEF InOrder
  <2>3. CASE ~NoOfferIn(q, r) /\ Head(q) # Offer(r)
    <3>1. ASSUME NEW i \in 1..(Len(q) - 1), Tail(q)[i] = Candidate(r)
          PROVE  \E j \in 1..(Len(q) - 1) : j < i /\ Tail(q)[j] = Offer(r)
      <4>1. i + 1 \in 1..Len(q) /\ q[i + 1] = Candidate(r)
        BY <1>1, <3>1
      <4>2. PICK k \in 1..Len(q) : k < i + 1 /\ q[k] = Offer(r)
        BY <1>1, <1>3, <2>3, <4>1 DEF InOrder
      <4>3. k # 1
        BY <1>1, <2>3, <4>2
      <4>4. k - 1 \in 1..(Len(q) - 1) /\ k - 1 < i /\ k - 1 + 1 = k
        BY <1>1, <4>2, <4>3
      <4> QED
        BY <1>1, <4>2, <4>4
    <3> QED
      BY <1>1, <3>1 DEF InOrder
  <2> QED
    BY <2>1, <2>2, <2>3
<1>4. ASSUME InOrder(q, r), Head(q) = Candidate(r) PROVE NoOfferIn(q, r)
  <2>1. 1 \in DOMAIN q /\ ~ \E j \in DOMAIN q : j < 1
    BY <1>1
  <2> QED
    BY <1>1, <1>4, <2>1 DEF InOrder
<1> QED
  BY <1>2, <1>3, <1>4

\* A queue that shrinks stays in order, and says no more than before.
LEMMA OrderAfterShrinking ==
  ASSUME NEW S, NEW q \in Seq(S), NEW s, Shrinks(q, s)
  PROVE  /\ \A r : AtMostOneOfferIn(q, r) /\ InOrder(q, r) => InOrder(s, r)
         /\ \A r : AtMostOneOfferIn(q, r) /\ NoCandidateIn(q, r) => NoCandidateIn(s, r)
         /\ \A r : NoOfferIn(q, r) => NoOfferIn(s, r)
         /\ \A i \in DOMAIN s : \E j \in DOMAIN q : s[i] = q[j]
<1>1. CASE s = q
  BY <1>1
<1>2. CASE s = <<>>
  BY <1>2 DEF InOrder, NoOfferIn, NoCandidateIn
<1>3. CASE q # <<>> /\ s = Tail(q)
  <2>1. \A i \in DOMAIN s : \E j \in DOMAIN q : s[i] = q[j]
    <3>1. /\ DOMAIN s = 1..(Len(q) - 1) /\ DOMAIN q = 1..Len(q) /\ Len(q) \in Nat \ {0}
          /\ \A i \in 1..(Len(q) - 1) : s[i] = q[i + 1]
      BY <1>3, TailElements
    <3>2. \A i \in 1..(Len(q) - 1) : i + 1 \in 1..Len(q)
      BY <3>1
    <3> QED
      BY <3>1, <3>2
  <2> QED
    BY <1>3, <2>1, OrderAfterTail, OffersAfterTail
<1> QED
  BY <1>1, <1>2, <1>3 DEF Shrinks

LEMMA ShrinkOrdered ==
  ASSUME TypeOK, Queued, Ordered,
         \A k \in Name : Shrinks(toServer[k], toServer'[k]),
         \A k \in Name : Shrinks(toClient[k], toClient'[k]),
         \A r \in Recipient : (offerer'[r] = "none" => offerer[r] = "none")
                              /\ (answerer'[r] = "none" => answerer[r] = "none")
  PROVE  Ordered'
<1> SUFFICES ASSUME NEW r \in Recipient PROVE OfferFirst(r)' /\ SilentBefore(r)'
  BY DEF Ordered
<1>1. /\ toServer[Creator] \in Seq(Outgoing(Creator)) /\ toServer[r] \in Seq(Outgoing(r))
      /\ toClient[Creator] \in Seq(Incoming(Creator)) /\ toClient[r] \in Seq(Incoming(r))
      /\ Creator \in Name /\ r \in Name
  BY NamesOfPeers DEF Queued, MessagesGoTheirWay
<1>2. /\ AtMostOneOfferIn(toServer[Creator], r) /\ AtMostOneOfferIn(toClient[r], r)
      /\ OfferFirst(r) /\ SilentBefore(r)
  BY DEF Queued, OneOffer, Ordered
<1>3. OfferFirst(r)'
  <2>1. /\ InOrder(toServer'[Creator], r) /\ InOrder(toClient'[r], r)
        /\ NoCandidateIn(toServer[Creator], r) => NoCandidateIn(toServer'[Creator], r)
        /\ NoCandidateIn(toClient[r], r) => NoCandidateIn(toClient'[r], r)
        /\ NoOfferIn(toServer[Creator], r) => NoOfferIn(toServer'[Creator], r)
    BY <1>1, <1>2, OrderAfterShrinking DEF OfferFirst
  <2> QED
    BY <1>2, <2>1 DEF OfferFirst
<1>4. SilentBefore(r)'
  <2>1. /\ \A i \in DOMAIN toServer'[r] : \E j \in DOMAIN toServer[r] : toServer'[r][i] = toServer[r][j]
        /\ \A i \in DOMAIN toClient'[Creator] :
             \E j \in DOMAIN toClient[Creator] : toClient'[Creator][i] = toClient[Creator][j]
    BY <1>1, OrderAfterShrinking
  <2> QED
    BY <1>2, <2>1 DEF SilentBefore
<1> QED
  BY <1>3, <1>4

\* The creator sends candidates to those it has made an offer, a recipient
\* answers and sends candidates when it has an offer.
LEMMA SendOrdered ==
  ASSUME TypeOK, Queued, Ordered, NEW n \in Name, NEW m \in Outgoing(n), m.type # "offer",
         \A r \in Recipient : m = Candidate(r) => offerer[r] # "none",
         m.type # "join" /\ n \in Recipient => answerer'[n] # "none",
         toServer' \in {toServer, [toServer EXCEPT ![n] = Append(@, m)]}, toClient' = toClient,
         \A r \in Recipient : (offerer'[r] = "none" => offerer[r] = "none")
                              /\ (answerer'[r] = "none" => answerer[r] = "none")
  PROVE  Ordered'
<1> SUFFICES ASSUME NEW r \in Recipient PROVE OfferFirst(r)' /\ SilentBefore(r)'
  BY DEF Ordered
<1>1. \A k \in Name : toServer'[k] = toServer[k] \/ (k = n /\ toServer'[k] = Append(toServer[k], m))
  BY DEF TypeOK
<1>2. /\ toServer[Creator] \in Seq(Outgoing(Creator)) /\ toServer[r] \in Seq(Outgoing(r))
      /\ Creator \in Name /\ r \in Name /\ r # Creator
      /\ OfferFirst(r) /\ SilentBefore(r) /\ m # Offer(r)
  BY OutgoingIs, NamesOfPeers DEF Queued, MessagesGoTheirWay, Ordered
<1>3. OfferFirst(r)'
  <2>1. CASE toServer'[Creator] = toServer[Creator]
    BY <1>2, <2>1 DEF OfferFirst
  <2>2. CASE n = Creator /\ toServer'[Creator] = Append(toServer[Creator], m)
    <3>1. /\ InOrder(toServer'[Creator], r)
          /\ NoOfferIn(toServer[Creator], r) => NoOfferIn(toServer'[Creator], r)
          /\ NoCandidateIn(toServer[Creator], r) /\ m # Candidate(r)
               => NoCandidateIn(toServer'[Creator], r)
      BY <1>2, <2>2, OrderAfterAppend, OffersAfterAppend DEF OfferFirst
    <3> QED
      BY <1>2, <3>1 DEF OfferFirst
  <2> QED
    BY <1>1, <1>2, <2>1, <2>2
<1>4. SilentBefore(r)'
  <2>1. CASE toServer'[r] = toServer[r]
    BY <1>2, <2>1 DEF SilentBefore
  <2>2. CASE n = r /\ toServer'[r] = Append(toServer[r], m)
    <3>1. /\ DOMAIN toServer'[r] = 1..(Len(toServer[r]) + 1) /\ DOMAIN toServer[r] = 1..Len(toServer[r])
          /\ Len(toServer[r]) \in Nat
          /\ \A i \in 1..Len(toServer[r]) : toServer'[r][i] = toServer[r][i]
          /\ toServer'[r][Len(toServer[r]) + 1] = m
      BY <1>2, <2>2, AppendElements
    <3>2. ASSUME answerer'[r] = "none", NEW i \in DOMAIN toServer'[r] PROVE toServer'[r][i].type = "join"
      <4>1. answerer[r] = "none" /\ m.type = "join"
        BY <2>2, <3>2
      <4>2. CASE i = Len(toServer[r]) + 1
        BY <3>1, <4>1, <4>2
      <4>3. CASE i # Len(toServer[r]) + 1
        BY <1>2, <3>1, <4>1, <4>3 DEF SilentBefore
      <4> QED
        BY <4>2, <4>3
    <3> QED
      BY <1>2, <3>2 DEF SilentBefore
  <2> QED
    BY <1>1, <1>2, <2>1, <2>2
<1> QED
  BY <1>3, <1>4

LEMMA CreateOfferOrdered ==
  ASSUME TypeOK, Queued, NotYetOffered, Ordered, CreateOffer
  PROVE  Ordered'
<1>1. /\ next \in Recipient /\ offerer[next] = "none"
      /\ offerer' = [offerer EXCEPT ![next] = "offered"]
      /\ answerer' = answerer /\ toClient' = toClient
  BY DEF CreateOffer, NotYetOffered, TypeOK, Recipient
<1>2. /\ toServer'[Creator] \in {toServer[Creator], Append(toServer[Creator], Offer(next))}
      /\ \A k \in Recipient : toServer'[k] = toServer[k]
  BY NamesOfPeers DEF CreateOffer, Send, Target, Offer, TypeOK
<1>3. toServer[Creator] \in Seq(Outgoing(Creator)) /\ Offer(next) \in Outgoing(Creator)
  BY <1>1, NamesOfPeers DEF Queued, MessagesGoTheirWay, Outgoing, Offer
<1>4. ASSUME NEW r \in Recipient PROVE OfferFirst(r)'
  <2>1. OfferFirst(r)
    BY DEF Ordered
  <2>2. Offer(next) # Candidate(r)
    BY DEF Offer, Candidate, Msg
  <2>3. CASE r = next
    <3>1. NoCandidateIn(toServer[Creator], r) /\ NoCandidateIn(toClient[r], r)
      BY <1>1, <2>1, <2>3 DEF OfferFirst
    <3>2. InOrder(toServer'[Creator], r)
      BY <1>2, <1>3, <2>1, <3>1, OrderAfterAppend DEF OfferFirst
    <3>3. NoCandidateIn(toServer'[Creator], r)
      BY <1>2, <1>3, <2>2, <3>1, OrderAfterAppend
    <3> QED
      BY <1>1, <2>1, <3>1, <3>2, <3>3 DEF OfferFirst
  <2>4. CASE r # next
    <3>1. Offer(next) # Offer(r) /\ offerer'[r] = offerer[r]
      BY <1>1, <2>4, MessageFields DEF TypeOK
    <3>2. /\ InOrder(toServer'[Creator], r)
          /\ NoOfferIn(toServer[Creator], r) => NoOfferIn(toServer'[Creator], r)
          /\ NoCandidateIn(toServer[Creator], r) => NoCandidateIn(toServer'[Creator], r)
      BY <1>2, <1>3, <2>1, <2>2, <3>1, OrderAfterAppend, OffersAfterAppend DEF OfferFirst
    <3> QED
      BY <1>1, <2>1, <3>1, <3>2 DEF OfferFirst
  <2> QED
    BY <2>3, <2>4
<1>5. ASSUME NEW r \in Recipient PROVE SilentBefore(r)'
  BY <1>1, <1>2 DEF Ordered, SilentBefore
<1> QED
  BY <1>4, <1>5 DEF Ordered

LEMMA ForwardOrdered ==
  ASSUME TypeOK, Queued, Ordered, NEW n \in Name, Forward(n)
  PROVE  Ordered'
<1> DEFINE m == Head(toServer[n])
<1>1. /\ toServer[n] \in Seq(Outgoing(n)) /\ toServer[n] # <<>> /\ m.type # "join"
      /\ toServer' = [toServer EXCEPT ![n] = Tail(@)]
      /\ toClient' \in {toClient, [toClient EXCEPT ![m.to] = Append(@, m)]}
      /\ offerer' = offerer /\ answerer' = answerer
  BY DEF Forward, FromClient, PassedOn, Queued, MessagesGoTheirWay, peerVars
<1>2. m \in Outgoing(n) /\ m = toServer[n][1] /\ 1 \in DOMAIN toServer[n]
  BY <1>1, TailElements
<1>3. m.to \in Name /\ m \in Incoming(m.to)
  BY <1>1, <1>2, OutgoingIs
<1>4. /\ \A k \in Name : toServer'[k] = IF k = n THEN Tail(toServer[k]) ELSE toServer[k]
      /\ \A k \in Name : toClient'[k] = toClient[k] \/ (k = m.to /\ toClient'[k] = Append(toClient[k], m))
  BY <1>1 DEF TypeOK
<1>5. ASSUME NEW r \in Recipient, n \notin {Creator, r} PROVE m.from # r
  BY <1>1, <1>2, <1>5, NamesOfPeers DEF Outgoing, Msg
<1> HIDE DEF m
<1> SUFFICES ASSUME NEW r \in Recipient PROVE OfferFirst(r)' /\ SilentBefore(r)'
  BY DEF Ordered
<1>6. /\ toServer[Creator] \in Seq(Outgoing(Creator)) /\ toClient[r] \in Seq(Incoming(r))
      /\ toServer[r] \in Seq(Outgoing(r)) /\ toClient[Creator] \in Seq(Incoming(Creator))
      /\ Creator \in Name /\ r \in Name /\ r # Creator
      /\ OfferFirst(r) /\ SilentBefore(r) /\ OneOffer(r)
      /\ AtMostOneOfferIn(toServer[Creator], r) /\ AtMostOneOfferIn(toClient[r], r)
  BY NamesOfPeers DEF Queued, MessagesGoTheirWay, Ordered, OneOffer
<1>7. /\ Shrinks(toServer[Creator], toServer'[Creator]) /\ Shrinks(toServer[r], toServer'[r])
  BY <1>1, <1>4, <1>6 DEF Shrinks
<1>8. OfferFirst(r)'
  <2>1. /\ InOrder(toServer'[Creator], r)
        /\ NoCandidateIn(toServer[Creator], r) => NoCandidateIn(toServer'[Creator], r)
        /\ NoOfferIn(toServer[Creator], r) => NoOfferIn(toServer'[Creator], r)
    BY <1>6, <1>7, OrderAfterShrinking DEF OfferFirst
  <2>2. CASE toClient'[r] = toClient[r]
    BY <1>1, <1>6, <2>1, <2>2 DEF OfferFirst
  <2>3. CASE m.to = r /\ toClient'[r] = Append(toClient[r], m)
    <3>1. m \in Incoming(r) /\ n = Creator
      <4>1. m \in Incoming(r)
        BY <1>3, <2>3
      <4>2. m.from = Creator
        BY <4>1, <1>6, IncomingIs
      <4>3. m.type \in {"offer", "ice-candidate"} /\ m.from = Creator
        BY <4>1, <1>6 DEF Incoming, Msg
      <4> QED
        BY <1>2, <4>1, <4>2, <4>3, <2>3, NamesOfPeers DEF Outgoing, Msg
    <3>2. m \in {Offer(r), Candidate(r)}
      BY <1>6, <3>1 DEF Incoming, Offer, Candidate
    <3>3. CASE m = Offer(r)
      <4>1. ~NoOfferIn(toServer[Creator], r)
        BY <1>2, <3>1, <3>3 DEF NoOfferIn
      <4>2. NoCandidateIn(toClient[r], r) /\ offerer[r] # "none"
        BY <1>6, <4>1 DEF OfferFirst, OneOffer
      <4>3. NoOfferIn(toServer'[Creator], r)
        BY <1>1, <1>4, <1>6, <3>1, <3>3, OffersAfterTail DEF m
      <4>4. InOrder(toClient'[r], r)
        BY <1>6, <2>3, <3>1, <4>2, OrderAfterAppend
      <4> QED
        BY <1>1, <2>1, <4>2, <4>3, <4>4 DEF OfferFirst
    <3>4. CASE m = Candidate(r)
      <4>1. m # Offer(r)
        BY <3>4 DEF Offer, Candidate, Msg
      <4>2. offerer[r] # "none"
        BY <1>2, <1>6, <3>1, <3>4 DEF OfferFirst, NoCandidateIn
      <4>3. NoOfferIn(toServer'[Creator], r)
        <5>1. NoOfferIn(toServer[Creator], r)
          BY <1>1, <1>6, <3>1, <3>4, OrderAfterTail DEF m, OfferFirst
        <5> QED
          BY <2>1, <5>1
      <4>4. InOrder(toClient'[r], r)
        BY <1>6, <2>3, <3>1, <4>1, OrderAfterAppend DEF OfferFirst
      <4> QED
        BY <1>1, <2>1, <4>2, <4>3, <4>4 DEF OfferFirst
    <3> QED
      BY <3>2, <3>3, <3>4
  <2> QED
    BY <1>4, <1>6, <2>2, <2>3
<1>9. SilentBefore(r)'
  <2> SUFFICES ASSUME answerer[r] = "none"
               PROVE  /\ \A i \in DOMAIN toServer'[r] : toServer'[r][i].type = "join"
                      /\ \A i \in DOMAIN toClient'[Creator] : toClient'[Creator][i].from # r
    BY <1>1 DEF SilentBefore
  <2>1. /\ \A i \in DOMAIN toServer[r] : toServer[r][i].type = "join"
        /\ \A i \in DOMAIN toClient[Creator] : toClient[Creator][i].from # r
    BY <1>6 DEF SilentBefore
  <2>2. \A i \in DOMAIN toServer'[r] : toServer'[r][i].type = "join"
    BY <1>6, <1>7, <2>1, OrderAfterShrinking
  <2>3. n # r
    BY <1>1, <1>2, <2>1
  <2>4. CASE toClient'[Creator] = toClient[Creator]
    BY <2>1, <2>2, <2>4
  <2>5. CASE m.to = Creator /\ toClient'[Creator] = Append(toClient[Creator], m)
    <3>1. m.from # r
      <4>1. m.from \in Recipient /\ m \in Incoming(Creator)
        BY <1>3, <1>6, <2>5, IncomingIs
      <4>2. CASE n = Creator
        BY <4>1, <4>2, <1>1, <1>2, <1>6, NamesOfPeers DEF Outgoing, Msg
      <4>3. CASE n # Creator
        BY <1>5, <2>3, <4>3
      <4> QED
        BY <4>2, <4>3
    <3>2. /\ DOMAIN toClient'[Creator] = 1..(Len(toClient[Creator]) + 1)
          /\ DOMAIN toClient[Creator] = 1..Len(toClient[Creator]) /\ Len(toClient[Creator]) \in Nat
          /\ \A i \in 1..Len(toClient[Creator]) : toClient'[Creator][i] = toClient[Creator][i]
          /\ toClient'[Creator][Len(toClient[Creator]) + 1] = m
      <4>1. m \in Incoming(Creator)
        BY <1>3, <2>5
      <4> QED
        BY <1>6, <2>5, <4>1, AppendElements
    <3>3. ASSUME NEW i \in DOMAIN toClient'[Creator] PROVE toClient'[Creator][i].from # r
      <4>1. CASE i = Len(toClient[Creator]) + 1
        BY <3>1, <3>2, <4>1
      <4>2. CASE i # Len(toClient[Creator]) + 1
        BY <2>1, <3>2, <4>2
      <4> QED
        BY <4>1, <4>2
    <3> QED
      BY <2>2, <3>3
  <2> QED
    BY <1>4, <1>6, <2>4, <2>5
<1> QED
  BY <1>8, <1>9

LEMMA NextOrdered ==
  ASSUME ExchangeInv, Ordered, [Next]_vars
  PROVE  Ordered'
<1> USE DEF loopVars, serverVars, peerVars, Shrinks
<1>0. TypeOK /\ Queued /\ NotYetOffered
  BY DEF ExchangeInv, Queued
<1>1. CASE \/ StartServer \/ FirstWaitOver \/ SecondWaitOver \/ AlreadyOpen \/ SendSharedState
  BY <1>0, <1>1, ShrinkOrdered
  DEF StartServer, FirstWaitOver, SecondWaitOver, AlreadyOpen, SendSharedState
<1>2. CASE PortTaken \/ HandlerRejects
  BY <1>0, <1>2, ShrinkOrdered DEF PortTaken, HandlerRejects, CrashProcess
<1>3. CASE CreateOffer
  BY <1>0, <1>3, CreateOfferOrdered
<1>4. CASE CreateOfferFails \/ WaitFails \/ SendResolves \/ SendRejects
  <2>1. PICK outcome : Finish(outcome)
    BY <1>4 DEF CreateOfferFails, WaitFails, SendResolves, SendRejects
  <2>2. \A r \in Recipient : (offerer'[r] = "none" => offerer[r] = "none")
                            /\ (answerer'[r] = "none" => answerer[r] = "none")
    BY <1>0, <2>1 DEF Finish, ClosedAnswerer, TypeOK
  <2> QED
    BY <1>0, <2>1, <2>2, ShrinkOrdered DEF Finish
<1>5. ASSUME NEW n \in Name, SocketOpens(n) PROVE Ordered'
  <2>1. /\ Msg("join", n, n) \in Outgoing(n) /\ Msg("join", n, n).type = "join"
        /\ \A r \in Recipient : Msg("join", n, n) # Candidate(r)
    BY DEF Outgoing, Msg, Candidate
  <2> QED
    BY <1>0, <1>5, <2>1, SendOrdered DEF SocketOpens
<1>6. ASSUME NEW n \in Name, SocketLost(n) \/ ServeJoin(n) PROVE Ordered'
  BY <1>0, <1>6, ShrinkOrdered DEF SocketLost, ServeJoin, FromClient, TypeOK
<1>7. ASSUME NEW n \in Name, Forward(n) PROVE Ordered'
  BY <1>0, <1>7, ForwardOrdered
<1>8. ASSUME NEW n \in Name, HandleIceCandidate(n) PROVE Ordered'
  BY <1>0, <1>8, ShrinkOrdered DEF HandleIceCandidate, FromServer, Receive, TypeOK
<1>9. ASSUME NEW r \in Recipient, HandleOffer(r) PROVE Ordered'
  <2>1. \A k \in Name : Shrinks(toClient[k], toClient'[k])
    BY <1>0, <1>9 DEF HandleOffer, FromServer, Receive, TypeOK
  <2>2. \A k \in Recipient : answerer'[k] = "none" => answerer[k] = "none"
    BY <1>0, <1>9 DEF HandleOffer, TypeOK
  <2> QED
    BY <1>0, <1>9, <2>1, <2>2, ShrinkOrdered DEF HandleOffer
<1>10. ASSUME NEW r \in Recipient, SendAnswer(r) PROVE Ordered'
  <2>1. /\ Msg("answer", r, Creator) \in Outgoing(r) /\ Msg("answer", r, Creator).type = "answer"
        /\ \A k \in Recipient : Msg("answer", r, Creator) # Candidate(k)
    BY NamesOfPeers DEF Outgoing, Msg, Candidate
  <2>2. /\ r \in Name /\ answerer'[r] # "none"
        /\ \A k \in Recipient : answerer'[k] = "none" => answerer[k] = "none"
    BY <1>0, <1>10, NamesOfPeers DEF SendAnswer, TypeOK
  <2> QED
    BY <1>0, <1>10, <2>1, <2>2, SendOrdered DEF SendAnswer, Send
<1>11. CASE HandleAnswer
  <2>1. \A k \in Recipient : offerer'[k] = "none" => offerer[k] = "none"
    BY <1>0, <1>11 DEF HandleAnswer, TypeOK
  <2> QED
    BY <1>0, <1>11, <2>1, ShrinkOrdered DEF HandleAnswer, FromServer, Receive, TypeOK
<1>12. ASSUME NEW r \in Recipient, OffererFinds(r) PROVE Ordered'
  <2>1. Candidate(r) \in Outgoing(Creator) /\ Candidate(r).type = "ice-candidate" /\ Creator \in Name
    BY NamesOfPeers DEF Outgoing, Msg, Candidate
  <2>2. \A k \in Recipient : Candidate(r) = Candidate(k) => offerer[k] # "none"
    BY <1>12 DEF OffererFinds, Candidate, Msg
  <2> QED
    BY <1>0, <1>12, <2>1, <2>2, NamesOfPeers, SendOrdered DEF OffererFinds, Find, Send, Candidate
<1>13. ASSUME NEW r \in Recipient, AnswererFinds(r) PROVE Ordered'
  <2> DEFINE m == Msg("ice-candidate", r, Creator)
  <2>1. /\ m \in Outgoing(r) /\ m.type = "ice-candidate" /\ r \in Name
        /\ \A k \in Recipient : m # Candidate(k)
    BY NamesOfPeers DEF Outgoing, Msg, Candidate
  <2>2. answerer' = answerer /\ offerer' = offerer /\ toClient' = toClient /\ answerer[r] = "stable"
        /\ toServer' \in {toServer, [toServer EXCEPT ![r] = Append(@, m)]}
    BY <1>13 DEF AnswererFinds, Find, Send
  <2> HIDE DEF m
  <2> QED
    BY <1>0, <2>1, <2>2, SendOrdered
<1>14. ASSUME NEW r \in Recipient, OpenChannel(r) \/ LoseChannel(r) PROVE Ordered'
  BY <1>0, <1>14, ShrinkOrdered DEF OpenChannel, LoseChannel
<1>15. CASE UNCHANGED vars
  BY <1>0, <1>15, ShrinkOrdered DEF vars
<1> QED
  BY <1>1, <1>2, <1>3, <1>4, <1>5, <1>6, <1>7, <1>8, <1>9, <1>10, <1>11, <1>12, <1>13, <1>14, <1>15
  DEF Next, LoopStep

LEMMA NextClosed ==
  ASSUME ExchangeInv, ClosedAtTheEnd, [Next]_vars
  PROVE  ClosedAtTheEnd'
<1> USE DEF loopVars, serverVars, peerVars, ClosedAtTheEnd, Over, ExchangeInv, TypeOK
<1>1. CASE LoopStep
  BY <1>1 DEF LoopStep, StartServer, PortTaken, FirstWaitOver, SecondWaitOver, CreateOffer,
     CreateOfferFails, AlreadyOpen, WaitFails, SendSharedState, SendResolves, SendRejects,
     Finish, CrashProcess, LoopTo
<1>2. ASSUME NEW n \in Name, SocketOpens(n) \/ SocketLost(n) \/ ServeJoin(n) \/ Forward(n)
                            \/ HandleIceCandidate(n)
      PROVE  ClosedAtTheEnd'
  BY <1>2 DEF SocketOpens, SocketLost, ServeJoin, Forward, HandleIceCandidate
<1>3. ASSUME NEW r \in Recipient, HandleOffer(r) \/ SendAnswer(r) PROVE ClosedAtTheEnd'
  BY <1>3 DEF HandleOffer, SendAnswer
<1>4. CASE HandleAnswer
  BY <1>4 DEF HandleAnswer
<1>5. ASSUME NEW r \in Recipient, OffererFinds(r) \/ AnswererFinds(r) PROVE ClosedAtTheEnd'
  BY <1>5 DEF OffererFinds, AnswererFinds, Find
<1>6. ASSUME NEW r \in Recipient, OpenChannel(r) \/ LoseChannel(r) PROVE ClosedAtTheEnd'
  BY <1>6 DEF OpenChannel, LoseChannel, LoopTo, Running
<1>7. CASE HandlerRejects
  BY <1>7 DEF HandlerRejects, CrashProcess
<1>8. CASE UNCHANGED vars
  BY <1>8 DEF vars
<1> QED
  BY <1>1, <1>2, <1>3, <1>4, <1>5, <1>6, <1>7, <1>8 DEF Next

-----------------------------------------------------------------------------
(* The theorems *)

LEMMA ExchangeInvInit == Init => ExchangeInv
<1> SUFFICES ASSUME Init PROVE ExchangeInv
  OBVIOUS
<1>1. TypeOK
  BY NAssumption, EmptySeq DEF Init, TypeOK, Recipient, Name
<1>2. MessagesGoTheirWay
  BY EmptySeq DEF Init, MessagesGoTheirWay
<1>3. ASSUME NEW r \in Recipient PROVE OneOffer(r)
  BY NoOfferInEmpty, NamesOfPeers DEF Init, OneOffer
<1>4. NotYetOffered /\ Channels /\ SentIsStable
  BY DEF Init, NotYetOffered, Channels, SentIsStable, Over
<1> QED
  BY <1>1, <1>2, <1>3, <1>4 DEF ExchangeInv

LEMMA ExchangeInvStep == ExchangeInv /\ [Next]_vars => ExchangeInv'
<1> SUFFICES ASSUME ExchangeInv, [Next]_vars PROVE ExchangeInv'
  OBVIOUS
<1>1. TypeOK /\ Queued /\ Control /\ NotYetOffered /\ MessagesGoTheirWay
  BY DEF ExchangeInv, Queued, Control
<1>2. TypeOK'
  BY <1>1, NextType
<1>3. Queued'
  BY <1>1, NextQueued
<1>4. Control'
  BY <1>1, NextControl
<1> QED
  BY <1>2, <1>3, <1>4 DEF ExchangeInv, Queued, Control

THEOREM ExchangeInvariant == Spec => []ExchangeInv
BY ExchangeInvInit, ExchangeInvStep, PTL DEF Spec

\* The variables keep their types; a message that is passed on is always addressed
\* to a client of this exchange.
THEOREM ExchangeTypeCorrect == Spec => []TypeOK
<1>1. ExchangeInv => TypeOK
  BY DEF ExchangeInv
<1> QED
  BY <1>1, ExchangeInvariant, PTL

\* An offer is nowhere but in the two queues it passes.
LEMMA OffersAreHere ==
  ASSUME ExchangeInv, NEW r \in Recipient,
         NoOfferIn(toServer[Creator], r), NoOfferIn(toClient[r], r)
  PROVE  ~InFlight(Offer(r))
<1>1. ASSUME NEW n \in Name, NEW i \in DOMAIN toServer[n], toServer[n][i] = Offer(r) PROVE FALSE
  <2>1. toServer[n][i] \in Outgoing(n)
    BY ElementOfSeq DEF ExchangeInv, MessagesGoTheirWay
  <2>2. n = Creator
    BY <1>1, <2>1, OutgoingIs
  <2> QED
    BY <1>1, <2>2 DEF NoOfferIn
<1>2. ASSUME NEW n \in Name, NEW i \in DOMAIN toClient[n], toClient[n][i] = Offer(r) PROVE FALSE
  <2>1. toClient[n][i] \in Incoming(n)
    BY ElementOfSeq DEF ExchangeInv, MessagesGoTheirWay
  <2>2. n = r
    BY <1>2, <2>1, IncomingIs
  <2> QED
    BY <1>2, <2>2 DEF NoOfferIn
<1> QED
  BY <1>1, <1>2 DEF InFlight

\* When exchangeSharedStateViaWebRTC has returned, all connections and channels are
\* closed and no offer is on its way, for any number of recipients: each was sent
\* one offer and had answered it before its channel opened.
THEOREM NothingIsLeftAfterSuccess == Spec => []NothingLeftAfterSuccess
<1>1. ExchangeInv => NothingLeftAfterSuccess
  <2> SUFFICES ASSUME ExchangeInv, pc = "succeeded", NEW r \in Recipient
               PROVE  Closed(r) /\ ~InFlight(Offer(r))
    BY DEF NothingLeftAfterSuccess, Closed, Offer
  <2>1. Closed(r)
    BY DEF ExchangeInv, SentIsStable
  <2>2. NoOfferIn(toServer[Creator], r) /\ NoOfferIn(toClient[r], r)
    BY <2>1 DEF ExchangeInv, OneOffer, Closed
  <2> QED
    BY <2>1, <2>2, OffersAreHere
<1> QED
  BY <1>1, ExchangeInvariant, PTL

\* While the exchange runs, an answer or candidate finds the connection it is for,
\* unless the offer was lost: the recipient's queues hold no candidate ahead of an
\* offer, and the creator's none from a recipient that has not had one.
THEOREM MessagesFindTheirPeer == Spec => []FindsItsPeer
<1>1. ASSUME Init PROVE Ordered /\ ClosedAtTheEnd
  BY <1>1, NamesOfPeers DEF Init, Ordered, OfferFirst, SilentBefore, InOrder, NoOfferIn,
     NoCandidateIn, ClosedAtTheEnd
<1>2. ASSUME ExchangeInv, Ordered, ClosedAtTheEnd PROVE FindsItsPeer
  <2> SUFFICES ASSUME pc \in Running
               PROVE  /\ FromServer(Creator, "answer") => HasPeer(Creator, Head(toClient[Creator]).from)
                      /\ \A n \in Name : FromServer(n, "ice-candidate") =>
                           HasPeer(n, Head(toClient[n]).from) \/ (n # Creator /\ OfferLost(n))
    BY DEF FindsItsPeer
  <2>1. ASSUME NEW n \in Name, toClient[n] # <<>>
        PROVE  Head(toClient[n]) \in Incoming(n) /\ Head(toClient[n]) = toClient[n][1]
               /\ 1 \in DOMAIN toClient[n]
    <3>1. toClient[n] \in Seq(Incoming(n))
      BY <1>2 DEF ExchangeInv, MessagesGoTheirWay
    <3> QED
      BY <2>1, <3>1, TailElements
  <2>2. \A r \in Recipient :
          /\ offerer[r] # "none" => offerer[r] \in {"offered", "stable"}
          /\ answerer[r] # "none" => answerer[r] \in {"answering", "stable"}
    BY <1>2 DEF ClosedAtTheEnd, Running, Over, ExchangeInv, TypeOK
  <2>3. ASSUME toClient[Creator] # <<>> PROVE HasPeer(Creator, Head(toClient[Creator]).from)
    <3> DEFINE r == Head(toClient[Creator]).from
    <3>1. r \in Recipient /\ r = toClient[Creator][1].from /\ 1 \in DOMAIN toClient[Creator]
      BY <2>1, <2>3, IncomingIs, NamesOfPeers
    <3>2. answerer[r] # "none"
      BY <1>2, <3>1 DEF Ordered, SilentBefore
    <3>3. offerer[r] # "none"
      BY <1>2, <3>1, <3>2 DEF ExchangeInv, OneOffer
    <3> HIDE DEF r
    <3>4. offerer[r] \in {"offered", "stable"}
      BY <2>2, <3>1, <3>3
    <3> QED
      BY <3>4 DEF HasPeer, r
  <2>4. ASSUME NEW r \in Recipient, FromServer(r, "ice-candidate")
        PROVE  HasPeer(r, Head(toClient[r]).from) \/ OfferLost(r)
    <3>1. /\ toClient[r] # <<>> /\ Head(toClient[r]).type = "ice-candidate"
          /\ r \in Name /\ r # Creator /\ Creator \in Name
      BY <2>4, NamesOfPeers DEF FromServer
    <3>2. Head(toClient[r]) = Candidate(r) /\ ~NoCandidateIn(toClient[r], r)
      <4>1. /\ Head(toClient[r]) \in Incoming(r) /\ Head(toClient[r]) = toClient[r][1]
            /\ 1 \in DOMAIN toClient[r]
        BY <2>1, <3>1
      <4>2. PICK t \in {"offer", "ice-candidate"} : Head(toClient[r]) = Msg(t, Creator, r)
        BY <3>1, <4>1 DEF Incoming
      <4>3. t = "ice-candidate"
        BY <3>1, <4>2 DEF Msg
      <4> QED
        BY <4>1, <4>2, <4>3 DEF Candidate, NoCandidateIn
    <3>3. /\ toClient[r] \in Seq(Incoming(r)) /\ AtMostOneOfferIn(toClient[r], r)
          /\ OfferFirst(r)
      BY <1>2, <3>1 DEF ExchangeInv, OneOffer, MessagesGoTheirWay, Ordered
    <3>4. /\ offerer[r] # "none"
          /\ NoOfferIn(toServer[Creator], r) /\ NoOfferIn(toClient[r], r)
      BY <3>1, <3>2, <3>3, OrderAfterTail DEF OfferFirst
    <3>5. ~InFlight(Offer(r))
      BY <1>2, <3>4, OffersAreHere
    <3>6. CASE answerer[r] = "none"
      BY <3>4, <3>5, <3>6 DEF OfferLost, Offer
    <3>7. CASE answerer[r] # "none"
      <4>1. answerer[r] \in {"answering", "stable"}
        BY <2>2, <3>7
      <4> QED
        BY <3>1, <4>1 DEF HasPeer
    <3> QED
      BY <3>6, <3>7
  <2> QED
    BY <2>3, <2>4, NamesOfPeers DEF FromServer
<1> QED
  BY <1>1, <1>2, ExchangeInvariant, NextOrdered, NextClosed, PTL DEF Spec

\* Every step of the exchange is a step of what createMultisig relies on, or leaves
\* it as it is.
LEMMA StepKeepsPromise ==
  ExchangeInv /\ [Next]_vars => [Promise!Next]_<<Outcome, sent>>
<1> SUFFICES ASSUME ExchangeInv, [Next]_vars PROVE [Promise!Next]_<<Outcome, sent>>
  OBVIOUS
<1> USE DEF Outcome
<1>1. CASE UNCHANGED <<pc, sent>>
  BY <1>1
<1>2. CASE /\ pc \notin Over /\ pc' \notin Over /\ sent' = sent
  BY <1>2 DEF Over
<1>3. CASE pc \notin Over /\ pc' \in {"failed", "crashed"} /\ sent' = sent
  BY <1>3 DEF Over, Promise!Next, Promise!Throw
<1>4. CASE LoopStep
  <2>1. CASE StartServer \/ FirstWaitOver \/ SecondWaitOver
    BY <1>2, <2>1 DEF StartServer, FirstWaitOver, SecondWaitOver, Over
  <2>2. CASE PortTaken
    BY <1>3, <2>2 DEF PortTaken, CrashProcess, Over
  <2>3. CASE CreateOffer \/ AlreadyOpen
    BY <1>2, <2>3 DEF CreateOffer, AlreadyOpen, LoopTo, Over
  <2>4. CASE CreateOfferFails \/ WaitFails \/ SendRejects
    BY <1>3, <2>4 DEF CreateOfferFails, WaitFails, SendRejects, Finish, Over
  <2>5. CASE SendResolves
    BY <2>5 DEF SendResolves, AllSent, Finish, Promise!Next, Promise!Return
  <2>6. CASE SendSharedState
    <3>1. sent = {} /\ sent' \subseteq Recipient /\ Outcome = "running" /\ Outcome' = "running"
      BY <2>6 DEF SendSharedState, ExchangeInv, SentIsStable, Over
    <3>2. Promise!Hand(sent')
      BY <3>1 DEF Promise!Hand
    <3> QED
      BY <3>1, <3>2 DEF Promise!Next
  <2> QED
    BY <1>4, <2>1, <2>2, <2>3, <2>4, <2>5, <2>6 DEF LoopStep
<1>5. ASSUME NEW r \in Recipient, OpenChannel(r) \/ LoseChannel(r)
      PROVE  [Promise!Next]_<<Outcome, sent>>
  <2>1. CASE OpenChannel(r)
    BY <1>1, <1>2, <2>1 DEF OpenChannel, LoopTo, Over, Running
  <2>2. CASE LoseChannel(r)
    BY <1>1, <2>2 DEF LoseChannel, loopVars
  <2> QED
    BY <1>5, <2>1, <2>2
<1>6. CASE HandlerRejects
  <2>1. pc # "crashed" /\ pc' = "crashed" /\ sent' = sent
    BY <1>6 DEF HandlerRejects, CrashProcess
  <2>2. pc # "succeeded"
    <3> SUFFICES ASSUME pc = "succeeded" PROVE FALSE
      OBVIOUS
    <3>1. \A r \in Recipient : offerer[r] = "closed" /\ answerer[r] = "closed"
      BY DEF ExchangeInv, SentIsStable, Closed
    <3>2. FromServer(Creator, "answer") => Head(toClient[Creator]).from \in Recipient
      <4> SUFFICES ASSUME FromServer(Creator, "answer") PROVE Head(toClient[Creator]).from \in Recipient
        OBVIOUS
      <4>1. Head(toClient[Creator]) \in Incoming(Creator)
        BY TailElements, NamesOfPeers DEF FromServer, ExchangeInv, MessagesGoTheirWay
      <4> QED
        BY <4>1, IncomingIs, NamesOfPeers
    <3> QED
      BY <1>6, <3>1, <3>2 DEF HandlerRejects
  <2>3. CASE pc = "failed"
    BY <2>1, <2>3
  <2>4. CASE pc # "failed"
    BY <1>3, <2>1, <2>2, <2>4 DEF Over
  <2> QED
    BY <2>3, <2>4
<1>7. ASSUME NEW n \in Name, SocketOpens(n) \/ SocketLost(n) \/ ServeJoin(n) \/ Forward(n)
                            \/ HandleIceCandidate(n)
      PROVE  [Promise!Next]_<<Outcome, sent>>
  BY <1>1, <1>7 DEF SocketOpens, SocketLost, ServeJoin, Forward, HandleIceCandidate, loopVars
<1>8. ASSUME NEW r \in Recipient, HandleOffer(r) \/ SendAnswer(r) \/ OffererFinds(r) \/ AnswererFinds(r)
      PROVE  [Promise!Next]_<<Outcome, sent>>
  BY <1>1, <1>8 DEF HandleOffer, SendAnswer, OffererFinds, AnswererFinds, Find, loopVars
<1>9. CASE HandleAnswer
  BY <1>1, <1>9 DEF HandleAnswer, loopVars
<1>10. CASE UNCHANGED vars
  BY <1>1, <1>10 DEF vars
<1> QED
  BY <1>4, <1>5, <1>6, <1>7, <1>8, <1>9, <1>10 DEF Next

\* The exchange implements what createMultisig relies on, for any number of
\* recipients: it returns only when every one was handed the keys, and hands
\* nothing out, nor fails, once it has returned.
THEOREM ExchangeImplementsPromise == Spec => ImplementsPromise
<1>1. Init => Promise!Init
  BY DEF Init, Promise!Init, Outcome
<1> QED
  BY <1>1, ExchangeInvariant, StepKeepsPromise, PTL DEF Spec, ImplementsPromise, Promise!Spec

-----------------------------------------------------------------------------
(* Progress: the safety half of ExchangeEnds *)

\* What is left, place by place.
LEMMA StepsLeftAt ==
  /\ pc = "start" => StepsLeft = 2 * N + 5
  /\ pc = "first wait" => StepsLeft = 2 * N + 4
  /\ pc = "second wait" => StepsLeft = 2 * N + 3
  /\ pc = "offering" => StepsLeft = 2 * N + 3 - next
  /\ pc = "waiting" => StepsLeft = N + 3 - next
  /\ pc = "sending" => StepsLeft = 2
  /\ pc = "sent" => StepsLeft = 1
  /\ pc \in Over => StepsLeft = 0
BY DEF StepsLeft, Over

LEMMA StepsLeftThen ==
  /\ pc' = "first wait" => StepsLeft' = 2 * N + 4
  /\ pc' = "second wait" => StepsLeft' = 2 * N + 3
  /\ pc' = "offering" => StepsLeft' = 2 * N + 3 - next'
  /\ pc' = "waiting" => StepsLeft' = N + 3 - next'
  /\ pc' = "sending" => StepsLeft' = 2
  /\ pc' = "sent" => StepsLeft' = 1
BY DEF StepsLeft

\* One recipient further, or on to the next loop, is one step less.
LEMMA LoopToAdvances ==
  ASSUME TypeOK,
         \/ pc = "offering" /\ LoopTo("waiting")
         \/ pc = "waiting" /\ LoopTo("sending")
  PROVE  StepsLeft' \in Int /\ StepsLeft' < StepsLeft
<1>1. N \in Nat /\ next \in Int /\ next >= 1 /\ next <= N
  BY NAssumption DEF TypeOK, Recipient
<1>2. CASE pc = "offering" /\ next = N
  <2>1. StepsLeft = 2 * N + 3 - N
    BY <1>2, StepsLeftAt
  <2>2. pc' = "waiting" /\ next' = 1
    BY <1>2 DEF LoopTo
  <2>3. StepsLeft' = N + 3 - 1
    BY <2>2, StepsLeftThen
  <2> QED
    BY <1>1, <2>1, <2>3
<1>3. CASE pc = "waiting" /\ next = N
  <2>1. StepsLeft = N + 3 - N
    BY <1>3, StepsLeftAt
  <2>2. pc' = "sending"
    BY <1>3 DEF LoopTo
  <2>3. StepsLeft' = 2
    BY <2>2, StepsLeftThen
  <2> QED
    BY <1>1, <2>1, <2>3
<1>4. CASE pc = "offering" /\ next # N
  <2>1. StepsLeft = 2 * N + 3 - next
    BY <1>4, StepsLeftAt
  <2>2. pc' = "offering" /\ next' = next + 1
    BY <1>4 DEF LoopTo
  <2>3. StepsLeft' = 2 * N + 3 - (next + 1)
    BY <2>2, StepsLeftThen
  <2> QED
    BY <1>1, <2>1, <2>3
<1>5. CASE pc = "waiting" /\ next # N
  <2>1. StepsLeft = N + 3 - next
    BY <1>5, StepsLeftAt
  <2>2. pc' = "waiting" /\ next' = next + 1
    BY <1>5 DEF LoopTo
  <2>3. StepsLeft' = N + 3 - (next + 1)
    BY <2>2, StepsLeftThen
  <2> QED
    BY <1>1, <2>1, <2>3
<1> QED
  BY <1>2, <1>3, <1>4, <1>5

\* No step is left when the exchange is over, and some is before.
LEMMA StepsLeftPositive ==
  ASSUME TypeOK
  PROVE  /\ StepsLeft \in Nat
         /\ pc \notin Over => StepsLeft > 0
<1> DEFINE left == StepsLeft
<1>1. N \in Nat /\ next \in Int /\ next >= 1 /\ next <= N
  BY NAssumption DEF TypeOK, Recipient
<1>2. \/ left = 2 * N + 5
      \/ left = 2 * N + 4
      \/ left = 2 * N + 3
      \/ left = 2 * N + 3 - next
      \/ left = N + 3 - next
      \/ left = 2
      \/ left = 1
      \/ left = 0 /\ pc \in Over
  <2>1. pc \in {"start"} \cup Running \cup Over
    BY DEF TypeOK
  <2> QED
    BY <2>1, StepsLeftAt DEF Running
<1> HIDE DEF left
<1>3. left \in Nat /\ (pc \notin Over => left > 0)
  BY <1>1, <1>2
<1> QED
  BY <1>3 DEF left

LEMMA OverIsZero == pc' \in Over => StepsLeft' = 0
BY DEF Over, StepsLeft

\* Each step of exchangeSharedStateViaWebRTC brings it nearer to its end.
LEMMA LoopStepAdvances ==
  ASSUME TypeOK, LoopStep
  PROVE  StepsLeft' \in Int /\ StepsLeft' < StepsLeft
<1>1. N \in Nat /\ next \in Int /\ next >= 1 /\ next <= N
  BY NAssumption DEF TypeOK, Recipient
<1>2. ASSUME pc' \in Over, pc \notin Over
      PROVE  StepsLeft' \in Int /\ StepsLeft' < StepsLeft
  <2>1. StepsLeft' = 0
    BY <1>2, OverIsZero
  <2>2. StepsLeft \in Nat /\ StepsLeft > 0
    BY <1>2, StepsLeftPositive
  <2> QED
    BY <2>1, <2>2
<1>3. CASE PortTaken \/ CreateOfferFails \/ WaitFails \/ SendResolves \/ SendRejects
  BY <1>2, <1>3 DEF PortTaken, CrashProcess, CreateOfferFails, WaitFails, SendResolves,
     SendRejects, Finish, Over
<1>4. CASE StartServer
  <2>1. StepsLeft = 2 * N + 5
    BY <1>4, StepsLeftAt DEF StartServer
  <2>2. StepsLeft' = 2 * N + 4
    BY <1>4, StepsLeftThen DEF StartServer
  <2> QED
    BY <1>1, <2>1, <2>2
<1>5. CASE FirstWaitOver
  <2>1. StepsLeft = 2 * N + 4
    BY <1>5, StepsLeftAt DEF FirstWaitOver
  <2>2. StepsLeft' = 2 * N + 3
    BY <1>5, StepsLeftThen DEF FirstWaitOver
  <2> QED
    BY <1>1, <2>1, <2>2
<1>6. CASE SecondWaitOver
  <2>1. StepsLeft = 2 * N + 3
    BY <1>6, StepsLeftAt DEF SecondWaitOver
  <2>2. pc' = "offering" /\ next' = next
    BY <1>6 DEF SecondWaitOver
  <2>3. StepsLeft' = 2 * N + 3 - next
    BY <2>2, StepsLeftThen
  <2> QED
    BY <1>1, <2>1, <2>3
<1>7. CASE CreateOffer
  BY <1>7, LoopToAdvances DEF CreateOffer
<1>8. CASE AlreadyOpen
  BY <1>8, LoopToAdvances DEF AlreadyOpen
<1>9. CASE SendSharedState
  <2>1. StepsLeft = 2 /\ StepsLeft' = 1
    BY <1>9, StepsLeftAt, StepsLeftThen DEF SendSharedState
  <2> QED
    BY <2>1
<1> QED
  BY <1>3, <1>4, <1>5, <1>6, <1>7, <1>8, <1>9 DEF LoopStep

\* The loop is over after 2N + 5 steps, for any number of recipients, and no
\* socket, server, handler or channel sets it back.
THEOREM LoopOnlyAdvances == Spec => LoopAdvances
<1>1. TypeOK /\ [Next]_vars =>
        [StepsLeft' <= StepsLeft /\ (LoopStep => StepsLeft' < StepsLeft)]_vars
  <2> SUFFICES ASSUME TypeOK, Next
               PROVE  StepsLeft' <= StepsLeft /\ (LoopStep => StepsLeft' < StepsLeft)
    OBVIOUS
  <2>1. StepsLeft \in Nat
    BY StepsLeftPositive
  <2>2. LoopStep => StepsLeft' \in Int /\ StepsLeft' < StepsLeft
    BY LoopStepAdvances
  <2>3. ASSUME UNCHANGED <<pc, next>> PROVE StepsLeft' = StepsLeft
    BY <2>3 DEF StepsLeft
  <2>4. ASSUME NEW r \in Recipient, OpenChannel(r), ~UNCHANGED <<pc, next>>
        PROVE  StepsLeft' \in Int /\ StepsLeft' < StepsLeft
    BY <2>4, LoopToAdvances DEF OpenChannel
  <2>5. ASSUME HandlerRejects PROVE StepsLeft' = 0
    BY <2>5, OverIsZero DEF HandlerRejects, CrashProcess, Over
  <2>6. ASSUME NEW n \in Name,
               SocketOpens(n) \/ SocketLost(n) \/ ServeJoin(n) \/ Forward(n) \/ HandleIceCandidate(n)
        PROVE  UNCHANGED <<pc, next>>
    BY <2>6 DEF SocketOpens, SocketLost, ServeJoin, Forward, HandleIceCandidate, loopVars
  <2>7. ASSUME NEW r \in Recipient,
               \/ HandleOffer(r) \/ SendAnswer(r) \/ OffererFinds(r) \/ AnswererFinds(r)
               \/ LoseChannel(r)
        PROVE  UNCHANGED <<pc, next>>
    BY <2>7 DEF HandleOffer, SendAnswer, OffererFinds, AnswererFinds, Find, LoseChannel, loopVars
  <2>8. HandleAnswer => UNCHANGED <<pc, next>>
    BY DEF HandleAnswer, loopVars
  <2>9. StepsLeft' <= StepsLeft
    <3>1. LoopStep \/ HandlerRejects \/ UNCHANGED <<pc, next>> \/ \E r \in Recipient : OpenChannel(r)
      BY <2>6, <2>7, <2>8 DEF Next
    <3> QED
      BY <2>1, <2>2, <2>3, <2>4, <2>5, <3>1
  <2> QED
    BY <2>2, <2>9
<1> QED
  BY <1>1, ExchangeTypeCorrect, PTL DEF Spec, LoopAdvances
=============================================================================
