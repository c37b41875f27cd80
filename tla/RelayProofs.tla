---------------------------- MODULE RelayProofs -----------------------------
(***************************************************************************)
(* Theorems about Relay, for every protocol, first chunk and mode, and for *)
(* any number of chunks and of replies: neither direction of a tunnel is   *)
(* reordered, thinned or mixed by a retry.                                 *)
(***************************************************************************)
EXTENDS Relay, TLAPS

\* Chunks that have left the readable stream, for a socket or for nowhere.
Taken == sent - Len(inbox)

UpType     == [state : {"idle", "writing", "closed", "errored"}, chunk : Nat,
               to : Sockets \cup {Nobody}]
SocketType == [state : {"none", "open", "closed"}, locked : BOOLEAN, got : Seq(Nat),
               pipe : {"none", "awaits", "runs", "ended", "failed"}, replies : Nat]
ReplyType  == [from : Sockets \cup {Nobody}, n : Nat, headed : BOOLEAN]
Routes     == {"none", "tcp", "resolving", "abandoned", "dns", "dns failed"}

Types ==
    /\ protocol \in Protocols /\ header \in Headers
    /\ ws \in {"open", "closed"}
    /\ sent \in Nat /\ inbox \in Seq(Nat) /\ Len(inbox) <= sent
    /\ up \in UpType
    /\ route \in Routes
    /\ value \in Sockets \cup {Nobody}
    /\ socket \in [Sockets -> SocketType]
    /\ queries \in Seq(Nat)
    /\ down \in Seq(ReplyType)

\* The readable stream holds what was sent last, in order.
Numbered ==
    /\ \A i \in 1..Len(inbox) : inbox[i] = Taken + i
    /\ up.state = "errored" => inbox = <<>> /\ (ws = "closed" \/ route = "none")

\* The sockets there are go with the value of remoteSocket and with the route; a second one
\* is made, or asked for, once the pipe of a silent first one is over.
Made ==
    \A s \in Sockets : /\ socket[s].pipe = "none" <=> value < s
                       /\ socket[s].pipe = "none" => socket[s] = NoSocket
Routed == value = Nobody <=> route \in {"none", "dns", "dns failed"}
InTurn ==
    /\ value = Retried \/ route \in {"resolving", "abandoned"} =>
         socket[Direct].pipe = "ended" /\ socket[Direct].replies = 0
    /\ route \in {"resolving", "abandoned"} => value # Retried
Started ==
    \A s \in Sockets :
      /\ socket[s].pipe \in {"awaits", "failed"} =>
           socket[s].locked /\ socket[s].got = <<>> /\ socket[s].replies = 0
      /\ socket[s].pipe \in {"runs", "ended"} => socket[s].got # <<>>
Plumbing == Made /\ Routed /\ InTurn /\ Started

\* What a socket got is what was taken, and what is being written to it comes next.
Begun ==
    /\ route = "none" /\ up.state # "errored" => Taken = 0
    /\ value # Nobody => Taken >= 1
Sorted(chunks, last) ==
    /\ chunks # <<>> => chunks[1] = 1
    /\ Increasing(chunks)
    /\ \A i \in DOMAIN chunks : chunks[i] <= last
Ordered == \A s \in Sockets : Sorted(socket[s].got, Taken)
Writing ==
    /\ up.state = "writing" =>
         /\ up.to \in Sockets /\ socket[up.to].pipe \in {"runs", "ended"}
         /\ up.chunk = Taken
         /\ \A i \in DOMAIN socket[up.to].got : socket[up.to].got[i] < up.chunk
    /\ up.state # "writing" => up.chunk = Nobody
Upwards == Begun /\ Ordered /\ Writing

\* Everything taken has been written, or is in hand.
Got(n)   == \E s \in Sockets : n \in Range(socket[s].got)
Going(n) == n = up.chunk \/ (n = 1 /\ \E s \in Sockets : socket[s].pipe = "awaits")
Covered ==
    route \in {"tcp", "resolving"} /\ up.state # "errored" /\ ws = "open" =>
      \A n \in 1..Taken : Got(n) \/ Going(n)

\* What the client is sent, by DNS and by a socket.
Downwards ==
    /\ \A i \in DOMAIN down : down[i].n = i /\ down[i].headed = (i = 1 /\ protocol = "vless")
    /\ route = "none" => down = <<>>
    /\ route \notin {"dns", "dns failed"} => queries = <<>>
    /\ route \in {"dns", "dns failed"} =>
         protocol = "vless" /\ \A i \in DOMAIN down : down[i].from = Nobody
    /\ route = "dns" /\ ws = "open" =>
         /\ Len(down) + Len(queries) = Taken
         /\ \A i \in 1..Len(queries) : queries[i] = Len(down) + i
    /\ value # Nobody =>
         /\ \A i \in DOMAIN down : down[i].from \in Sockets /\ socket[down[i].from].replies > 0
         /\ ws = "open" => Len(down) = socket[Direct].replies + socket[Retried].replies

Inv == Types /\ Numbered /\ Plumbing /\ Upwards /\ Covered /\ Downwards

-----------------------------------------------------------------------------
(***************************************************************************)
(* Sequences.                                                              *)
(***************************************************************************)
LEMMA AppendFacts ==
    ASSUME NEW S, NEW q \in Seq(S), NEW x \in S
    PROVE  /\ Append(q, x) \in Seq(S)
           /\ Len(Append(q, x)) = Len(q) + 1
           /\ \A i \in 1..Len(q) : Append(q, x)[i] = q[i]
           /\ Append(q, x)[Len(q) + 1] = x
           /\ DOMAIN Append(q, x) = 1..(Len(q) + 1)
           /\ Append(q, x) # <<>>
           /\ Range(Append(q, x)) = Range(q) \cup {x}
<1> DEFINE a == Append(q, x)
<1>1. a \in Seq(S) /\ Len(a) = Len(q) + 1 /\ Len(q) \in Nat
  OBVIOUS
<1>2. \A i \in 1..Len(q) : a[i] = q[i]
  OBVIOUS
<1>3. a[Len(q) + 1] = x
  OBVIOUS
<1>4. DOMAIN a = 1..(Len(q) + 1) /\ DOMAIN q = 1..Len(q)
  OBVIOUS
<1> HIDE DEF a
<1>5. a # <<>>
  BY <1>1
<1>6. Range(a) = Range(q) \cup {x}
  BY <1>1, <1>2, <1>3, <1>4 DEF Range
<1> QED BY <1>1, <1>2, <1>3, <1>4, <1>5, <1>6 DEF a

\* What is left of a queue when its head is taken.
LEMMA TailFacts ==
    ASSUME NEW S, NEW q \in Seq(S), q # <<>>
    PROVE  /\ Len(q) >= 1 /\ Head(q) = q[1] /\ q[1] \in S
           /\ Tail(q) \in Seq(S)
           /\ Len(Tail(q)) = Len(q) - 1
           /\ \A i \in 1..(Len(q) - 1) : Tail(q)[i] = q[i + 1]
OBVIOUS

-----------------------------------------------------------------------------
\* The states a socket and the upstream writer are put in are of their types.
LEMMA Constructors ==
    /\ Idle \in UpType /\ Idle.state = "idle" /\ Idle.chunk = 0
    /\ \A t \in {"closed", "errored"} :
         Over(t) \in UpType /\ Over(t).state = t /\ Over(t).chunk = 0
    /\ NoSocket \in SocketType
    /\ NoSocket.got = <<>> /\ NoSocket.pipe = "none" /\ NoSocket.replies = 0
    /\ Connecting \in SocketType
    /\ Connecting.state = "open" /\ Connecting.locked /\ Connecting.got = <<>>
    /\ Connecting.pipe = "awaits" /\ Connecting.replies = 0
    /\ Direct \in Sockets /\ Retried \in Sockets
<1>1. <<>> \in Seq(Nat)
  OBVIOUS
<1>2. Idle \in UpType /\ Idle.state = "idle" /\ Idle.chunk = 0
  BY DEF Idle, Nobody, UpType
<1>3. ASSUME NEW t \in {"closed", "errored"}
      PROVE  Over(t) \in UpType /\ Over(t).state = t /\ Over(t).chunk = 0
  BY DEF Over, Idle, Nobody, UpType
<1>4. NoSocket \in SocketType /\ Connecting \in SocketType
  BY <1>1 DEF NoSocket, Connecting, SocketType
<1>5. Connecting.locked
  BY DEF Connecting, NoSocket
<1>6. /\ Connecting.state = "open" /\ Connecting.got = <<>>
      /\ Connecting.pipe = "awaits" /\ Connecting.replies = 0
  BY DEF Connecting, NoSocket
<1> QED BY <1>2, <1>3, <1>4, <1>5, <1>6 DEF NoSocket, Sockets, Direct, Retried

\* A tunnel that has just been asked for is as it should be.
LEMMA InitInv == RelayInit => Inv
<1> SUFFICES ASSUME RelayInit PROVE Inv
  OBVIOUS
<1>1. /\ socket = [s \in Sockets |-> NoSocket] /\ value = Nobody /\ route = "none"
      /\ queries = <<>> /\ down = <<>> /\ ws = "open"
      /\ up \in {Idle, Over("errored")} /\ inbox \in {<<>>, <<1>>}
      /\ (up = Idle \/ inbox = <<>>) /\ sent = Len(inbox)
  BY DEF RelayInit
<1>2. /\ Idle.state = "idle" /\ Idle.chunk = 0
      /\ Over("errored").state = "errored" /\ Over("errored").chunk = 0
  BY Constructors
<1>3. inbox \in Seq(Nat) /\ Len(inbox) \in Nat /\ Taken = 0 /\ \A i \in 1..Len(inbox) : inbox[i] = i
  <2>1. CASE inbox = <<>>
    BY <1>1, <2>1 DEF Taken
  <2>2. CASE inbox = <<1>>
    <3>1. Len(<<1>>) = 1 /\ <<1>>[1] = 1 /\ <<1>> \in Seq(Nat)
      OBVIOUS
    <3> QED BY <1>1, <2>2, <3>1 DEF Taken
  <2> QED BY <1>1, <2>1, <2>2
<1>4. Types
  BY <1>1, <1>3, Constructors DEF RelayInit, Types, Routes
<1>5. Numbered
  BY <1>1, <1>2, <1>3 DEF Numbered
<1>6. Plumbing
  BY <1>1 DEF Plumbing, Made, Routed, InTurn, Started, NoSocket, Sockets, Direct, Retried, Nobody
<1>7. Upwards
  BY <1>1, <1>2, <1>3 DEF Upwards, Begun, Ordered, Sorted, Writing, NoSocket, Nobody, Increasing
<1>8. Covered /\ Downwards
  BY <1>1 DEF Covered, Downwards
<1> QED BY <1>4, <1>5, <1>6, <1>7, <1>8 DEF Inv

\* A request asks for TCP or DNS, DNS only in VLESS, or cannot be read.
LEMMA AskedType ==
    ASSUME Types
    PROVE  Asked \in {"tcp", "dns", "error"} /\ (Asked = "dns" => protocol = "vless")
BY RelayAssumption DEF Types, Asked, ParseVlHeader, ParseTrHeader, Fields

-----------------------------------------------------------------------------
(***************************************************************************)
(* Each part of the invariant is kept.                                     *)
(***************************************************************************)
\* A pipe that fails changes no more of the sockets than the state of one.
LEMMA UpFailsFacts ==
    ASSUME Types, UpFails(value)
    PROVE  /\ up' \in UpType /\ up'.state = "errored" /\ up'.chunk = 0
           /\ inbox' = <<>> /\ inbox' \in Seq(Nat) /\ Len(inbox') = 0
           /\ ws' = "closed"
           /\ socket' \in [Sockets -> SocketType]
           /\ \A s \in Sockets : /\ socket'[s].locked = socket[s].locked
                                 /\ socket'[s].got = socket[s].got
                                 /\ socket'[s].pipe = socket[s].pipe
                                 /\ socket'[s].replies = socket[s].replies
                                 /\ s # value => socket'[s] = socket[s]
<1>1. up' \in UpType /\ up'.state = "errored" /\ up'.chunk = 0
  BY Constructors DEF UpFails
<1>2. inbox' = <<>> /\ inbox' \in Seq(Nat) /\ Len(inbox') = 0 /\ ws' = "closed"
  BY DEF UpFails
<1>3. socket' = Closed(socket, value)
  BY DEF UpFails
<1>4. socket' \in [Sockets -> SocketType]
  BY <1>3 DEF Types, Closed, SocketType
<1>5. ASSUME NEW s \in Sockets
      PROVE  /\ socket'[s].locked = socket[s].locked
             /\ socket'[s].got = socket[s].got
             /\ socket'[s].pipe = socket[s].pipe
             /\ socket'[s].replies = socket[s].replies
             /\ s # value => socket'[s] = socket[s]
  BY <1>3 DEF Types, Closed, SocketType
<1> QED BY <1>1, <1>2, <1>4, <1>5

\* What may become of a chunk.
TakesFails == UpFails(value) /\ UNCHANGED <<route, value, queries>>
TakesTcp ==
    /\ route = "none" /\ route' = "tcp" /\ value' = Direct
    /\ socket' = [socket EXCEPT ![Direct] = Connecting]
    /\ inbox' = Tail(inbox) /\ UNCHANGED <<up, ws, queries>>
TakesDns ==
    /\ route = "none" /\ protocol = "vless" /\ route' = "dns" /\ queries' = <<Head(inbox)>>
    /\ inbox' = Tail(inbox) /\ UNCHANGED <<up, ws, value, socket>>
TakesQuery ==
    /\ route = "dns" /\ queries' = Append(queries, Head(inbox))
    /\ inbox' = Tail(inbox) /\ UNCHANGED <<up, ws, route, value, socket>>
TakesLater ==
    /\ value \in Sockets /\ ~socket[value].locked
    /\ up' = [state |-> "writing", chunk |-> Head(inbox), to |-> value]
    /\ socket' = [socket EXCEPT ![value].locked = TRUE]
    /\ inbox' = Tail(inbox) /\ UNCHANGED <<ws, route, value, queries>>

\* What happens to a chunk taken from the client is one of five things.
LEMMA TakeCases ==
    ASSUME Types, Plumbing, TakeChunk
    PROVE  /\ up.state = "idle" /\ inbox # <<>>
           /\ UNCHANGED <<inputVars, client, sent, finished, down>>
           /\ TakesFails \/ TakesTcp \/ TakesDns \/ TakesQuery \/ TakesLater
<1>1. CASE route = "none" /\ TakeFirst
  BY <1>1, AskedType DEF TakeChunk, TakeFirst, TakesFails, TakesTcp, TakesDns
<1>2. CASE route \in {"dns", "dns failed"} /\ TakeQuery /\ UNCHANGED <<route, value>>
  BY <1>2 DEF TakeChunk, TakeQuery, TakesFails, TakesQuery
<1>3. CASE route \notin {"none", "dns", "dns failed"} /\ TakeLater /\ UNCHANGED <<route, value, queries>>
  <2>1. value \in Sockets
    BY <1>3 DEF Types, Plumbing, Routed
  <2> QED BY <1>3, <2>1 DEF TakeChunk, TakeLater, TakesFails, TakesLater
<1> QED BY <1>1, <1>2, <1>3 DEF TakeChunk

\* The sockets after a chunk that goes to one.
LEMMA LaterFacts ==
    ASSUME Types, inbox # <<>>, TakesLater
    PROVE  /\ up' \in UpType /\ up'.state = "writing" /\ up'.chunk = inbox[1] /\ up'.to = value
           /\ socket' \in [Sockets -> SocketType]
           /\ \A s \in Sockets : /\ socket'[s].got = socket[s].got
                                 /\ socket'[s].pipe = socket[s].pipe
                                 /\ socket'[s].replies = socket[s].replies
                                 /\ s # value => socket'[s] = socket[s]
           /\ socket'[value].locked
<1>1. Head(inbox) = inbox[1] /\ inbox[1] \in Nat
  BY TailFacts DEF Types
<1>2. up' \in UpType /\ up'.state = "writing" /\ up'.chunk = inbox[1] /\ up'.to = value
  BY <1>1 DEF TakesLater, UpType
<1>3. socket' \in [Sockets -> SocketType]
  BY DEF TakesLater, Types, SocketType
<1>4. ASSUME NEW s \in Sockets
      PROVE  /\ socket'[s].got = socket[s].got
             /\ socket'[s].pipe = socket[s].pipe
             /\ socket'[s].replies = socket[s].replies
             /\ s # value => socket'[s] = socket[s]
  BY DEF TakesLater, Types, SocketType
<1>5. socket'[value].locked
  BY DEF TakesLater, Types, SocketType
<1> QED BY <1>2, <1>3, <1>4, <1>5

\* A socket that there is has been reached by the route of a tunnel.
LEMMA ValueFacts ==
    ASSUME Types, Plumbing, NEW s \in Sockets, socket[s].pipe # "none"
    PROVE  value # Nobody /\ route \in {"tcp", "resolving", "abandoned"} /\ s <= value
<1>1. value \in {0, 1, 2} /\ s \in {1, 2}
  BY DEF Types, Sockets, Direct, Retried, Nobody
<1>2. ~(value < s)
  BY DEF Plumbing, Made
<1>3. value # Nobody /\ s <= value
  BY <1>1, <1>2 DEF Nobody
<1> QED BY <1>3 DEF Plumbing, Routed, Types, Routes

\* What may become of a tunnel when the pipe of a socket is over.
PipeOver(s) ==
    /\ s \in Sockets /\ socket[s].pipe = "runs"
    /\ Retry(WithEnded(s), s, ws) \/ Retry(WithEnded(s), s, "closed")
    /\ UNCHANGED <<inputVars, client, sent, inbox, finished, up, queries, down>>

\* However a remote side ends, its pipe is over.
LEMMA PipesAreOver ==
    ASSUME NEW s \in Sockets, PipeEnds(s) \/ RemoteEnds(s) \/ RemoteResets(s)
    PROVE  PipeOver(s)
BY DEF PipeEnds, RemoteEnds, RemoteResets, PipeOver

\* A pipe that is over leaves the other sockets alone, but may let the retry begin.
LEMMA PipeOverFacts ==
    ASSUME Types, Plumbing, NEW s, PipeOver(s)
    PROVE  /\ socket' \in [Sockets -> SocketType]
           /\ socket'[s].pipe = "ended" /\ socket'[s].got = socket[s].got
           /\ socket'[s].replies = socket[s].replies
           /\ ws' \in {ws, "closed"}
           /\ \/ /\ \A t \in Sockets \ {s} : socket'[t] = socket[t]
                 /\ UNCHANGED <<route, value>>
              \/ /\ s = Direct /\ socket[s].replies = 0 /\ route' = "resolving" /\ value' = value
                 /\ \A t \in Sockets \ {s} : socket'[t] = socket[t]
              \/ /\ s = Direct /\ socket[s].replies = 0 /\ value' = Retried /\ route' = route
                 /\ socket'[Retried] = Connecting
<1> DEFINE e == WithEnded(s)
<1>1. /\ e \in [Sockets -> SocketType] /\ e[s].pipe = "ended" /\ e[s].got = socket[s].got
      /\ e[s].replies = socket[s].replies /\ \A t \in Sockets \ {s} : e[t] = socket[t]
  BY DEF PipeOver, Types, WithEnded, SocketType
<1>2. Direct # Retried /\ \A t \in Sockets : t = Direct \/ t = Retried
  BY DEF Direct, Retried, Sockets
<1>3. s \in Sockets /\ (Retry(e, s, ws) \/ Retry(e, s, "closed"))
  BY DEF PipeOver
<1> HIDE DEF e
<1>4. \/ socket' = e /\ UNCHANGED <<route, value>>
      \/ s = Direct /\ socket[s].replies = 0 /\ socket' = e /\ route' = "resolving" /\ value' = value
      \/ /\ s = Direct /\ socket[s].replies = 0
         /\ socket' = [e EXCEPT ![Retried] = Connecting] /\ value' = Retried /\ route' = route
  BY <1>2, <1>3 DEF Retry, Silent
<1>5. ws' \in {ws, "closed"}
  BY <1>3 DEF Retry
<1> QED BY <1>1, <1>2, <1>3, <1>4, <1>5, Constructors

-----------------------------------------------------------------------------
\* No step leaves the types.
LEMMA StepTypes == Inv /\ [RelayNext]_relayVars => Types'
<1> SUFFICES ASSUME Types, Plumbing, Upwards, [RelayNext]_relayVars PROVE Types'
  BY DEF Inv
<1> USE DEF Types, inputVars, clientVars, remoteVars
<1>0. <<>> \in Seq(Nat) /\ Len(<<>>) = 0
  OBVIOUS
<1>1. CASE ClientSends
  <2>1. sent + 1 \in Nat
    OBVIOUS
  <2>2. Append(inbox, sent + 1) \in Seq(Nat) /\ Len(Append(inbox, sent + 1)) = Len(inbox) + 1
    BY <2>1, AppendFacts
  <2> QED BY <1>1, <2>2 DEF ClientSends
<1>2. CASE ClientCloses
  BY <1>2 DEF ClientCloses
<1>3. CASE ClientFails
  <2>1. CASE UpFails(value)
    BY <1>3, <2>1, UpFailsFacts DEF ClientFails
  <2>2. CASE ws' = "closed" /\ UNCHANGED <<up, inbox, socket>>
    BY <1>3, <2>2 DEF ClientFails
  <2> QED BY <1>3, <2>1, <2>2 DEF ClientFails
<1>4. CASE TakeChunk
  <2>0. inbox # <<>> /\ UNCHANGED <<inputVars, client, sent, finished, down>>
    BY <1>4, TakeCases
  <2>1. /\ Len(inbox) >= 1 /\ Tail(inbox) \in Seq(Nat) /\ Len(Tail(inbox)) = Len(inbox) - 1
        /\ Head(inbox) \in Nat
    BY <2>0, TailFacts
  <2>2. <<Head(inbox)>> \in Seq(Nat) /\ Append(queries, Head(inbox)) \in Seq(Nat)
    BY <2>1, AppendFacts
  <2>3. CASE TakesFails
    BY <2>0, <2>3, UpFailsFacts DEF TakesFails
  <2>4. CASE TakesTcp
    <3>1. socket' \in [Sockets -> SocketType] /\ value' \in Sockets
      BY <2>4, Constructors DEF TakesTcp
    <3> QED BY <2>0, <2>1, <2>4, <3>1 DEF TakesTcp, Routes
  <2>5. CASE TakesDns
    <3>1. queries' \in Seq(Nat) /\ inbox' \in Seq(Nat) /\ Len(inbox') <= sent /\ route' \in Routes
      BY <2>1, <2>2, <2>5 DEF TakesDns, Routes
    <3> QED BY <2>0, <2>5, <3>1 DEF TakesDns
  <2>7. CASE TakesQuery
    <3>1. queries' \in Seq(Nat) /\ inbox' \in Seq(Nat) /\ Len(inbox') <= sent
      BY <2>1, <2>2, <2>7 DEF TakesQuery
    <3> QED BY <2>0, <2>7, <3>1 DEF TakesQuery
  <2>6. CASE TakesLater
    <3>1. up' \in UpType /\ socket' \in [Sockets -> SocketType]
      BY <2>0, <2>6, LaterFacts
    <3> QED BY <2>0, <2>1, <2>6, <3>1 DEF TakesLater
  <2> QED BY <1>4, <2>3, <2>4, <2>5, <2>6, <2>7, TakeCases
<1>5. CASE Written
  <2>1. up.to \in Sockets /\ up.chunk \in Nat
    BY <1>5 DEF Written, Upwards, Writing, UpType
  <2>2. Append(socket[up.to].got, up.chunk) \in Seq(Nat)
    BY <2>1, AppendFacts DEF SocketType
  <2>3. socket' \in [Sockets -> SocketType]
    <3> DEFINE to   == up.to
               got  == Append(socket[to].got, up.chunk)
               once == [socket EXCEPT ![to].got = got]
    <3>1. socket' = [once EXCEPT ![to].locked = FALSE]
      BY <1>5 DEF Written
    <3>2. to \in Sockets /\ got \in Seq(Nat)
      BY <2>1, <2>2
    <3> HIDE DEF to, got
    <3>3. once \in [Sockets -> SocketType]
      BY <3>2 DEF SocketType
    <3> HIDE DEF once
    <3>4. [once EXCEPT ![to].locked = FALSE] \in [Sockets -> SocketType]
      BY <3>2, <3>3 DEF SocketType
    <3> QED BY <3>1, <3>4
  <2> QED BY <1>5, <2>3, Constructors DEF Written
<1>6. CASE NotWritten
  BY <1>6, UpFailsFacts DEF NotWritten
<1>7. CASE ClientDone
  <2>1. socket' \in [Sockets -> SocketType]
    BY <1>7 DEF ClientDone, Closed, SocketType
  <2> QED BY <1>7, <2>1, Constructors DEF ClientDone
<1>8. ASSUME NEW s \in Sockets, FirstWritten(s) PROVE Types'
  <2>1. Append(socket[s].got, 1) \in Seq(Nat)
    BY AppendFacts DEF SocketType
  <2>2. socket' \in [Sockets -> SocketType]
    BY <1>8, <2>1 DEF FirstWritten, SocketType
  <2> QED BY <1>8, <2>2 DEF FirstWritten
<1>9. ASSUME NEW s \in Sockets, FirstFails(s) PROVE Types'
  <2>1. socket' \in [Sockets -> SocketType]
    BY <1>9 DEF FirstFails, SocketType
  <2> QED BY <1>9, <2>1 DEF FirstFails
<1>10. ASSUME NEW s \in Sockets, Reply(s) PROVE Types'
  <2> DEFINE n == socket[s].replies + 1
             r == [from |-> s, n |-> n, headed |-> protocol = "vless" /\ n = 1]
  <2>1. n \in Nat
    BY DEF SocketType
  <2>2. (protocol = "vless" /\ n = 1) \in BOOLEAN
    OBVIOUS
  <2>3. r \in ReplyType
    <3> HIDE DEF n
    <3> QED BY <2>1, <2>2 DEF ReplyType
  <2>4. Append(down, r) \in Seq(ReplyType)
    <3> HIDE DEF r
    <3> QED BY <2>3, AppendFacts
  <2>5. socket' \in [Sockets -> SocketType]
    <3> DEFINE open == [socket EXCEPT ![s].replies = n]
               over == [socket EXCEPT ![s].replies = n, ![s].state = "closed", ![s].pipe = "ended"]
    <3>1. socket' = open \/ socket' = over
      BY <1>10 DEF Reply
    <3> HIDE DEF n
    <3>2. open \in [Sockets -> SocketType]
      BY <2>1 DEF SocketType
    <3>3. over \in [Sockets -> SocketType]
      BY <2>1 DEF SocketType
    <3> QED BY <3>1, <3>2, <3>3
  <2>6. down' \in Seq(ReplyType)
    BY <1>10, <2>4 DEF Reply
  <2> QED BY <1>10, <2>5, <2>6 DEF Reply
<1>11. ASSUME NEW s \in Sockets, PipeOver(s) PROVE Types'
  <2>1. socket' \in [Sockets -> SocketType] /\ ws' \in {ws, "closed"}
        /\ value' \in {value, Retried} /\ route' \in {route, "resolving"}
    BY <1>11, PipeOverFacts
  <2>2. Retried \in Sockets /\ "resolving" \in Routes
    BY Constructors DEF Routes
  <2> QED BY <1>11, <2>1, <2>2 DEF PipeOver
<1>12. CASE Resolve
  <2>1. /\ socket' \in [Sockets -> SocketType] /\ value' \in Sockets \cup {Nobody}
        /\ route' \in Routes /\ ws' \in {"open", "closed"}
    BY <1>12, Constructors DEF Resolve, Routes
  <2> QED BY <1>12, <2>1 DEF Resolve
<1>13. CASE RetriedCloses
  BY <1>13 DEF RetriedCloses
<1>14. CASE Answer
  <2>1. Tail(queries) \in Seq(Nat) /\ Head(queries) \in Nat
    BY <1>14, TailFacts DEF Answer
  <2> DEFINE r == [from |-> Nobody, n |-> Head(queries), headed |-> down = <<>>]
  <2>2. (down = <<>>) \in BOOLEAN
    OBVIOUS
  <2>3. r \in ReplyType
    BY <2>1, <2>2 DEF ReplyType
  <2>4. Append(down, r) \in Seq(ReplyType)
    <3> HIDE DEF r
    <3> QED BY <2>3, AppendFacts
  <2> QED BY <1>14, <2>1, <2>4 DEF Answer
<1>15. CASE QueryFails
  BY <1>0, <1>15 DEF QueryFails, Routes
<1>16. CASE UNCHANGED relayVars
  BY <1>16 DEF relayVars
<1> QED
  BY <1>1, <1>2, <1>3, <1>4, <1>5, <1>6, <1>7, <1>8, <1>9, <1>10, <1>11, <1>12, <1>13, <1>14,
     <1>15, <1>16, PipesAreOver
  DEF RelayNext, Client, Worker, Remote

\* The readable stream goes on holding the chunks sent last, and what is taken grows.
LEMMA StepNumbered == Inv /\ [RelayNext]_relayVars => Numbered' /\ Taken' \in Nat /\ Taken' >= Taken
<1> SUFFICES ASSUME Types, Plumbing, Numbered, [RelayNext]_relayVars, Types'
             PROVE  Numbered' /\ Taken' \in Nat /\ Taken' >= Taken
  BY StepTypes DEF Inv
<1> USE DEF inputVars, clientVars, remoteVars
<1>0. /\ sent \in Nat /\ inbox \in Seq(Nat) /\ Len(inbox) \in Nat /\ Len(inbox) <= sent
      /\ Taken \in Nat /\ Len(<<>>) = 0
  BY DEF Types, Taken
\* The ways the readable stream may change.
<1>1. ASSUME UNCHANGED <<sent, inbox>>,
             up'.state = "errored" => up.state = "errored",
             ws' \in {ws, "closed"}, route = "none" => route' = "none" \/ up.state # "errored",
             up' = up \/ up.state # "errored"
      PROVE  Numbered' /\ Taken' \in Nat /\ Taken' >= Taken
  BY <1>0, <1>1 DEF Numbered, Taken
<1>2. ASSUME UpFails(value), sent' = sent PROVE Numbered' /\ Taken' \in Nat /\ Taken' >= Taken
  <2>1. inbox' = <<>> /\ ws' = "closed"
    BY <1>2 DEF UpFails
  <2> QED BY <1>0, <1>2, <2>1 DEF Numbered, Taken
<1>3. ASSUME inbox # <<>>, inbox' = Tail(inbox), sent' = sent, up'.state # "errored"
      PROVE  Numbered' /\ Taken' \in Nat /\ Taken' >= Taken
  <2>1. /\ Len(inbox) >= 1 /\ Len(inbox') = Len(inbox) - 1
        /\ \A i \in 1..(Len(inbox) - 1) : inbox'[i] = inbox[i + 1]
    BY <1>0, <1>3, TailFacts
  <2>2. Taken' = Taken + 1
    BY <1>0, <1>3, <2>1 DEF Taken
  <2>3. ASSUME NEW i \in 1..(Len(inbox) - 1) PROVE inbox[i + 1] = Taken + 1 + i
    BY <1>0, <2>3 DEF Numbered
  <2>4. Len(inbox') = Len(inbox) - 1 /\ \A i \in 1..Len(inbox') : inbox'[i] = Taken' + i
    BY <1>0, <2>1, <2>2, <2>3
  <2> QED BY <1>0, <1>3, <2>2, <2>4 DEF Numbered
<1>4. CASE ClientSends
  <2>1. CASE up.state = "errored"
    BY <1>0, <1>4, <2>1 DEF ClientSends, Numbered, Taken
  <2>2. CASE up.state # "errored"
    <3>1. sent + 1 \in Nat
      BY <1>0
    <3>2. inbox' = Append(inbox, sent + 1)
      BY <1>4, <2>2 DEF ClientSends
    <3>3. /\ Len(inbox') = Len(inbox) + 1
          /\ \A i \in 1..Len(inbox) : inbox'[i] = inbox[i]
          /\ inbox'[Len(inbox) + 1] = sent + 1
      BY <1>0, <3>1, <3>2, AppendFacts
    <3>4. Taken' = Taken /\ sent = Taken + Len(inbox)
      BY <1>0, <1>4, <3>3 DEF ClientSends, Taken
    <3>5. ASSUME NEW i \in 1..Len(inbox') PROVE inbox'[i] = Taken' + i
      BY <1>0, <3>3, <3>4, <3>5 DEF Numbered
    <3> QED BY <1>0, <1>4, <2>2, <3>4, <3>5 DEF ClientSends, Numbered
  <2> QED BY <2>1, <2>2
<1>5. CASE ClientCloses
  BY <1>1, <1>5 DEF ClientCloses
<1>6. CASE ClientFails
  BY <1>1, <1>2, <1>6 DEF ClientFails
<1>7. CASE TakeChunk
  <2>1. up.state = "idle" /\ inbox # <<>> /\ sent' = sent
    BY <1>7, TakeCases
  <2>2. CASE TakesFails
    BY <1>2, <2>1, <2>2 DEF TakesFails
  <2>3. CASE TakesTcp \/ TakesDns \/ TakesQuery
    BY <1>3, <2>1, <2>3 DEF TakesTcp, TakesDns, TakesQuery
  <2>4. CASE TakesLater
    <3>1. up'.state = "writing"
      BY <2>1, <2>4, LaterFacts
    <3> QED BY <1>3, <2>1, <2>4, <3>1 DEF TakesLater
  <2> QED BY <1>7, <2>2, <2>3, <2>4, TakeCases
<1>8. CASE Written
  BY <1>1, <1>8, Constructors DEF Written
<1>9. CASE NotWritten
  BY <1>2, <1>9 DEF NotWritten
<1>10. CASE ClientDone
  BY <1>1, <1>10, Constructors DEF ClientDone
<1>11. ASSUME NEW s \in Sockets, FirstWritten(s) \/ FirstFails(s) \/ Reply(s)
       PROVE  Numbered' /\ Taken' \in Nat /\ Taken' >= Taken
  BY <1>1, <1>11 DEF FirstWritten, FirstFails, Reply
<1>12. ASSUME NEW s \in Sockets, PipeOver(s) PROVE Numbered' /\ Taken' \in Nat /\ Taken' >= Taken
  <2>1. ws' \in {ws, "closed"} /\ UNCHANGED <<sent, inbox, up>>
    BY <1>12, PipeOverFacts DEF PipeOver
  <2>2. route # "none"
    BY <1>12, ValueFacts DEF PipeOver
  <2> QED BY <1>1, <2>1, <2>2
<1>13. CASE Resolve \/ RetriedCloses \/ Answer \/ QueryFails
  BY <1>1, <1>13 DEF Resolve, RetriedCloses, Answer, QueryFails
<1>14. CASE UNCHANGED relayVars
  BY <1>1, <1>14 DEF relayVars
<1> QED
  BY <1>4, <1>5, <1>6, <1>7, <1>8, <1>9, <1>10, <1>11, <1>12, <1>13, <1>14, PipesAreOver
  DEF RelayNext, Client, Worker, Remote

\* A second socket comes only after a silent first one, whatever happens.
LEMMA StepPlumbing == Inv /\ [RelayNext]_relayVars => Plumbing'
<1> SUFFICES ASSUME Types, Plumbing, Upwards, [RelayNext]_relayVars, Types' PROVE Plumbing'
  BY StepTypes DEF Inv
<1> USE DEF inputVars, clientVars, remoteVars
<1>0. /\ Direct = 1 /\ Retried = 2 /\ Nobody = 0 /\ Sockets = {1, 2}
      /\ value \in {0, 1, 2} /\ socket \in [Sockets -> SocketType] /\ route \in Routes
  BY DEF Types, Sockets, Direct, Retried, Nobody
\* A change that concerns no more than the state and the lock of the current socket.
<1>1. ASSUME value' = value, route' = route \/ (route \in {"none", "dns"} /\ route' \in {"dns", "dns failed"}),
             \A s \in Sockets : /\ socket'[s].pipe = socket[s].pipe
                                /\ socket'[s].got = socket[s].got
                                /\ socket'[s].replies = socket[s].replies
                                /\ socket[s].locked => socket'[s].locked
                                /\ s # value => socket'[s] = socket[s]
      PROVE  Plumbing'
  <2>1. Made'
    <3>1. ASSUME NEW s \in Sockets PROVE socket'[s].pipe = "none" <=> value' < s
      BY <1>1, <3>1 DEF Plumbing, Made
    <3>2. ASSUME NEW s \in Sockets, socket'[s].pipe = "none" PROVE socket'[s] = NoSocket
      <4>1. socket[s] = NoSocket /\ value < s
        BY <1>1, <3>2 DEF Plumbing, Made
      <4>2. value \in {0, 1, 2} /\ s \in {1, 2}
        BY <1>0
      <4>3. s # value
        BY <4>1, <4>2
      <4> QED BY <1>1, <3>2, <4>1, <4>3
    <3> QED BY <3>1, <3>2 DEF Made
  <2>2. Routed' /\ InTurn'
    BY <1>0, <1>1 DEF Plumbing, Routed, InTurn
  <2>3. Started'
    <3>1. ASSUME NEW s \in Sockets, socket'[s].pipe \in {"awaits", "failed"}
          PROVE  socket'[s].locked /\ socket'[s].got = <<>> /\ socket'[s].replies = 0
      <4>1. socket[s].locked /\ socket[s].got = <<>> /\ socket[s].replies = 0
        BY <1>1, <3>1 DEF Plumbing, Started
      <4>2. socket'[s].locked
        BY <1>1, <4>1
      <4> QED BY <1>1, <3>1, <4>1, <4>2
    <3>2. ASSUME NEW s \in Sockets, socket'[s].pipe \in {"runs", "ended"}
          PROVE  socket'[s].got # <<>>
      BY <1>1, <3>2 DEF Plumbing, Started
    <3> QED BY <3>1, <3>2 DEF Started
  <2> QED BY <2>1, <2>2, <2>3 DEF Plumbing
<1>2. CASE ClientSends \/ ClientCloses
  BY <1>1, <1>2 DEF ClientSends, ClientCloses
<1>3. CASE ClientFails
  <2>1. CASE UpFails(value)
    BY <1>1, <1>3, <2>1, UpFailsFacts DEF ClientFails
  <2>2. CASE UNCHANGED <<value, route, socket>>
    BY <1>1, <2>2
  <2> QED BY <1>3, <2>1, <2>2 DEF ClientFails
<1>4. CASE TakeChunk
  <2>1. CASE TakesFails
    BY <1>1, <2>1, UpFailsFacts DEF TakesFails
  <2>2. CASE TakesTcp
    <3>1. value = 0 /\ \A s \in Sockets : socket[s].pipe = "none" /\ socket[s] = NoSocket
      BY <1>0, <2>2 DEF TakesTcp, Plumbing, Made, Routed
    <3>2. socket'[1] = Connecting /\ socket'[2] = NoSocket /\ value' = 1 /\ route' = "tcp"
      BY <1>0, <2>2, <3>1 DEF TakesTcp
    <3>3. Made' /\ Started'
      BY <1>0, <3>2, Constructors DEF Made, Started
    <3>4. value' # Nobody /\ value' # Retried
      BY <1>0, <3>2
    <3>5. Routed' /\ InTurn'
      BY <3>2, <3>4 DEF Routed, InTurn
    <3> QED BY <3>3, <3>5 DEF Plumbing
  <2>3. CASE TakesDns \/ TakesQuery
    BY <1>1, <2>3 DEF TakesDns, TakesQuery
  <2>4. CASE TakesLater
    <3>1. /\ \A s \in Sockets : /\ socket'[s].got = socket[s].got
                                /\ socket'[s].pipe = socket[s].pipe
                                /\ socket'[s].replies = socket[s].replies
                                /\ s # value => socket'[s] = socket[s]
          /\ socket'[value].locked
      BY <1>4, <2>4, TakeCases, LaterFacts
    <3> QED BY <1>1, <2>4, <3>1 DEF TakesLater
  <2> QED BY <1>4, <2>1, <2>2, <2>3, <2>4, TakeCases
<1>5. CASE Written
  <2> DEFINE t == up.to
  <2>1. t \in Sockets /\ socket[t].pipe \in {"runs", "ended"} /\ up.chunk \in Nat
    BY <1>5 DEF Written, Upwards, Writing, Types, UpType
  <2>2. Append(socket[t].got, up.chunk) # <<>>
    <3> DEFINE got == socket[t].got
    <3>1. got \in Seq(Nat)
      BY <1>0, <2>1 DEF SocketType
    <3> HIDE DEF got
    <3>2. Append(got, up.chunk) # <<>>
      BY <2>1, <3>1, AppendFacts
    <3> QED BY <3>2 DEF got
  <2>3. /\ socket' = [socket EXCEPT ![t].got = Append(@, up.chunk), ![t].locked = FALSE]
        /\ UNCHANGED <<value, route>>
    BY <1>5 DEF Written
  <2> HIDE DEF t
  <2>4. /\ socket'[t].pipe = socket[t].pipe /\ socket'[t].got # <<>>
        /\ socket'[t].replies = socket[t].replies
        /\ \A s \in Sockets \ {t} : socket'[s] = socket[s]
    BY <1>0, <2>1, <2>2, <2>3 DEF SocketType
  <2>5. Made' /\ Started'
    BY <2>1, <2>3, <2>4 DEF Plumbing, Made, Started
  <2>6. Routed' /\ InTurn'
    BY <1>0, <2>1, <2>3, <2>4 DEF Plumbing, Routed, InTurn
  <2> QED BY <2>5, <2>6 DEF Plumbing
<1>6. CASE NotWritten
  BY <1>1, <1>6, UpFailsFacts DEF NotWritten
<1>7. CASE ClientDone
  <2>1. socket' = Closed(socket, value) /\ UNCHANGED <<value, route>>
    BY <1>7 DEF ClientDone
  <2>2. \A s \in Sockets : /\ socket'[s].pipe = socket[s].pipe
                           /\ socket'[s].got = socket[s].got
                           /\ socket'[s].replies = socket[s].replies
                           /\ socket'[s].locked = socket[s].locked
                           /\ s # value => socket'[s] = socket[s]
    BY <1>0, <2>1 DEF Closed, SocketType
  <2> QED BY <1>1, <2>1, <2>2
\* A change of one socket that is there.
<1>8. ASSUME NEW t \in Sockets, UNCHANGED <<value, route>>, socket[t].pipe \in {"awaits", "runs"},
             \A s \in Sockets \ {t} : socket'[s] = socket[s], socket'[t].pipe # "none",
             socket'[t].pipe \in {"awaits", "failed"} =>
                socket'[t].locked /\ socket'[t].got = <<>> /\ socket'[t].replies = 0,
             socket'[t].pipe \in {"runs", "ended"} => socket'[t].got # <<>>
      PROVE  Plumbing'
  <2>1. t = 1 => value # 2 /\ route \notin {"resolving", "abandoned"}
    BY <1>0, <1>8 DEF Plumbing, InTurn
  <2>2. Made' /\ Started'
    BY <1>8 DEF Plumbing, Made, Started
  <2>3. Routed' /\ InTurn'
    BY <1>0, <1>8, <2>1 DEF Plumbing, Routed, InTurn
  <2> QED BY <2>2, <2>3 DEF Plumbing
<1>9. ASSUME NEW s \in Sockets, FirstWritten(s) PROVE Plumbing'
  <2>1. Append(socket[s].got, 1) # <<>>
    <3>1. socket[s].got \in Seq(Nat)
      BY <1>0 DEF SocketType
    <3> QED BY <3>1, AppendFacts
  <2>2. /\ socket[s].pipe = "awaits" /\ UNCHANGED <<value, route>>
        /\ socket'[s].pipe = "runs" /\ socket'[s].got # <<>>
        /\ \A t \in Sockets \ {s} : socket'[t] = socket[t]
    BY <1>0, <1>9, <2>1 DEF FirstWritten, SocketType
  <2> QED BY <1>8, <2>2
<1>10. ASSUME NEW s \in Sockets, FirstFails(s) PROVE Plumbing'
  <2>1. /\ socket[s].pipe = "awaits" /\ UNCHANGED <<value, route>>
        /\ socket'[s].pipe = "failed" /\ socket'[s].got = socket[s].got
        /\ socket'[s].locked = socket[s].locked /\ socket'[s].replies = socket[s].replies
        /\ \A t \in Sockets \ {s} : socket'[t] = socket[t]
    BY <1>0, <1>10 DEF FirstFails, SocketType
  <2>2. socket[s].locked /\ socket[s].got = <<>> /\ socket[s].replies = 0
    BY <2>1 DEF Plumbing, Started
  <2> QED BY <1>8, <2>1, <2>2
<1>11. ASSUME NEW s \in Sockets, Reply(s) PROVE Plumbing'
  <2>1. /\ socket[s].pipe = "runs" /\ UNCHANGED <<value, route>>
        /\ socket'[s].pipe \in {"runs", "ended"} /\ socket'[s].got = socket[s].got
        /\ \A t \in Sockets \ {s} : socket'[t] = socket[t]
    BY <1>0, <1>11 DEF Reply, SocketType
  <2>2. socket[s].got # <<>>
    BY <2>1 DEF Plumbing, Started
  <2> QED BY <1>8, <2>1, <2>2
<1>12. ASSUME NEW s \in Sockets, PipeOver(s) PROVE Plumbing'
  <2>1. socket[s].pipe = "runs" /\ socket[s].got # <<>> /\ value # Nobody /\ s <= value
        /\ route \in {"tcp", "resolving", "abandoned"}
    BY <1>12, ValueFacts DEF PipeOver, Plumbing, Started
  <2>2. socket'[s].pipe = "ended" /\ socket'[s].got = socket[s].got
        /\ socket'[s].replies = socket[s].replies
    BY <1>12, PipeOverFacts
  <2>3. CASE (\A t \in Sockets \ {s} : socket'[t] = socket[t]) /\ UNCHANGED <<route, value>>
    BY <1>8, <2>1, <2>2, <2>3
  <2>4. CASE /\ s = Direct /\ socket[s].replies = 0 /\ route' = "resolving" /\ value' = value
             /\ \A t \in Sockets \ {s} : socket'[t] = socket[t]
    <3>1. Made' /\ Started'
      BY <1>0, <2>1, <2>2, <2>4 DEF Plumbing, Made, Started
    <3>2. Routed' /\ InTurn'
      BY <1>0, <2>1, <2>2, <2>4 DEF Plumbing, Routed, InTurn
    <3> QED BY <3>1, <3>2 DEF Plumbing
  <2>5. CASE /\ s = Direct /\ socket[s].replies = 0 /\ value' = Retried /\ route' = route
             /\ socket'[Retried] = Connecting
    <3>1. socket'[1].pipe = "ended" /\ socket'[1].got # <<>> /\ socket'[1].replies = 0
          /\ socket'[2] = Connecting /\ value' = 2 /\ route' = route
      BY <1>0, <2>1, <2>2, <2>5
    <3>2. Made' /\ Started'
      BY <1>0, <3>1, Constructors DEF Made, Started
    <3>3. Routed' /\ InTurn'
      <4>1. value' # Nobody /\ Direct = 1
        BY <1>0, <3>1
      <4>2. route \notin {"resolving", "abandoned"}
        BY <1>12, <2>5 DEF PipeOver, Plumbing, InTurn
      <4> QED BY <2>1, <3>1, <4>1, <4>2 DEF Routed, InTurn
    <3> QED BY <3>2, <3>3 DEF Plumbing
  <2> QED BY <1>12, <2>3, <2>4, <2>5, PipeOverFacts
<1>13. CASE Resolve
  <2>1. value # Nobody /\ route = "resolving" /\ socket[1].pipe = "ended" /\ socket[1].replies = 0
    BY <1>0, <1>13 DEF Resolve, Plumbing, Routed, InTurn
  <2>2. CASE resolves
    <3>1. socket'[1] = socket[1] /\ socket'[2] = Connecting /\ value' = 2 /\ route' = "tcp"
      BY <1>0, <1>13, <2>2 DEF Resolve
    <3>2. Made' /\ Started'
      <4>1. socket[1].got # <<>>
        BY <1>0, <2>1 DEF Plumbing, Started
      <4> QED BY <1>0, <2>1, <3>1, <4>1, Constructors DEF Made, Started
    <3>3. Routed' /\ InTurn'
      <4>1. value' # Nobody /\ Direct = 1
        BY <1>0, <3>1
      <4> QED BY <2>1, <3>1, <4>1 DEF Routed, InTurn
    <3> QED BY <3>2, <3>3 DEF Plumbing
  <2>3. CASE ~resolves
    BY <1>0, <1>13, <2>1, <2>3 DEF Resolve, Plumbing, Made, Routed, InTurn, Started
  <2> QED BY <2>2, <2>3
<1>14. CASE RetriedCloses \/ Answer \/ QueryFails
  BY <1>1, <1>14 DEF RetriedCloses, Answer, QueryFails
<1>15. CASE UNCHANGED relayVars
  BY <1>1, <1>15 DEF relayVars
<1> QED
  BY <1>2, <1>3, <1>4, <1>5, <1>6, <1>7, <1>9, <1>10, <1>11, <1>12, <1>13, <1>14, <1>15,
     PipesAreOver
  DEF RelayNext, Client, Worker, Remote

\* Chunks that are sorted stay so when more have been taken, and when one that was taken
\* after them follows.
LEMMA SortedStays ==
    ASSUME NEW chunks \in Seq(Nat), NEW last \in Nat, NEW more \in Nat, last <= more,
           Sorted(chunks, last)
    PROVE  Sorted(chunks, more)
<1>1. DOMAIN chunks = 1..Len(chunks) /\ \A i \in 1..Len(chunks) : chunks[i] \in Nat
  OBVIOUS
<1> QED BY <1>1 DEF Sorted

\* A chunk later than all a socket got keeps what it got in order.
LEMMA SortedGrows ==
    ASSUME NEW chunks \in Seq(Nat), NEW last \in Nat, Sorted(chunks, last),
           NEW n \in Nat, n <= last, chunks = <<>> => n = 1, \A i \in DOMAIN chunks : chunks[i] < n
    PROVE  Sorted(Append(chunks, n), last)
<1> DEFINE a == Append(chunks, n)
<1>1. /\ Len(chunks) \in Nat /\ DOMAIN chunks = 1..Len(chunks)
      /\ \A i \in 1..Len(chunks) : chunks[i] \in Nat
  OBVIOUS
<1>2. /\ DOMAIN a = 1..(Len(chunks) + 1)
      /\ \A i \in 1..Len(chunks) : a[i] = chunks[i]
      /\ a[Len(chunks) + 1] = n
  BY AppendFacts
<1> HIDE DEF a
<1>3. a[1] = 1
  <2>1. CASE chunks = <<>>
    <3>1. Len(chunks) = 0
      BY <2>1
    <3> QED BY <1>2, <2>1, <3>1
  <2>2. CASE chunks # <<>>
    <3>1. 1 \in 1..Len(chunks)
      BY <1>1, <2>2
    <3> QED BY <1>2, <2>2, <3>1 DEF Sorted
  <2> QED BY <2>1, <2>2
<1>4. Increasing(a)
  <2> SUFFICES ASSUME NEW i \in DOMAIN a, NEW j \in DOMAIN a, i < j PROVE a[i] < a[j]
    BY DEF Increasing
  <2>1. i \in 1..Len(chunks)
    BY <1>1, <1>2
  <2>2. CASE j \in 1..Len(chunks)
    BY <1>1, <1>2, <2>1, <2>2 DEF Sorted, Increasing
  <2>3. CASE j = Len(chunks) + 1
    BY <1>1, <1>2, <2>1, <2>3
  <2> QED BY <1>1, <1>2, <2>2, <2>3
<1>5. \A i \in DOMAIN a : a[i] <= last
  BY <1>1, <1>2 DEF Sorted
<1>6. Sorted(a, last)
  BY <1>3, <1>4, <1>5 DEF Sorted
<1> QED BY <1>6 DEF a

\* A second socket is made where there was none.
LEMMA RetriedIsNew ==
    ASSUME Types, Plumbing, socket[Direct].pipe = "runs" \/ route = "resolving"
    PROVE  socket[Retried].pipe = "none" /\ value # Nobody
<1>1. /\ Direct = 1 /\ Retried = 2 /\ Nobody = 0 /\ Sockets = {1, 2} /\ value \in {0, 1, 2}
  BY DEF Types, Sockets, Direct, Retried, Nobody
<1>2. value # Retried
  BY DEF Plumbing, InTurn
<1>3. value < 2
  BY <1>1, <1>2
<1>4. socket[2].pipe = "none"
  BY <1>1, <1>3 DEF Plumbing, Made
<1>5. value # Nobody
  <2>1. CASE route = "resolving"
    BY <2>1 DEF Plumbing, Routed
  <2>2. CASE socket[Direct].pipe = "runs"
    BY <1>1, <2>2, ValueFacts
  <2> QED BY <2>1, <2>2
<1> QED BY <1>1, <1>4, <1>5

\* A reply of a remote side is counted for its socket and changes nothing else.
LEMMA ReplyFacts ==
    ASSUME Types, NEW s \in Sockets, Reply(s)
    PROVE  /\ socket[s].pipe = "runs" /\ UNCHANGED <<inputVars, clientVars, up, route, value, queries>>
           /\ socket'[s].replies = socket[s].replies + 1
           /\ \A t \in Sockets : socket'[t].got = socket[t].got
                                 /\ socket'[t].pipe \in {socket[t].pipe, "ended"}
           /\ \A t \in Sockets \ {s} : socket'[t] = socket[t]
           /\ ws = "open" => socket'[s].pipe = "runs"
<1>1. socket[s].pipe = "runs" /\ UNCHANGED <<inputVars, clientVars, up, route, value, queries>>
  BY DEF Reply
<1> DEFINE n == socket[s].replies + 1
<1>2. n \in Nat
  BY DEF Types, SocketType
<1>3. CASE ws = "open"
  <2>1. socket' = [socket EXCEPT ![s].replies = n]
    BY <1>3 DEF Reply
  <2> HIDE DEF n
  <2>2. /\ socket'[s].replies = n /\ socket'[s].got = socket[s].got
        /\ socket'[s].pipe = socket[s].pipe /\ \A t \in Sockets \ {s} : socket'[t] = socket[t]
    BY <2>1 DEF Types, SocketType
  <2> QED BY <1>1, <2>2 DEF n
<1>4. CASE ws # "open"
  <2>1. socket' = [socket EXCEPT ![s].replies = n, ![s].state = "closed", ![s].pipe = "ended"]
    BY <1>4 DEF Reply
  <2> HIDE DEF n
  <2>2. /\ socket'[s].replies = n /\ socket'[s].got = socket[s].got
        /\ socket'[s].pipe = "ended" /\ \A t \in Sockets \ {s} : socket'[t] = socket[t]
    BY <2>1 DEF Types, SocketType
  <2> QED BY <1>1, <1>4, <2>2 DEF n
<1> QED BY <1>3, <1>4

\* What the sockets got stays in order and within what was taken.
LEMMA StepUpwards == Inv /\ [RelayNext]_relayVars => Upwards'
<1> SUFFICES ASSUME Inv, Types, Numbered, Plumbing, Begun, Ordered, Writing, [RelayNext]_relayVars,
                    Types', Taken' \in Nat, Taken' >= Taken
             PROVE  Upwards'
  BY StepTypes, StepNumbered DEF Inv, Upwards
<1> USE DEF inputVars, clientVars, remoteVars
<1>0. /\ Taken \in Nat /\ \A s \in Sockets : socket[s].got \in Seq(Nat)
      /\ \A s \in Sockets : Sorted(socket[s].got, Taken')
  <2>1. Taken \in Nat
    BY DEF Types, Taken
  <2>2. \A s \in Sockets : socket[s].got \in Seq(Nat)
    BY DEF Types, SocketType
  <2> QED BY <2>1, <2>2, SortedStays DEF Ordered
<1>a. Sorted(<<>>, Taken')
  BY DEF Sorted, Increasing
<1>b. /\ Direct = 1 /\ Retried = 2 /\ Nobody = 0 /\ Sockets = {1, 2} /\ Direct # Retried
      /\ Direct \in Sockets /\ Retried \in Sockets
  BY DEF Sockets, Direct, Retried, Nobody
\* What is taken by a pipe that is not writing, and sockets that get nothing.
<1>1. ASSUME up'.state # "writing", up'.chunk = Nobody,
             \A s \in Sockets : socket'[s].got \in {socket[s].got, <<>>}
      PROVE  Ordered' /\ Writing'
  BY <1>0, <1>a, <1>1 DEF Ordered, Writing
<1>2. ASSUME up' = up, Taken' = Taken, route' = "none" => route = "none", value' = value \/ value # Nobody,
             \A s \in Sockets : socket'[s].got = socket[s].got,
             \A s \in Sockets : socket[s].pipe \in {"runs", "ended"} => socket'[s].pipe \in {"runs", "ended"}
      PROVE  Upwards'
  <2>1. Begun'
    BY <1>2 DEF Begun
  <2>2. Ordered'
    BY <1>0, <1>2 DEF Ordered
  <2>3. Writing'
    BY <1>2 DEF Writing
  <2> QED BY <2>1, <2>2, <2>3 DEF Upwards
<1>3. ASSUME UpFails(value), UNCHANGED <<route, value>> PROVE Upwards'
  <2>1. up'.state = "errored" /\ up'.chunk = 0 /\ \A s \in Sockets : socket'[s].got = socket[s].got
    BY <1>3, UpFailsFacts
  <2>2. Begun'
    BY <1>0, <1>3, <2>1 DEF Begun
  <2> QED BY <1>1, <1>b, <2>1, <2>2 DEF Upwards
<1>4. CASE ClientSends
  <2>1. CASE up.state # "errored"
    <3>1. Len(Append(inbox, sent + 1)) = Len(inbox) + 1 /\ Len(inbox) \in Nat /\ sent \in Nat
      BY DEF Types
    <3>2. Taken' = Taken
      BY <1>4, <2>1, <3>1 DEF ClientSends, Taken
    <3> QED BY <1>2, <1>4, <3>2 DEF ClientSends
  <2>2. CASE up.state = "errored"
    <3>1. UNCHANGED <<up, socket, route, value>>
      BY <1>4 DEF ClientSends
    <3>2. up'.state # "writing" /\ up'.chunk = Nobody
      BY <2>2, <3>1 DEF Writing
    <3>3. Begun'
      BY <1>0, <2>2, <3>1 DEF Begun
    <3> QED BY <1>1, <3>1, <3>2, <3>3 DEF Upwards
  <2> QED BY <2>1, <2>2
<1>5. CASE ClientCloses
  BY <1>2, <1>5 DEF ClientCloses, Taken
<1>6. CASE ClientFails
  BY <1>2, <1>3, <1>6 DEF ClientFails, Taken
<1>7. CASE TakeChunk
  <2>1. /\ up.state = "idle" /\ inbox # <<>> /\ sent' = sent
    BY <1>7, TakeCases
  <2>2. up.chunk = Nobody
    BY <2>1 DEF Writing
  <2>3. ASSUME inbox' = Tail(inbox) PROVE Taken' = Taken + 1 /\ inbox[1] = Taken + 1
    <3>1. Len(inbox) >= 1 /\ Len(inbox') = Len(inbox) - 1 /\ Len(inbox) \in Nat /\ sent \in Nat
      BY <2>1, <2>3, TailFacts DEF Types
    <3>2. 1 \in 1..Len(inbox)
      BY <3>1
    <3> QED BY <2>1, <3>1, <3>2 DEF Taken, Numbered
  <2>4. CASE TakesFails
    BY <1>3, <2>4 DEF TakesFails
  <2>5. CASE TakesTcp
    <3>1. up' = up /\ \A s \in Sockets : socket'[s].got \in {socket[s].got, <<>>}
      BY <2>5, Constructors DEF TakesTcp, Types
    <3>2. Begun'
      BY <1>0, <2>3, <2>5 DEF TakesTcp, Begun
    <3> QED BY <1>1, <2>1, <2>2, <3>1, <3>2 DEF Upwards
  <2>6. CASE TakesDns \/ TakesQuery
    <3>1. UNCHANGED <<up, socket>> /\ route' # "none"
      BY <2>6 DEF TakesDns, TakesQuery
    <3>2. value' = value
      BY <2>6 DEF TakesDns, TakesQuery
    <3>3. Begun'
      BY <1>0, <3>1, <3>2 DEF Begun
    <3> QED BY <1>1, <2>1, <2>2, <3>1, <3>3 DEF Upwards
  <2>7. CASE TakesLater
    <3>1. /\ up'.state = "writing" /\ up'.chunk = inbox[1] /\ up'.to = value
          /\ \A s \in Sockets : socket'[s].got = socket[s].got /\ socket'[s].pipe = socket[s].pipe
      BY <2>1, <2>7, LaterFacts
    <3>2. value \in Sockets /\ ~socket[value].locked /\ UNCHANGED <<route, value>>
          /\ Taken' = Taken + 1 /\ inbox[1] = Taken + 1
      BY <2>3, <2>7 DEF TakesLater
    <3>3. value # Nobody /\ route # "none"
      <4>1. value # Nobody
        BY <1>b, <3>2
      <4> QED BY <4>1 DEF Plumbing, Routed
    <3>4. socket[value].pipe \in {"runs", "ended"}
      <4>1. ~(value < value)
        BY <1>b, <3>2
      <4>2. socket[value].pipe # "none" /\ socket[value].pipe \notin {"awaits", "failed"}
        BY <3>2, <4>1 DEF Plumbing, Made, Started
      <4> QED BY <3>2, <4>2 DEF Types, SocketType
    <3>5. Begun' /\ Ordered'
      BY <1>0, <3>1, <3>2, <3>3 DEF Begun, Ordered
    <3>6. \A i \in DOMAIN socket[value].got : socket[value].got[i] < Taken + 1
      <4>1. DOMAIN socket[value].got = 1..Len(socket[value].got)
            /\ \A i \in 1..Len(socket[value].got) : socket[value].got[i] \in Nat
        BY <1>0, <3>2
      <4> QED BY <1>0, <3>2, <4>1 DEF Ordered, Sorted
    <3>7. Writing'
      BY <3>1, <3>2, <3>4, <3>6 DEF Writing
    <3> QED BY <3>5, <3>7 DEF Upwards
  <2> QED BY <1>7, <2>4, <2>5, <2>6, <2>7, TakeCases
<1>8. CASE Written
  <2> DEFINE t   == up.to
             got == socket[t].got
  <2>1. /\ t \in Sockets /\ socket[t].pipe \in {"runs", "ended"} /\ up.chunk = Taken
        /\ \A i \in DOMAIN got : got[i] < up.chunk
    BY <1>8 DEF Written, Writing
  <2>2. /\ socket' = [socket EXCEPT ![t].got = Append(@, up.chunk), ![t].locked = FALSE]
        /\ up' = Idle /\ UNCHANGED <<sent, inbox, route, value>>
    BY <1>8 DEF Written
  <2>3. got # <<>> /\ got \in Seq(Nat) /\ Sorted(got, Taken)
    BY <1>0, <2>1 DEF Plumbing, Started, Ordered
  <2>4. Taken' = Taken
    BY <2>2 DEF Taken
  <2> HIDE DEF got, t
  <2>5. Sorted(Append(got, up.chunk), Taken)
    BY <1>0, <2>1, <2>3, SortedGrows
  <2>6. socket'[t].got = Append(got, up.chunk) /\ \A s \in Sockets \ {t} : socket'[s] = socket[s]
    BY <2>1, <2>2 DEF Types, SocketType, got
  <2>7. Ordered'
    BY <2>4, <2>5, <2>6 DEF Ordered
  <2>8. Begun'
    BY <1>8, <2>2, <2>4 DEF Begun, Written
  <2>9. Writing'
    BY <1>b, <2>2, Constructors DEF Writing
  <2> QED BY <2>7, <2>8, <2>9 DEF Upwards
<1>9. CASE NotWritten
  BY <1>3, <1>9 DEF NotWritten
<1>10. CASE ClientDone
  <2>1. up' = Over("closed") /\ socket' = Closed(socket, value) /\ UNCHANGED <<sent, inbox, route, value>>
        /\ up.state = "idle"
    BY <1>10 DEF ClientDone
  <2>2. up'.state = "closed" /\ up'.chunk = Nobody
    BY <1>b, <2>1, Constructors
  <2>3. \A s \in Sockets : socket'[s].got = socket[s].got
    BY <2>1 DEF Closed, Types, SocketType
  <2>4. Begun'
    BY <2>1 DEF Begun, Taken
  <2> QED BY <1>1, <2>2, <2>3, <2>4 DEF Upwards
<1>11. ASSUME NEW s \in Sockets, FirstWritten(s) PROVE Upwards'
  <2>1. /\ socket[s].pipe = "awaits"
        /\ socket' = [socket EXCEPT ![s].got = Append(@, 1), ![s].locked = FALSE, ![s].pipe = "runs"]
        /\ UNCHANGED <<sent, inbox, up, route, value>>
    BY <1>11 DEF FirstWritten
  <2>2. socket[s].got = <<>> /\ value # Nobody
    BY <2>1, ValueFacts DEF Plumbing, Started
  <2>3. Taken' = Taken /\ 1 <= Taken
    BY <1>0, <2>1, <2>2 DEF Taken, Begun
  <2>4. Sorted(Append(<<>>, 1), Taken)
    <3>1. \A i \in DOMAIN <<>> : <<>>[i] < 1
      OBVIOUS
    <3>2. Sorted(<<>>, Taken)
      BY DEF Sorted, Increasing
    <3>3. <<>> \in Seq(Nat) /\ 1 \in Nat
      OBVIOUS
    <3> QED BY <1>0, <2>3, <3>1, <3>2, <3>3, SortedGrows
  <2>5. socket'[s].got = Append(<<>>, 1) /\ \A t \in Sockets \ {s} : socket'[t] = socket[t]
    BY <2>1, <2>2 DEF Types, SocketType
  <2>6. Ordered'
    BY <2>3, <2>4, <2>5 DEF Ordered
  <2>7. Begun'
    BY <2>1, <2>3 DEF Begun
  <2>8. up.state = "writing" => up.to \in Sockets \ {s}
    BY <2>1 DEF Writing
  <2>9. Writing'
    BY <2>1, <2>3, <2>5, <2>8 DEF Writing
  <2> QED BY <2>6, <2>7, <2>9 DEF Upwards
<1>12. ASSUME NEW s \in Sockets, FirstFails(s) PROVE Upwards'
  <2>1. /\ socket[s].pipe = "awaits" /\ UNCHANGED <<sent, inbox, up, route, value>>
        /\ \A t \in Sockets : socket'[t].got = socket[t].got
        /\ \A t \in Sockets \ {s} : socket'[t] = socket[t]
    BY <1>12 DEF FirstFails, Types, SocketType
  <2>2. \A t \in Sockets : socket[t].pipe \in {"runs", "ended"} => socket'[t].pipe \in {"runs", "ended"}
    BY <2>1
  <2> QED BY <1>2, <2>1, <2>2 DEF Taken
<1>13. ASSUME NEW s \in Sockets, Reply(s) PROVE Upwards'
  <2>1. /\ UNCHANGED <<sent, inbox, up, route, value>>
        /\ \A t \in Sockets : socket'[t].got = socket[t].got
        /\ \A t \in Sockets : socket'[t].pipe \in {socket[t].pipe, "ended"}
    BY <1>13, ReplyFacts
  <2> QED BY <1>2, <2>1 DEF Taken
<1>14. ASSUME NEW s \in Sockets, PipeOver(s) PROVE Upwards'
  <2>1. /\ UNCHANGED <<sent, inbox, up>> /\ socket[s].pipe = "runs" /\ s \in Sockets /\ value # Nobody
    BY <1>14, ValueFacts DEF PipeOver
  <2>2. /\ socket'[s].pipe = "ended" /\ socket'[s].got = socket[s].got
        /\ route' \in {route, "resolving"}
        /\ \/ \A t \in Sockets \ {s} : socket'[t] = socket[t]
           \/ s = Direct /\ socket'[Retried] = Connecting
    BY <1>14, PipeOverFacts
  <2>3. Taken' = Taken
    BY <2>1 DEF Taken
  <2>4. Begun'
    BY <2>1, <2>2, <2>3 DEF Begun
  <2>5. CASE \A t \in Sockets \ {s} : socket'[t] = socket[t]
    <3>1. Ordered'
      BY <2>1, <2>2, <2>3, <2>5 DEF Ordered
    <3>2. Writing'
      BY <2>1, <2>2, <2>3, <2>5 DEF Writing
    <3> QED BY <2>4, <3>1, <3>2 DEF Upwards
  <2>6. CASE s = Direct /\ socket'[Retried] = Connecting
    <3>1. socket[Retried].pipe = "none"
      BY <2>1, <2>6, RetriedIsNew
    <3>2. Ordered'
      BY <1>a, <1>b, <2>1, <2>2, <2>3, <2>6, Constructors DEF Ordered
    <3>3. up.state = "writing" => up.to = s
      BY <1>b, <2>6, <3>1 DEF Writing
    <3>4. Writing'
      BY <2>1, <2>2, <2>3, <3>3 DEF Writing
    <3> QED BY <2>4, <3>2, <3>4 DEF Upwards
  <2> QED BY <2>2, <2>5, <2>6
<1>15. CASE Resolve
  <2>1. UNCHANGED <<sent, inbox, up>> /\ route = "resolving" /\ route' # "none" /\ Taken' = Taken
    BY <1>15 DEF Resolve, Taken
  <2>2. socket[Retried].pipe = "none" /\ value # Nobody
    BY <2>1, RetriedIsNew
  <2>3. Begun'
    BY <2>1, <2>2 DEF Begun
  <2>4. CASE UNCHANGED <<value, socket>>
    BY <1>2, <2>1, <2>4
  <2>5. CASE socket' = [socket EXCEPT ![Retried] = Connecting]
    <3>1. socket'[Retried] = Connecting /\ socket'[Direct] = socket[Direct]
      BY <1>b, <2>5 DEF Types
    <3>2. Ordered'
      BY <1>a, <1>b, <2>1, <3>1, Constructors DEF Ordered
    <3>3. up.state = "writing" => up.to = Direct
      BY <1>b, <2>2 DEF Writing
    <3>4. Writing'
      BY <2>1, <3>1, <3>3 DEF Writing
    <3> QED BY <2>3, <3>2, <3>4 DEF Upwards
  <2> QED BY <1>15, <2>4, <2>5 DEF Resolve
<1>16. CASE RetriedCloses \/ Answer
  BY <1>2, <1>16 DEF RetriedCloses, Answer, Taken
<1>17. CASE QueryFails
  BY <1>2, <1>17 DEF QueryFails, Taken
<1>18. CASE UNCHANGED relayVars
  BY <1>2, <1>18 DEF relayVars, Taken
<1> QED
  BY <1>4, <1>5, <1>6, <1>7, <1>8, <1>9, <1>10, <1>11, <1>12, <1>13, <1>14, <1>15, <1>16, <1>17,
     <1>18, PipesAreOver
  DEF RelayNext, Client, Worker, Remote

\* The sockets when a second one may have been made.
LEMMA SecondSocket ==
    ASSUME Types, Plumbing, Resolve \/ \E s \in Sockets : PipeOver(s)
    PROVE  /\ \A t \in Sockets : /\ socket'[t].got = socket[t].got
                                 /\ socket'[t].replies = socket[t].replies
                                 /\ socket[t].pipe = "awaits" => socket'[t].pipe = "awaits"
           /\ UNCHANGED <<protocol, sent, inbox, up, queries, down>> /\ ws' \in {ws, "closed"}
           /\ value # Nobody /\ value' # Nobody
           /\ route \in {"tcp", "resolving", "abandoned"} /\ route' \in {"tcp", "resolving", "abandoned"}
           /\ route = "abandoned" => route' = "abandoned"
<1>b. Direct # Retried /\ Sockets = {Direct, Retried} /\ Retried # Nobody
  BY DEF Sockets, Direct, Retried, Nobody
<1>1. ASSUME socket[Retried].pipe = "none", socket'[Retried] = Connecting,
             socket'[Direct].got = socket[Direct].got, socket'[Direct].replies = socket[Direct].replies,
             socket[Direct].pipe # "awaits"
      PROVE  \A t \in Sockets : /\ socket'[t].got = socket[t].got
                                /\ socket'[t].replies = socket[t].replies
                                /\ socket[t].pipe = "awaits" => socket'[t].pipe = "awaits"
  <2>1. socket[Retried] = NoSocket
    BY <1>1, <1>b DEF Plumbing, Made
  <2>2. NoSocket.got = Connecting.got /\ NoSocket.replies = Connecting.replies
    BY Constructors
  <2>3. ASSUME NEW t \in Sockets
        PROVE  /\ socket'[t].got = socket[t].got
               /\ socket'[t].replies = socket[t].replies
               /\ socket[t].pipe = "awaits" => socket'[t].pipe = "awaits"
    <3>1. CASE t = Direct
      BY <1>1, <3>1
    <3>2. CASE t = Retried
      BY <1>1, <2>1, <2>2, <3>2
    <3> QED BY <1>b, <3>1, <3>2
  <2> QED BY <2>3
<1>2. ASSUME NEW s \in Sockets, PipeOver(s)
      PROVE  \A t \in Sockets : /\ socket'[t].got = socket[t].got
                                /\ socket'[t].replies = socket[t].replies
                                /\ socket[t].pipe = "awaits" => socket'[t].pipe = "awaits"
  <2>1. socket[s].pipe = "runs" /\ socket'[s].got = socket[s].got
        /\ socket'[s].replies = socket[s].replies
    BY <1>2, PipeOverFacts DEF PipeOver
  <2>2. CASE \A t \in Sockets \ {s} : socket'[t] = socket[t]
    BY <2>1, <2>2
  <2>3. CASE s = Direct /\ socket'[Retried] = Connecting
    <3>1. socket[Retried].pipe = "none"
      BY <2>1, <2>3, RetriedIsNew
    <3> QED BY <1>1, <2>1, <2>3, <3>1
  <2> QED BY <1>2, <2>2, <2>3, PipeOverFacts
<1>3. ASSUME NEW s \in Sockets, PipeOver(s)
      PROVE  /\ UNCHANGED <<protocol, sent, inbox, up, queries, down>> /\ ws' \in {ws, "closed"}
             /\ value # Nobody /\ value' # Nobody /\ route = "tcp" /\ route' \in {"tcp", "resolving"}
  <2>1. value # Nobody /\ route \in {"tcp", "resolving", "abandoned"}
    BY <1>3, ValueFacts DEF PipeOver
  <2>2. UNCHANGED <<protocol, sent, inbox, up, queries, down>> /\ socket[s].pipe = "runs"
    BY <1>3 DEF PipeOver, inputVars
  <2>3. ws' \in {ws, "closed"} /\ value' \in {value, Retried} /\ route' \in {route, "resolving"}
    BY <1>3, PipeOverFacts
  <2>4. route = "tcp"
    <3>1. CASE s = Direct
      BY <2>1, <2>2, <3>1 DEF Plumbing, InTurn
    <3>2. CASE s = Retried
      <4>1. s <= value /\ s = 2 /\ value \in {0, 1, 2}
        BY <2>2, <3>2, ValueFacts DEF Types, Sockets, Direct, Retried, Nobody
      <4>2. value = Retried
        BY <3>2, <4>1
      <4> QED BY <2>1, <4>2 DEF Plumbing, InTurn
    <3> QED BY <1>b, <3>1, <3>2
  <2> QED BY <1>b, <2>1, <2>2, <2>3, <2>4
<1>4. CASE Resolve
  <2>1. route = "resolving" /\ UNCHANGED <<protocol, sent, inbox, up, queries, down>>
        /\ ws' \in {ws, "closed"} /\ route' \in {"tcp", "abandoned"} /\ value' \in {value, Retried}
    BY <1>4 DEF Resolve, inputVars
  <2>2. socket[Retried].pipe = "none" /\ value # Nobody /\ socket[Direct].pipe = "ended"
    BY <2>1, RetriedIsNew DEF Plumbing, InTurn
  <2>3. CASE socket' = socket
    BY <1>b, <2>1, <2>2, <2>3
  <2>4. CASE socket' = [socket EXCEPT ![Retried] = Connecting]
    <3>1. socket'[Retried] = Connecting /\ socket'[Direct] = socket[Direct]
      BY <1>b, <2>4 DEF Types
    <3> QED BY <1>1, <1>b, <2>1, <2>2, <3>1
  <2> QED BY <1>4, <2>3, <2>4 DEF Resolve
<1> QED BY <1>2, <1>3, <1>4

\* What was taken goes on being somewhere while the tunnel is up.
LEMMA StepCovered == Inv /\ [RelayNext]_relayVars => Covered'
<1> SUFFICES ASSUME Inv, Types, Numbered, Plumbing, Begun, Writing, Covered, [RelayNext]_relayVars,
                    route' \in {"tcp", "resolving"}, up'.state # "errored", ws' = "open",
                    Taken' \in Nat, NEW n \in 1..Taken'
             PROVE  Got(n)' \/ Going(n)'
  BY StepNumbered DEF Inv, Upwards, Covered
<1> USE DEF inputVars, clientVars, remoteVars
<1>0. n \in Nat /\ n >= 1 /\ Nobody = 0 /\ Taken \in Nat
  BY DEF Nobody, Types, Taken
\* Nothing is taken, and what was written or in hand still is.
<1>1. ASSUME Taken' = Taken, route \in {"tcp", "resolving"}, up.state # "errored", ws = "open",
             \A s \in Sockets : Range(socket[s].got) \subseteq Range(socket'[s].got),
             \A s \in Sockets : socket[s].pipe = "awaits" =>
                socket'[s].pipe = "awaits" \/ 1 \in Range(socket'[s].got),
             \/ up.chunk \in {up'.chunk, Nobody}
             \/ \E s \in Sockets : up.chunk \in Range(socket'[s].got)
      PROVE  Got(n)' \/ Going(n)'
  <2>1. Got(n) \/ Going(n)
    BY <1>1 DEF Covered
  <2>2. CASE Got(n)
    BY <1>1, <2>2 DEF Got
  <2>3. CASE n = up.chunk
    BY <1>0, <1>1, <2>3 DEF Got, Going
  <2>4. CASE n = 1 /\ \E s \in Sockets : socket[s].pipe = "awaits"
    BY <1>1, <2>4 DEF Got, Going
  <2> QED BY <2>1, <2>2, <2>3, <2>4 DEF Going
<1>2. CASE ClientSends
  <2>1. ws = "open" /\ UNCHANGED <<route, up, socket>> /\ up.state # "errored"
    BY <1>2 DEF ClientSends
  <2>2. Len(Append(inbox, sent + 1)) = Len(inbox) + 1 /\ Len(inbox) \in Nat /\ sent \in Nat
    BY DEF Types
  <2>3. Taken' = Taken
    BY <1>2, <2>1, <2>2 DEF ClientSends, Taken
  <2> QED BY <1>1, <2>1, <2>3
<1>3. CASE TakeChunk
  <2>1. up.state = "idle" /\ inbox # <<>> /\ sent' = sent /\ up.chunk = Nobody
    BY <1>3, TakeCases DEF Writing
  <2>2. inbox' = Tail(inbox) => Taken' = Taken + 1 /\ inbox[1] = Taken + 1
    <3>1. inbox' = Tail(inbox) =>
            Len(inbox) >= 1 /\ Len(inbox') = Len(inbox) - 1 /\ Len(inbox) \in Nat /\ sent \in Nat
      BY <2>1, TailFacts DEF Types
    <3>2. inbox' = Tail(inbox) => 1 \in 1..Len(inbox)
      BY <3>1
    <3> QED BY <2>1, <3>1, <3>2 DEF Taken, Numbered
  <2>3. CASE TakesTcp
    <3>1. Taken' = 1
      BY <2>1, <2>2, <2>3 DEF TakesTcp, Begun
    <3>2. socket'[Direct].pipe = "awaits" /\ Direct \in Sockets
      BY <2>3, Constructors DEF TakesTcp, Types
    <3>3. n = 1
      BY <3>1
    <3> QED BY <3>2, <3>3 DEF Going
  <2>4. CASE TakesLater
    <3>1. /\ up'.chunk = inbox[1]
          /\ \A s \in Sockets : socket'[s].got = socket[s].got /\ socket'[s].pipe = socket[s].pipe
      BY <2>1, <2>4, LaterFacts
    <3>2. UNCHANGED <<ws, route>> /\ Taken' = Taken + 1 /\ inbox[1] = Taken + 1
      BY <2>2, <2>4 DEF TakesLater
    <3>3. CASE n = Taken + 1
      BY <3>1, <3>2, <3>3 DEF Going
    <3>4. CASE n # Taken + 1
      <4>1. n \in 1..Taken
        BY <1>0, <3>2, <3>4
      <4>2. Got(n) \/ Going(n)
        BY <2>1, <3>2, <4>1 DEF Covered
      <4> QED BY <1>0, <2>1, <3>1, <4>2 DEF Got, Going
    <3> QED BY <3>3, <3>4
  <2>5. ~TakesFails /\ ~TakesDns /\ ~TakesQuery
    <3>1. TakesFails => ws' = "closed"
      BY DEF TakesFails, UpFails
    <3>2. TakesDns \/ TakesQuery => route' = "dns"
      BY DEF TakesDns, TakesQuery
    <3> QED BY <3>1, <3>2
  <2> QED BY <1>3, <2>3, <2>4, <2>5, TakeCases
<1>4. CASE Written
  <2> DEFINE t == up.to
             got == socket[t].got
  <2>1. t \in Sockets /\ up.state = "writing" /\ up.chunk \in Nat /\ got \in Seq(Nat)
    BY <1>4 DEF Written, Writing, Types, SocketType, UpType
  <2>2. /\ socket' = [socket EXCEPT ![t].got = Append(@, up.chunk), ![t].locked = FALSE]
        /\ UNCHANGED <<sent, inbox, route, ws>>
    BY <1>4 DEF Written
  <2> HIDE DEF got, t
  <2>3. Range(Append(got, up.chunk)) = Range(got) \cup {up.chunk}
    BY <2>1, AppendFacts
  <2>4. /\ socket'[t].got = Append(got, up.chunk) /\ socket'[t].pipe = socket[t].pipe
        /\ \A s \in Sockets \ {t} : socket'[s] = socket[s]
    BY <2>1, <2>2 DEF Types, SocketType, got
  <2>5. \A s \in Sockets : Range(socket[s].got) \subseteq Range(socket'[s].got)
    BY <2>3, <2>4 DEF got
  <2>6. up.chunk \in Range(socket'[t].got)
    BY <2>3, <2>4
  <2> QED BY <1>1, <2>1, <2>2, <2>4, <2>5, <2>6 DEF Taken
<1>5. CASE ClientDone
  <2>1. up.chunk = Nobody /\ up.state # "errored"
    BY <1>5 DEF ClientDone, Writing
  <2>2. \A s \in Sockets : socket'[s].got = socket[s].got /\ socket'[s].pipe = socket[s].pipe
    BY <1>5 DEF ClientDone, Closed, Types, SocketType
  <2>3. UNCHANGED <<sent, inbox, route, ws>>
    BY <1>5 DEF ClientDone
  <2> QED BY <1>1, <2>1, <2>2, <2>3 DEF Taken
<1>6. ASSUME NEW s \in Sockets, FirstWritten(s) PROVE Got(n)' \/ Going(n)'
  <2> DEFINE got == socket[s].got
  <2>1. got \in Seq(Nat) /\ 1 \in Nat
    BY DEF Types, SocketType
  <2>2. /\ socket' = [socket EXCEPT ![s].got = Append(@, 1), ![s].locked = FALSE, ![s].pipe = "runs"]
        /\ UNCHANGED <<sent, inbox, route, ws, up>>
    BY <1>6 DEF FirstWritten
  <2> HIDE DEF got
  <2>3. Range(Append(got, 1)) = Range(got) \cup {1}
    BY <2>1, AppendFacts
  <2>4. /\ socket'[s].got = Append(got, 1)
        /\ \A t \in Sockets \ {s} : socket'[t] = socket[t]
    BY <2>2 DEF Types, SocketType, got
  <2>5. \A t \in Sockets : Range(socket[t].got) \subseteq Range(socket'[t].got)
    BY <2>3, <2>4 DEF got
  <2>6. \A t \in Sockets : socket[t].pipe = "awaits" =>
          socket'[t].pipe = "awaits" \/ 1 \in Range(socket'[t].got)
    BY <2>3, <2>4
  <2> QED BY <1>1, <2>2, <2>5, <2>6 DEF Taken
<1>7. ASSUME NEW s \in Sockets, Reply(s) PROVE Got(n)' \/ Going(n)'
  <2>1. UNCHANGED <<sent, inbox, route, ws, up>>
        /\ \A t \in Sockets : socket'[t].got = socket[t].got
    BY <1>7, ReplyFacts
  <2>2. \A t \in Sockets : socket[t].pipe = "awaits" => socket'[t].pipe = "awaits"
    BY <1>7, ReplyFacts
  <2> QED BY <1>1, <2>1, <2>2 DEF Taken
<1>8. CASE Resolve \/ \E s \in Sockets : PipeOver(s)
  <2>1. /\ \A t \in Sockets : /\ socket'[t].got = socket[t].got
                              /\ socket[t].pipe = "awaits" => socket'[t].pipe = "awaits"
        /\ UNCHANGED <<sent, inbox, up>> /\ ws' \in {ws, "closed"}
        /\ route \in {"tcp", "resolving", "abandoned"} /\ (route = "abandoned" => route' = "abandoned")
    BY <1>8, SecondSocket
  <2> QED BY <1>1, <2>1 DEF Taken
<1>9. CASE QueryFails \/ Answer \/ UNCHANGED relayVars
  <2>1. UNCHANGED <<sent, inbox, up, socket, ws, route>>
    BY <1>9 DEF QueryFails, Answer, relayVars
  <2> QED BY <1>1, <2>1 DEF Taken
<1>10. ws' = "closed" => FALSE
  OBVIOUS
<1>11. ~ClientCloses /\ ~ClientFails /\ ~NotWritten /\ ~RetriedCloses /\ \A s \in Sockets : ~FirstFails(s)
  BY <1>10 DEF ClientCloses, ClientFails, NotWritten, RetriedCloses, FirstFails, UpFails
<1> QED
  BY <1>2, <1>3, <1>4, <1>5, <1>6, <1>7, <1>8, <1>9, <1>11, PipesAreOver
  DEF RelayNext, Client, Worker, Remote

\* Replies go on being numbered and counted against their socket.
LEMMA StepDownwards == Inv /\ [RelayNext]_relayVars => Downwards'
<1> SUFFICES ASSUME Inv, Types, Numbered, Plumbing, Begun, Downwards, [RelayNext]_relayVars,
                    Types', Taken' \in Nat, Taken' >= Taken
             PROVE  Downwards'
  BY StepTypes, StepNumbered DEF Inv, Upwards
<1> USE DEF inputVars, clientVars, remoteVars
<1>0. /\ Taken \in Nat /\ Len(down) \in Nat /\ Len(queries) \in Nat /\ Len(<<>>) = 0
      /\ DOMAIN down = 1..Len(down) /\ down \in Seq(ReplyType) /\ queries \in Seq(Nat)
      /\ \A s \in Sockets : socket[s].replies \in Nat
  <2>1. Taken \in Nat /\ down \in Seq(ReplyType) /\ queries \in Seq(Nat)
    BY DEF Types, Taken
  <2>2. \A s \in Sockets : socket[s].replies \in Nat
    BY DEF Types, SocketType
  <2> QED BY <2>1, <2>2
<1>b. Direct # Retried /\ Sockets = {Direct, Retried} /\ Retried # Nobody /\ Direct # Nobody
  BY DEF Sockets, Direct, Retried, Nobody
\* A step that sends nothing, and takes nothing.
<1>1. ASSUME UNCHANGED <<protocol, down>>, ws' \in {ws, "closed"},
             value # Nobody \/ value' = Nobody, route' = "none" => route = "none",
             \/ route' = route /\ queries' = queries
             \/ route \notin {"dns", "dns failed"} /\ route' \notin {"dns", "dns failed"} /\ queries' = queries
             \/ route = "dns" /\ route' = "dns failed",
             \A s \in Sockets : socket'[s].replies = socket[s].replies,
             ws' = "open" => Taken' = Taken
      PROVE  Downwards'
  BY <1>b, <1>1 DEF Downwards
<1>2. CASE ClientSends
  <2>1. CASE up.state # "errored"
    <3>1. Len(Append(inbox, sent + 1)) = Len(inbox) + 1 /\ Len(inbox) \in Nat /\ sent \in Nat
      BY DEF Types
    <3>2. Taken' = Taken
      BY <1>2, <2>1, <3>1 DEF ClientSends, Taken
    <3> QED BY <1>1, <1>2, <3>2 DEF ClientSends
  <2>2. CASE up.state = "errored"
    <3>1. route = "none" /\ UNCHANGED <<protocol, down, queries, route, value, socket, ws>>
      BY <1>2, <2>2 DEF ClientSends, Numbered
    <3> QED BY <3>1 DEF Downwards
  <2> QED BY <2>1, <2>2
<1>3. CASE ClientCloses
  BY <1>1, <1>3 DEF ClientCloses, Taken
<1>4. ASSUME UpFails(value), UNCHANGED <<protocol, down, queries, route, value>> PROVE Downwards'
  <2>1. ws' = "closed" /\ \A s \in Sockets : socket'[s].replies = socket[s].replies
    BY <1>4, UpFailsFacts
  <2> QED BY <1>1, <1>4, <2>1
<1>5. CASE ClientFails
  BY <1>1, <1>4, <1>5 DEF ClientFails, Taken
<1>6. CASE TakeChunk
  <2>1. /\ up.state = "idle" /\ inbox # <<>> /\ sent' = sent /\ UNCHANGED <<protocol, down>>
    BY <1>6, TakeCases
  <2>2. inbox' = Tail(inbox) =>
          Taken' = Taken + 1 /\ inbox[1] = Taken + 1 /\ Head(inbox) = inbox[1]
    <3>1. inbox' = Tail(inbox) =>
            /\ Len(inbox) >= 1 /\ Len(inbox') = Len(inbox) - 1 /\ Len(inbox) \in Nat
            /\ sent \in Nat /\ Head(inbox) = inbox[1]
      BY <2>1, TailFacts DEF Types
    <3>2. inbox' = Tail(inbox) => 1 \in 1..Len(inbox)
      BY <3>1
    <3> QED BY <2>1, <3>1, <3>2 DEF Taken, Numbered
  <2>3. CASE TakesFails
    BY <1>4, <2>1, <2>3 DEF TakesFails
  <2>4. CASE TakesTcp
    <3>1. route = "none" /\ route' = "tcp" /\ queries' = queries /\ down = <<>> /\ queries = <<>>
      BY <2>4 DEF TakesTcp, Downwards
    <3>2. \A s \in Sockets : socket'[s].replies = 0
      <4>1. value = Nobody
        BY <3>1 DEF Plumbing, Routed
      <4>2. \A s \in Sockets : socket[s].pipe = "none" /\ socket[s] = NoSocket
        BY <4>1 DEF Plumbing, Made, Sockets, Direct, Retried, Nobody
      <4> QED BY <2>4, <4>2, Constructors DEF TakesTcp, Types
    <3>3. Len(down') = 0 /\ DOMAIN down' = {}
      BY <1>0, <2>1, <3>1
    <3>4. socket'[Direct].replies + socket'[Retried].replies = 0
      BY <1>b, <3>2
    <3> QED BY <2>1, <3>1, <3>3, <3>4 DEF Downwards
  <2>5. CASE TakesDns
    <3>1. /\ route = "none" /\ route' = "dns" /\ protocol = "vless" /\ down = <<>>
          /\ queries' = <<Head(inbox)>> /\ inbox' = Tail(inbox) /\ value' = value
      BY <2>5 DEF TakesDns, Downwards
    <3>2. Taken = 0 /\ value = Nobody
      BY <2>1, <3>1 DEF Begun, Plumbing, Routed
    <3>3. Head(inbox) = 1 /\ Taken' = 1
      BY <2>2, <3>1, <3>2
    <3>4. Len(queries') = 1 /\ queries'[1] = 1 /\ 1..1 = {1}
      BY <3>1, <3>3
    <3>5. Len(down') = 0 /\ DOMAIN down' = {}
      BY <1>0, <2>1, <3>1
    <3> QED BY <2>1, <3>1, <3>2, <3>3, <3>4, <3>5 DEF Downwards
  <2>6. CASE TakesQuery
    <3>1. /\ route = "dns" /\ queries' = Append(queries, Head(inbox))
          /\ inbox' = Tail(inbox) /\ UNCHANGED <<ws, route, value, socket>>
      BY <2>6 DEF TakesQuery
    <3>2. Head(inbox) = Taken + 1 /\ Taken' = Taken + 1
      BY <2>2, <3>1
    <3>3. /\ Len(queries') = Len(queries) + 1
          /\ \A i \in 1..Len(queries) : queries'[i] = queries[i]
          /\ queries'[Len(queries) + 1] = Taken + 1
      BY <1>0, <3>1, <3>2, AppendFacts
    <3>4. ASSUME ws' = "open"
          PROVE  /\ Len(down') + Len(queries') = Taken'
                 /\ \A i \in 1..Len(queries') : queries'[i] = Len(down') + i
      <4>1. /\ Len(down) + Len(queries) = Taken
            /\ \A i \in 1..Len(queries) : queries[i] = Len(down) + i
        BY <3>1, <3>4 DEF Downwards
      <4> QED BY <1>0, <2>1, <3>2, <3>3, <4>1
    <3>5. value = Nobody
      BY <3>1 DEF Plumbing, Routed
    <3> QED BY <2>1, <3>1, <3>4, <3>5 DEF Downwards
  <2>7. CASE TakesLater
    <3>1. UNCHANGED <<ws, route, value, queries>> /\ value \in Sockets
          /\ \A s \in Sockets : socket'[s].replies = socket[s].replies
      BY <2>1, <2>7, LaterFacts DEF TakesLater
    <3>2. route # "dns"
      BY <1>b, <3>1 DEF Plumbing, Routed
    <3> QED BY <1>b, <2>1, <3>1, <3>2 DEF Downwards
  <2> QED BY <1>6, <2>3, <2>4, <2>5, <2>6, <2>7, TakeCases
<1>7. CASE NotWritten
  BY <1>4, <1>7 DEF NotWritten
<1>8. CASE Written \/ ClientDone \/ \E s \in Sockets : FirstWritten(s) \/ FirstFails(s)
  <2>1. /\ UNCHANGED <<protocol, down, sent, inbox, route, value, queries>>
        /\ ws' \in {ws, "closed"}
    BY <1>8 DEF Written, ClientDone, FirstWritten, FirstFails
  <2>2. \A s \in Sockets : socket'[s].replies = socket[s].replies
    <3>1. CASE Written
      BY <3>1 DEF Written, Types, SocketType
    <3>2. CASE ClientDone
      BY <3>2 DEF ClientDone, Closed, Types, SocketType
    <3>3. ASSUME NEW t \in Sockets, FirstWritten(t) PROVE \A s \in Sockets : socket'[s].replies = socket[s].replies
      BY <3>3 DEF FirstWritten, Types, SocketType
    <3>4. ASSUME NEW t \in Sockets, FirstFails(t) PROVE \A s \in Sockets : socket'[s].replies = socket[s].replies
      BY <3>4 DEF FirstFails, Types, SocketType
    <3> QED BY <1>8, <3>1, <3>2, <3>3, <3>4
  <2> QED BY <1>1, <2>1, <2>2 DEF Taken
<1>9. ASSUME NEW s \in Sockets, Reply(s) PROVE Downwards'
  <2> DEFINE n == socket[s].replies + 1
             r == [from |-> s, n |-> n, headed |-> protocol = "vless" /\ n = 1]
  <2>1. /\ socket[s].pipe = "runs" /\ UNCHANGED <<protocol, sent, inbox, ws, route, value, queries>>
        /\ socket'[s].replies = n /\ \A t \in Sockets \ {s} : socket'[t] = socket[t]
    BY <1>9, ReplyFacts
  <2>a. n \in Nat /\ n > 0
    BY <1>0
  <2>b. value # Nobody /\ route \in {"tcp", "resolving", "abandoned"}
    BY <2>1, ValueFacts
  <2>2. value # Nobody /\ route \notin {"none", "dns", "dns failed"} /\ n \in Nat /\ n > 0
    BY <2>a, <2>b
  <2>3. \A t \in Sockets : socket'[t].replies >= socket[t].replies
    BY <1>0, <2>1
  <2>4. CASE ws # "open"
    <3>1. down' = down
      BY <1>9, <2>4 DEF Reply
    <3>2. \A i \in DOMAIN down : down[i].from \in Sockets /\ socket'[down[i].from].replies > 0
      <4>1. ASSUME NEW i \in DOMAIN down
            PROVE  down[i].from \in Sockets /\ socket'[down[i].from].replies > 0
        <5>1. down[i].from \in Sockets /\ socket[down[i].from].replies > 0
          BY <2>2 DEF Downwards
        <5> HIDE DEF n
        <5> QED BY <1>0, <2>1, <2>2, <5>1
      <4> QED BY <4>1
    <3> QED BY <2>1, <2>2, <2>4, <3>1, <3>2 DEF Downwards
  <2>5. CASE ws = "open"
    <3>1. down' = Append(down, r)
      BY <1>9, <2>5 DEF Reply
    <3>2. Len(down) = socket[Direct].replies + socket[Retried].replies
      BY <2>2, <2>5 DEF Downwards
    <3>3. \A t \in Sockets \ {s} : socket[t].replies = 0
      <4>1. CASE s = Direct
        <5>1. socket[Retried] = NoSocket
          BY <1>b, <2>1, <4>1, RetriedIsNew DEF Plumbing, Made
        <5> QED BY <1>b, <4>1, <5>1, Constructors
      <4>2. CASE s = Retried
        <5>1. s <= value /\ s = 2 /\ value \in {0, 1, 2}
          BY <2>1, <4>2, ValueFacts DEF Types, Sockets, Direct, Retried, Nobody
        <5>2. value = Retried
          BY <4>2, <5>1
        <5> QED BY <1>b, <4>2, <5>2 DEF Plumbing, InTurn
      <4> QED BY <1>b, <4>1, <4>2
    <3>4. n = Len(down) + 1
      BY <1>0, <1>b, <3>2, <3>3
    <3>5. Len(down') = socket'[Direct].replies + socket'[Retried].replies
      <4>1. \A t \in Sockets \ {s} : socket'[t].replies = 0
        BY <2>1, <3>3
      <4>2. Len(down') = n
        BY <1>0, <3>1, <3>4
      <4>3. socket'[s].replies = n /\ n \in Nat
        BY <2>1, <2>2
      <4> HIDE DEF n
      <4>4. CASE s = Direct
        <5>1. socket'[Retried].replies = 0
          BY <1>b, <4>1, <4>4
        <5> QED BY <4>2, <4>3, <4>4, <5>1
      <4>5. CASE s = Retried
        <5>1. socket'[Direct].replies = 0
          BY <1>b, <4>1, <4>5
        <5> QED BY <4>2, <4>3, <4>5, <5>1
      <4> QED BY <1>b, <4>4, <4>5
    <3>6. r \in ReplyType /\ r.from = s /\ r.n = Len(down) + 1
          /\ r.headed = (Len(down) + 1 = 1 /\ protocol = "vless")
      <4>1. (protocol = "vless" /\ n = 1) \in BOOLEAN
        OBVIOUS
      <4>2. r.headed = (n = 1 /\ protocol = "vless")
        BY <4>1
      <4> HIDE DEF n
      <4> QED BY <2>2, <3>4, <4>1, <4>2 DEF ReplyType
    <3> HIDE DEF r
    <3>7. /\ DOMAIN down' = 1..(Len(down) + 1) /\ down'[Len(down) + 1] = r
          /\ \A i \in 1..Len(down) : down'[i] = down[i]
      BY <1>0, <3>1, <3>6, AppendFacts
    <3>8. \A i \in DOMAIN down' :
            down'[i].n = i /\ down'[i].headed = (i = 1 /\ protocol = "vless")
      <4>1. \A i \in 1..Len(down) :
              down'[i].n = i /\ down'[i].headed = (i = 1 /\ protocol = "vless")
        BY <1>0, <3>7 DEF Downwards
      <4>2. \A i \in DOMAIN down' : i \in 1..Len(down) \/ i = Len(down) + 1
        BY <1>0, <3>7
      <4> HIDE DEF n
      <4> QED BY <3>6, <3>7, <4>1, <4>2
    <3>9. \A i \in DOMAIN down' : down'[i].from \in Sockets /\ socket'[down'[i].from].replies > 0
      <4>1. ASSUME NEW i \in 1..Len(down)
            PROVE  down[i].from \in Sockets /\ socket'[down[i].from].replies > 0
        <5>1. down[i].from \in Sockets /\ socket[down[i].from].replies > 0
          BY <1>0, <2>2 DEF Downwards
        <5> HIDE DEF n
        <5> QED BY <1>0, <2>1, <2>2, <5>1
      <4>2. socket'[s].replies > 0
        BY <2>1, <2>2
      <4> QED BY <1>0, <3>6, <3>7, <4>1, <4>2
    <3> QED BY <2>1, <2>2, <3>5, <3>8, <3>9 DEF Downwards
  <2> QED BY <2>4, <2>5
<1>10. CASE Resolve \/ \E s \in Sockets : PipeOver(s)
  <2>1. /\ \A t \in Sockets : socket'[t].replies = socket[t].replies
        /\ UNCHANGED <<protocol, sent, inbox, queries, down>> /\ ws' \in {ws, "closed"}
        /\ value # Nobody /\ value' # Nobody
        /\ route \in {"tcp", "resolving", "abandoned"} /\ route' \in {"tcp", "resolving", "abandoned"}
    BY <1>10, SecondSocket
  <2> QED BY <1>1, <2>1 DEF Taken
<1>11. CASE RetriedCloses
  BY <1>1, <1>11 DEF RetriedCloses, Taken
<1>12. CASE Answer
  <2> DEFINE r == [from |-> Nobody, n |-> Head(queries), headed |-> down = <<>>]
  <2>1. /\ queries # <<>> /\ route = "dns" /\ queries' = Tail(queries)
        /\ UNCHANGED <<protocol, sent, inbox, ws, route, value, socket>>
    BY <1>12 DEF Answer
  <2>2. value = Nobody /\ Taken' = Taken
    BY <2>1 DEF Plumbing, Routed, Taken
  <2>3. CASE ws # "open"
    <3>1. down' = down
      BY <1>12, <2>3 DEF Answer
    <3> QED BY <2>1, <2>2, <2>3, <3>1 DEF Downwards
  <2>4. CASE ws = "open"
    <3>1. down' = Append(down, r)
      BY <1>12, <2>4 DEF Answer
    <3>2. /\ Len(down) + Len(queries) = Taken /\ protocol = "vless"
          /\ \A i \in 1..Len(queries) : queries[i] = Len(down) + i
      BY <2>1, <2>4 DEF Downwards
    <3>3. /\ Len(queries) >= 1 /\ Head(queries) = queries[1] /\ Len(queries') = Len(queries) - 1
          /\ \A i \in 1..(Len(queries) - 1) : queries'[i] = queries[i + 1]
      BY <1>0, <2>1, TailFacts
    <3>4. Head(queries) = Len(down) + 1
      BY <1>0, <3>2, <3>3
    <3>5. down = <<>> <=> Len(down) + 1 = 1
      BY <1>0
    <3>6. r \in ReplyType /\ r.from = Nobody /\ r.n = Len(down) + 1
          /\ r.headed = (Len(down) + 1 = 1 /\ protocol = "vless")
      <4>1. (down = <<>>) \in BOOLEAN /\ Head(queries) \in Nat
        BY <1>0, <3>4
      <4>2. r.headed = (Len(down) + 1 = 1 /\ protocol = "vless")
        BY <3>2, <3>5
      <4> QED BY <3>4, <4>1, <4>2 DEF ReplyType
    <3> HIDE DEF r
    <3>7. /\ DOMAIN down' = 1..(Len(down) + 1) /\ down'[Len(down) + 1] = r
          /\ \A i \in 1..Len(down) : down'[i] = down[i] /\ Len(down') = Len(down) + 1
      BY <1>0, <3>1, <3>6, AppendFacts
    <3>8. \A i \in DOMAIN down' :
            down'[i].n = i /\ down'[i].headed = (i = 1 /\ protocol = "vless") /\ down'[i].from = Nobody
      BY <1>0, <2>1, <3>6, <3>7 DEF Downwards
    <3>9. Len(down') = Len(down) + 1
      BY <1>0, <3>1, <3>6, AppendFacts
    <3>10. Len(down') + Len(queries') = Taken' /\ \A i \in 1..Len(queries') : queries'[i] = Len(down') + i
      <4>1. ASSUME NEW i \in 1..Len(queries') PROVE queries'[i] = Len(down') + i
        <5>1. i \in Nat /\ i + 1 \in 1..Len(queries) /\ queries'[i] = queries[i + 1]
          BY <1>0, <3>3, <4>1
        <5> QED BY <1>0, <3>2, <3>9, <5>1
      <4>2. Len(down') + Len(queries') = Taken'
        <5>1. Len(queries') = Len(queries) - 1 /\ Len(down) + Len(queries) = Taken
          BY <3>2, <3>3
        <5>2. Len(down) \in Nat /\ Len(queries) \in Nat
          BY <1>0
        <5> QED BY <2>2, <3>9, <5>1, <5>2
      <4> QED BY <4>1, <4>2
    <3> QED BY <2>1, <2>2, <3>2, <3>8, <3>10 DEF Downwards
  <2> QED BY <2>3, <2>4
<1>13. CASE QueryFails
  BY <1>1, <1>13 DEF QueryFails, Taken
<1>14. CASE UNCHANGED relayVars
  BY <1>1, <1>14 DEF relayVars, Taken
<1> QED
  BY <1>2, <1>3, <1>5, <1>6, <1>7, <1>8, <1>9, <1>10, <1>11, <1>12, <1>13, <1>14, PipesAreOver
  DEF RelayNext, Client, Worker, Remote

-----------------------------------------------------------------------------
\* Inv holds in every state a tunnel can reach.
THEOREM Invariance == RelaySpec => []Inv
<1>1. Inv /\ [RelayNext]_relayVars => Inv'
  BY StepTypes, StepNumbered, StepPlumbing, StepUpwards, StepCovered, StepDownwards DEF Inv
<1> QED BY InitInv, <1>1, PTL DEF RelaySpec

\* No socket ever gets chunks of the client out of order or twice, none that was taken is
\* missing from all of them while the tunnel is up, and what the client is sent is what one
\* source answered, in order and with one header (vless.ts, trojan.ts, common.ts).
THEOREM TunnelKeepsOrder == RelaySpec => []NothingReordered
<1>1. Inv => RepliesInOrder
  <2> SUFFICES ASSUME Inv, NEW i \in DOMAIN down
               PROVE  /\ down[i].n = i /\ down[i].from = down[1].from
                      /\ down[i].headed = (i = 1 /\ protocol = "vless")
    BY DEF RepliesInOrder
  <2>1. down[i].n = i /\ down[i].headed = (i = 1 /\ protocol = "vless")
    BY DEF Inv, Downwards
  <2>2. 1 \in DOMAIN down
    BY DEF Inv, Types
  <2>3. CASE value = Nobody
    <3>1. route \in {"dns", "dns failed"} \/ route = "none"
      BY <2>3 DEF Inv, Plumbing, Routed
    <3>2. route # "none"
      <4>1. down # <<>>
        BY <2>2
      <4> QED BY <4>1 DEF Inv, Downwards
    <3>3. \A j \in DOMAIN down : down[j].from = Nobody
      BY <3>1, <3>2 DEF Inv, Downwards
    <3> QED BY <2>1, <2>2, <3>3
  <2>4. CASE value # Nobody
    <3>1. \A j \in {1, i} : down[j].from \in Sockets /\ socket[down[j].from].replies > 0
      BY <2>2, <2>4 DEF Inv, Downwards
    <3>2. ~(socket[Direct].replies > 0 /\ socket[Retried].replies > 0)
      <4>1. CASE value = Retried
        BY <4>1 DEF Inv, Plumbing, InTurn
      <4>2. CASE value # Retried
        <5>1. value < 2 /\ Retried = 2 /\ Retried \in Sockets
          BY <4>2 DEF Inv, Types, Sockets, Direct, Retried, Nobody
        <5>2. socket[Retried] = NoSocket
          BY <5>1 DEF Inv, Plumbing, Made
        <5> QED BY <5>2, Constructors
      <4> QED BY <4>1, <4>2
    <3>3. \A s \in Sockets : s = Direct \/ s = Retried
      BY DEF Sockets
    <3> QED BY <2>1, <3>1, <3>2, <3>3
  <2> QED BY <2>3, <2>4
<1>2. Inv => ChunksInOrder
  <2> SUFFICES ASSUME Inv PROVE ChunksInOrder
    OBVIOUS
  <2>1. ASSUME NEW s \in Sockets
        PROVE  /\ socket[s].got # <<>> => Head(socket[s].got) = 1
               /\ Increasing(socket[s].got)
    <3>1. socket[s].got \in Seq(Nat) /\ Sorted(socket[s].got, Taken)
      BY DEF Inv, Types, SocketType, Upwards, Ordered
    <3> QED BY <3>1 DEF Sorted
  <2>2. ASSUME route \in {"tcp", "resolving"}, up.state # "errored", ws = "open",
               NEW n \in 1..sent, n \notin Range(inbox)
        PROVE  Got(n) \/ Going(n)
    <3>1. /\ Len(inbox) \in Nat /\ sent \in Nat /\ Len(inbox) <= sent /\ DOMAIN inbox = 1..Len(inbox)
          /\ \A i \in 1..Len(inbox) : inbox[i] = Taken + i
      BY DEF Inv, Types, Numbered
    <3>2. CASE n <= Taken
      <4>1. n \in 1..Taken
        BY <3>1, <3>2 DEF Taken
      <4> QED BY <2>2, <4>1 DEF Inv, Covered
    <3>3. CASE n > Taken
      <4>1. n - Taken \in 1..Len(inbox) /\ Taken + (n - Taken) = n
        BY <3>1, <3>3 DEF Taken
      <4>2. inbox[n - Taken] = n
        BY <3>1, <4>1
      <4> QED BY <2>2, <3>1, <4>1, <4>2 DEF Range
    <3>4. n <= Taken \/ n > Taken
      BY <3>1 DEF Taken
    <3> QED BY <3>2, <3>3, <3>4
  <2>3. \A n : Got(n) => n \in Range(socket[Direct].got) \cup Range(socket[Retried].got)
    BY DEF Got, Sockets
  <2>4. \A n : Going(n) => n \in {up.chunk} \cup (IF \E s \in Sockets : socket[s].pipe = "awaits" THEN {1} ELSE {})
    BY DEF Going
  <2> QED BY <2>1, <2>2, <2>3, <2>4 DEF ChunksInOrder
<1>3. Inv => NothingReordered
  BY <1>1, <1>2 DEF NothingReordered
<1> QED BY Invariance, <1>3, PTL
=============================================================================
