------------------------------- MODULE Relay --------------------------------
(***************************************************************************)
(* One tunnel: a client speaks VLESS or Trojan over a WebSocket, and the   *)
(* Worker relays it to a remote over TCP (protocols/vless.ts, trojan.ts,   *)
(* common.ts).  The first chunk names the remote.  A remote that ends the  *)
(* connection without a byte is tried once more through a proxy address.   *)
(* A VLESS client may ask for DNS instead, which is forwarded over HTTPS.  *)
(*                                                                         *)
(* Upwards, a pipe takes the client's chunks one by one and writes each to *)
(* the socket of the moment; downwards, each socket has a pipe of its own. *)
(* A writable stream has one lock: asking for a writer while another write *)
(* is pending throws.  Chunks are numbered as they are sent.               *)
(***************************************************************************)
EXTENDS Naturals, Sequences, SequencesExt

CONSTANTS
    Protocols,   \* "vless", "trojan"
    Headers,     \* what the first chunk may say
    Modes,       \* what proxyIpMode may be
    MaxChunks,   \* bound: chunks the client sends
    MaxReplies   \* bound: chunks a remote sends

Direct  == 1
Retried == 2
Sockets == {Direct, Retried}
Nobody    == 0

Fields == [length : BOOLEAN, user : BOOLEAN, command : {"tcp", "udp", "other"},
           port : {53, 443}, address : BOOLEAN]

ASSUME RelayAssumption ==
    /\ Protocols \subseteq {"vless", "trojan"} /\ Headers \subseteq Fields
    /\ Modes \subseteq {"proxyip", "prefix"}
    /\ {MaxChunks, MaxReplies} \subseteq Nat

VARIABLES
    protocol, header,           \* what the client speaks, and its first chunk
    mode, configured, resolves, \* the settings of a retry, and whether DNS answers it
    client,     \* TRUE while the client is there
    ws,         \* the server's end of the WebSocket
    sent,       \* how many chunks the client has sent
    inbox,      \* the chunks the readable stream holds
    finished,   \* whether the stream has been told of the close
    up,         \* the upward pipe: idle, or writing a chunk to a socket, or over
    route,      \* what the first chunk has led to
    value,      \* remoteSocket.value
    socket,     \* the sockets
    queries,    \* DNS queries not answered yet
    down        \* what the client has been sent

inputVars  == <<protocol, header, mode, configured, resolves>>
clientVars == <<client, ws, sent, inbox, finished>>
remoteVars == <<route, value, socket, queries>>
relayVars == <<inputVars, clientVars, up, remoteVars, down>>

Idle     == [state |-> "idle", chunk |-> Nobody, to |-> Nobody]
Over(s)  == [Idle EXCEPT !.state = s]
NoSocket == [state |-> "none", locked |-> FALSE, got |-> <<>>, pipe |-> "none", replies |-> 0]

\* What the header of a garbled Sec-WebSocket-Protocol leaves: an errored stream.
RelayInit ==
    /\ protocol \in Protocols /\ header \in Headers
    /\ mode \in Modes /\ configured \in BOOLEAN /\ resolves \in BOOLEAN
    /\ client = TRUE /\ ws = "open" /\ finished = FALSE
    /\ \E early \in {"none", "data", "garbled"} :
         /\ inbox = IF early = "data" THEN <<1>> ELSE <<>>
         /\ up = IF early = "garbled" THEN Over("errored") ELSE Idle
    /\ sent = Len(inbox)
    /\ route = "none" /\ value = Nobody /\ queries = <<>> /\ down = <<>>
    /\ socket = [s \in Sockets |-> NoSocket]

-----------------------------------------------------------------------------
(***************************************************************************)
(* The first chunk: whose it is, what it asks for, and of whom.            *)
(***************************************************************************)
ParseVlHeader(h) ==
    IF ~h.length \/ ~h.user \/ h.command = "other" \/ ~h.address THEN "error" ELSE h.command

ParseTrHeader(h) ==
    IF ~h.length \/ ~h.user \/ h.command # "tcp" \/ ~h.address THEN "error" ELSE "tcp"

\* Of UDP, only DNS.
Asked ==
    LET parsed == IF protocol = "vless" THEN ParseVlHeader(header) ELSE ParseTrHeader(header)
    IN CASE parsed = "udp" -> IF header.port = 53 THEN "dns" ELSE "error"
         [] OTHER          -> parsed

-----------------------------------------------------------------------------
(***************************************************************************)
(* The ends of a tunnel.                                                   *)
(***************************************************************************)
\* safeCloseTcpSocket
Closed(sockets, s) == IF s = Nobody THEN sockets ELSE [sockets EXCEPT ![s].state = "closed"]

\* An errored pipe cancels its stream, which closes the WebSocket; the catch closes the
\* socket of the moment.
UpFails(current) ==
    /\ up' = Over("errored")
    /\ inbox' = <<>>
    /\ ws' = "closed"
    /\ socket' = Closed(socket, current)

-----------------------------------------------------------------------------
(***************************************************************************)
(* The client (makeReadableWebSocketStream).                               *)
(***************************************************************************)
ClientSends ==
    /\ client /\ ws = "open" /\ sent < MaxChunks
    /\ sent' = sent + 1
    /\ inbox' = IF up.state = "errored" THEN inbox ELSE Append(inbox, sent + 1)
    /\ UNCHANGED <<inputVars, client, ws, finished, up, remoteVars, down>>

\* The close event: what has been received is still relayed.
ClientCloses ==
    /\ client
    /\ client' = FALSE
    /\ ws' = "closed"
    /\ finished' = TRUE
    /\ UNCHANGED <<inputVars, sent, inbox, up, remoteVars, down>>

\* The error event errors the stream, and the pipe with it.
ClientFails ==
    /\ client
    /\ client' = FALSE
    /\ IF up.state \in {"closed", "errored"}
         THEN ws' = "closed" /\ UNCHANGED <<up, inbox, socket>>
         ELSE UpFails(value)
    /\ UNCHANGED <<inputVars, sent, finished, route, value, queries, down>>

-----------------------------------------------------------------------------
(***************************************************************************)
(* Upwards (the writable stream of VlOverWSHandler and TrOverWSHandler).   *)
(***************************************************************************)

\* connectAndWrite, as far as its await.
Connecting == [NoSocket EXCEPT !.state = "open", !.locked = TRUE, !.pipe = "awaits"]

TakeFirst ==
    \/ /\ Asked = "tcp"
       /\ route' = "tcp"
       /\ value' = Direct
       /\ socket' = [socket EXCEPT ![Direct] = Connecting]
       /\ inbox' = Tail(inbox)
       /\ UNCHANGED <<up, ws, queries>>
    \/ /\ Asked = "dns"
       /\ route' = "dns"
       /\ queries' = <<Head(inbox)>>
       /\ inbox' = Tail(inbox)
       /\ UNCHANGED <<up, ws, value, socket>>
    \/ /\ Asked = "error"
       /\ UpFails(value)
       /\ UNCHANGED <<route, value, queries>>

\* A later chunk of a TCP tunnel is not awaited by the connection still being made.
TakeLater ==
    IF socket[value].locked
      THEN UpFails(value)
      ELSE /\ up' = [state |-> "writing", chunk |-> Head(inbox), to |-> value]
           /\ socket' = [socket EXCEPT ![value].locked = TRUE]
           /\ inbox' = Tail(inbox)
           /\ UNCHANGED ws

TakeQuery ==
    IF route = "dns failed"
      THEN UpFails(value) /\ UNCHANGED queries
      ELSE /\ queries' = Append(queries, Head(inbox))
           /\ inbox' = Tail(inbox)
           /\ UNCHANGED <<up, ws, socket>>

TakeChunk ==
    /\ up.state = "idle"
    /\ inbox # <<>>
    /\ CASE route = "none"                  -> TakeFirst
         [] route \in {"dns", "dns failed"} -> TakeQuery /\ UNCHANGED <<route, value>>
         [] OTHER                           -> TakeLater /\ UNCHANGED <<route, value, queries>>
    /\ UNCHANGED <<inputVars, client, sent, finished, down>>

Written ==
    /\ up.state = "writing"
    /\ socket[up.to].state = "open"
    /\ socket' = [socket EXCEPT ![up.to].got = Append(@, up.chunk), ![up.to].locked = FALSE]
    /\ up' = Idle
    /\ UNCHANGED <<inputVars, clientVars, route, value, queries, down>>

NotWritten ==
    /\ up.state = "writing"
    /\ UpFails(value)
    /\ UNCHANGED <<inputVars, client, sent, finished, route, value, queries, down>>

\* close() of the writable stream, once everything has been taken.
ClientDone ==
    /\ up.state = "idle" /\ inbox = <<>> /\ finished
    /\ up' = Over("closed")
    /\ socket' = Closed(socket, value)
    /\ UNCHANGED <<inputVars, clientVars, route, value, queries, down>>

-----------------------------------------------------------------------------
(***************************************************************************)
(* Connecting (handleTCPOutBound), and downwards (remoteSocketToWS).       *)
(***************************************************************************)
\* The first chunk is through: the socket gets its pipe.
FirstWritten(s) ==
    /\ socket[s].pipe = "awaits"
    /\ socket[s].state = "open"
    /\ socket' = [socket EXCEPT ![s].got = Append(@, 1), ![s].locked = FALSE, ![s].pipe = "runs"]
    /\ UNCHANGED <<inputVars, clientVars, up, route, value, queries, down>>

\* It cannot be: nobody there, or the socket was closed meanwhile.
FirstFails(s) ==
    /\ socket[s].pipe = "awaits"
    /\ socket' = [socket EXCEPT ![s].state = "closed", ![s].pipe = "failed"]
    /\ ws' = "closed"
    /\ UNCHANGED <<inputVars, client, sent, inbox, finished, up, route, value, queries, down>>

\* The header of the response goes out with the first chunk of it.
Reply(s) ==
    /\ socket[s].pipe = "runs"
    /\ socket[s].state = "open"
    /\ socket[s].replies < MaxReplies
    /\ LET n == socket[s].replies + 1 IN
       IF ws = "open"
         THEN /\ down' = Append(down, [from |-> s, n |-> n, headed |-> protocol = "vless" /\ n = 1])
              /\ socket' = [socket EXCEPT ![s].replies = n]
         ELSE /\ socket' = [socket EXCEPT ![s].replies = n, ![s].state = "closed", ![s].pipe = "ended"]
              /\ UNCHANGED down
    /\ UNCHANGED <<inputVars, clientVars, up, route, value, queries>>

\* mutant: a retry whatever the remote has sent.
Silent_Unasked(s) == TRUE

Silent(s) == socket[s].replies = 0

\* The pipe of a socket is over; the first is retried if it brought nothing.
Retry(sockets, s, ws1) ==
    IF s = Retried \/ ~Silent(s)
      THEN socket' = sockets /\ ws' = ws1 /\ UNCHANGED <<route, value>>
    ELSE IF mode = "prefix"
      THEN socket' = sockets /\ ws' = ws1 /\ route' = "resolving" /\ UNCHANGED value
    ELSE IF ~configured
      THEN socket' = sockets /\ ws' = "closed" /\ UNCHANGED <<route, value>>
      ELSE /\ socket' = [sockets EXCEPT ![Retried] = Connecting]
           /\ value' = Retried
           /\ ws' = ws1
           /\ UNCHANGED route

WithEnded(s) == [socket EXCEPT ![s].state = "closed", ![s].pipe = "ended"]

\* The remote closes the connection.
RemoteEnds(s) ==
    /\ socket[s].pipe = "runs" /\ socket[s].state = "open"
    /\ Retry(WithEnded(s), s, ws)
    /\ UNCHANGED <<inputVars, client, sent, inbox, finished, up, queries, down>>

\* The pipe of a socket the Worker has closed comes to its end.
PipeEnds(s) ==
    /\ socket[s].pipe = "runs" /\ socket[s].state = "closed"
    /\ Retry(WithEnded(s), s, ws)
    /\ UNCHANGED <<inputVars, client, sent, inbox, finished, up, queries, down>>

\* The remote resets it: the WebSocket is closed, and a silent remote retried all the same.
RemoteResets(s) ==
    /\ socket[s].pipe = "runs" /\ socket[s].state = "open"
    /\ Retry(WithEnded(s), s, "closed")
    /\ UNCHANGED <<inputVars, client, sent, inbox, finished, up, queries, down>>

\* getDynamicProxyIP: an address DNS does not know is a rejection nobody handles; a bad
\* prefix closes the WebSocket, and the original address is tried again.
Resolve ==
    /\ route = "resolving"
    /\ IF resolves
         THEN /\ route' = "tcp"
              /\ value' = Retried
              /\ socket' = [socket EXCEPT ![Retried] = Connecting]
              /\ ws' = IF configured THEN ws ELSE "closed"
         ELSE /\ route' = "abandoned"
              /\ UNCHANGED <<value, socket, ws>>
    /\ UNCHANGED <<inputVars, client, sent, inbox, finished, up, queries, down>>

\* mutant: nobody waits for the retried socket to close.
RetriedCloses_Unheard == FALSE /\ UNCHANGED relayVars

\* tcpSocket.closed of the retried socket.
RetriedCloses ==
    /\ socket[Retried].state = "closed"
    /\ socket[Retried].pipe \in {"runs", "ended"}
    /\ ws' = "closed"
    /\ UNCHANGED <<inputVars, client, sent, inbox, finished, up, remoteVars, down>>

-----------------------------------------------------------------------------
(***************************************************************************)
(* DNS over HTTPS (handleUDPOutBound).                                     *)
(***************************************************************************)
Answer ==
    /\ queries # <<>>
    /\ route = "dns"
    /\ queries' = Tail(queries)
    /\ down' = IF ws = "open" THEN Append(down, [from |-> Nobody, n |-> Head(queries), headed |-> down = <<>>])
                              ELSE down
    /\ UNCHANGED <<inputVars, clientVars, up, route, value, socket>>

QueryFails ==
    /\ queries # <<>>
    /\ route = "dns"
    /\ route' = "dns failed"
    /\ queries' = <<>>
    /\ UNCHANGED <<inputVars, clientVars, up, value, socket, down>>

-----------------------------------------------------------------------------
Client == ClientSends \/ ClientCloses \/ ClientFails

\* What the runtime and the network sooner or later answer.
Worker ==
    \/ TakeChunk \/ Written \/ NotWritten \/ ClientDone
    \/ \E s \in Sockets : FirstWritten(s) \/ FirstFails(s) \/ PipeEnds(s)
    \/ Resolve \/ RetriedCloses \/ Answer \/ QueryFails

Remote == \E s \in Sockets : Reply(s) \/ RemoteEnds(s) \/ RemoteResets(s)

RelayNext == Client \/ Worker \/ Remote

RelaySpec == RelayInit /\ [][RelayNext]_relayVars /\ WF_relayVars(Worker)

-----------------------------------------------------------------------------
(***************************************************************************)
(* Properties.                                                             *)
(***************************************************************************)
\* The client is sent what one source answered, in order and without a gap, and the
\* response header of VLESS exactly once, before everything else; a retry never mixes
\* the answers of two remotes.
RepliesInOrder ==
    \A i \in DOMAIN down :
      /\ down[i].n = i
      /\ down[i].from = down[1].from
      /\ down[i].headed = (i = 1 /\ protocol = "vless")

Increasing(chunks) == \A i, j \in DOMAIN chunks : i < j => chunks[i] < chunks[j]

\* Every remote is sent the first chunk first, then chunks in the order of the client,
\* none twice; and while the tunnel is up, each chunk taken from the client has been
\* written to some remote or is being written, although the socket may be replaced
\* while chunks arrive.
ChunksInOrder ==
    LET taken == {n \in 1..sent : n \notin Range(inbox)}
        gone  == Range(socket[Direct].got) \cup Range(socket[Retried].got)
        going == {up.chunk} \cup (IF \E s \in Sockets : socket[s].pipe = "awaits" THEN {1} ELSE {})
    IN /\ \A s \in Sockets : LET got == socket[s].got IN
            /\ got # <<>> => Head(got) = 1
            /\ Increasing(got)
       /\ route \in {"tcp", "resolving"} /\ up.state # "errored" /\ ws = "open" =>
            taken \subseteq gone \cup going

\* Neither direction of a tunnel is reordered, thinned or mixed by a retry.
NothingReordered == RepliesInOrder /\ ChunksInOrder

Dead == value # Nobody /\ \A s \in Sockets : socket[s].state # "open" /\ socket[s].replies = 0

\* A tunnel whose connections have all ended without a byte is closed, so that the client
\* is not left waiting for an answer.  Not promised when the name of the remote cannot
\* be resolved for a prefix.
DeadTunnelIsClosed ==
    (Dead /\ (mode = "prefix" => resolves)) ~> (ws = "closed" \/ ~Dead)

\* Once the client has left, its direct connection is not kept open.
LeftTunnelIsReleased == <>[](client \/ socket[Direct].state # "open")

\* The end of either side reaches the other.
EndsReachBoth == DeadTunnelIsClosed /\ LeftTunnelIsReleased

=============================================================================
