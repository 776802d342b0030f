------------------------------- MODULE TcpTunnel -------------------------------
(***************************************************************************)
(* The TCP tunnel over one monitor session: users' connections on the      *)
(* server (internal/server/tunnel/tcp.go), the data channel each of them   *)
(* gets (internal/server/channels/data/new.go), and the client that opens  *)
(* the channel, dials the upstream service and relays                      *)
(* (internal/client/client.go, handlers.go, data_channel_heartbeat.go).    *)
(*                                                                         *)
(* Goroutines of the server: per user the handler and the upload loop, per *)
(* data channel its read loop, and the read loop of the monitor channel.   *)
(* Of the client: the read loop of the monitor channel, and per stream the *)
(* read loop of the data channel and the forwarder, which dials and relays.*)
(* Data are numbered pieces; a piece is one read from a socket.            *)
(*                                                                         *)
(* Both sides negotiated TCP over WebSocket and early registration.  A     *)
(* data channel the client gave up although the server had accepted it is  *)
(* left out.  A bandwidth check may refuse any piece.                      *)
(***************************************************************************)
EXTENDS Naturals, Sequences

CONSTANTS
    Users,    \* users' connections; the stream of a connection has its name
    Sends,    \* bound: pieces a user sends
    Answers,  \* bound: pieces its upstream service sends
    MaxEvents,\* bound: pings, departures, refusals, failed dials, losses
    None

ASSUME TunnelAssumption ==
    /\ Sends \in [Users -> Nat]
    /\ Answers \in [Users -> Nat]
    /\ MaxEvents \in Nat
    /\ None \notin Users

VARIABLES
    mon,           \* the monitor session: "up", "lost", or "over" for the client too
    container,     \* does the server still have the session's container
    toClient,      \* messages of the monitor channel that are not read yet
    toServer,
    events,        \* so far
    srv,           \* Users -> where the handler of the connection is
    writeMu,       \* holder of the container's WriteMu
    ready,         \* users whose readyChan has been written
    user,          \* Users -> state of the user's connection
    taken,         \* Users -> pieces the upload loop has read
    dataHandlers,  \* users with a handler registered by OnTCPData
    closeHandlers, \* and by OnTCPClose
    dataSockets,   \* streams with a data channel in the container
    dataChannels,  \* and in the protocol adapter
    dch,           \* Users -> where the read loop of its data channel is (server)
    wire,          \* Users -> state of the data channel's WebSocket
    toC, toS,      \* Users -> pieces on it that are not read yet; 0 is TCPClose
    loop,          \* the stream the client's monitor loop dials a channel for
    dataConns,     \* streams with a data channel (client)
    tcpStreams,    \* Users -> entry of the client's stream map
    fwd,           \* Users -> where its forwarder is
    rd,            \* Users -> where the read loop of its data channel is (client)
    upstream,      \* Users -> state of the connection to the upstream service
    answered,      \* Users -> pieces the forwarder has read from it
    gotUp, gotUser,\* Users -> pieces the upstream service, the user got
    skipped, missed\* history: pieces dropped on purpose, on the way up and down

monitor  == <<mon, container, toClient, toServer>>
handler  == <<srv, writeMu, ready>>
registry == <<dataHandlers, closeHandlers>>
sockets  == <<dataSockets, dataChannels, dch>>
net      == <<wire, toC, toS>>
client   == <<loop, dataConns, tcpStreams, fwd, rd>>
service  == <<upstream, answered, gotUp, skipped>>
vars     == <<monitor, events, handler, user, taken, registry, sockets, net, client, service,
              gotUser, missed>>

Init ==
    /\ mon = "up" /\ container = TRUE /\ toClient = <<>> /\ toServer = <<>>
    /\ events = 0
    /\ srv = [u \in Users |-> "idle"] /\ writeMu = None /\ ready = {}
    /\ user = [u \in Users |-> "none"] /\ taken = [u \in Users |-> 0]
    /\ dataHandlers = {} /\ closeHandlers = {}
    /\ dataSockets = {} /\ dataChannels = {} /\ dch = [u \in Users |-> "none"]
    /\ wire = [u \in Users |-> "none"]
    /\ toC = [u \in Users |-> <<>>] /\ toS = [u \in Users |-> <<>>]
    /\ loop = None /\ dataConns = {}
    /\ tcpStreams = [u \in Users |-> "none"]
    /\ fwd = [u \in Users |-> "none"] /\ rd = [u \in Users |-> "none"]
    /\ upstream = [u \in Users |-> "none"] /\ answered = [u \in Users |-> 0]
    /\ gotUp = [u \in Users |-> <<>>] /\ gotUser = [u \in Users |-> <<>>]
    /\ skipped = [u \in Users |-> {}] /\ missed = [u \in Users |-> {}]

\* Something out of the ordinary: an end, a refusal, a loss; and the rare ping.
Event == events < MaxEvents /\ events' = events + 1

Message(k, u) == [kind |-> k, user |-> u]
Tell(m)       == toClient' = IF mon = "up" THEN Append(toClient, m) ELSE toClient
Go(u, l)      == srv' = [srv EXCEPT ![u] = l]

\* closeUserConn, once: the handlers registered so far go, and the connection.
CloseUser(u) ==
    /\ user' = [user EXCEPT ![u] = "shut"]
    /\ dataHandlers' = IF user[u] = "shut" THEN dataHandlers ELSE dataHandlers \ {u}
    /\ closeHandlers' = IF user[u] = "shut" THEN closeHandlers ELSE closeHandlers \ {u}

-----------------------------------------------------------------------------
(* handleSourceConnection and ensureDataChannelForStream *)

Accept(u) ==
    /\ srv[u] = "idle" /\ container
    /\ Go(u, "open")
    /\ user' = [user EXCEPT ![u] = "open"]
    /\ UNCHANGED <<events, monitor, writeMu, ready, taken, registry, sockets, net, client,
                   service, gotUser, missed>>

\* A write on a connection that is lost may succeed or fail.
Ask(u) ==
    /\ srv[u] = "open" /\ writeMu = None
    /\ \/ /\ Tell(Message("open", u))
          /\ Go(u, "wait")
          /\ writeMu' = u
          /\ UNCHANGED <<user, registry>>
       \/ /\ mon # "up"
          /\ Go(u, "refused")
          /\ CloseUser(u)
          /\ UNCHANGED <<toClient, writeMu>>
    /\ UNCHANGED <<events, mon, container, toServer, ready, taken, sockets, net,
                   client, service, gotUser, missed>>

\* The ready message, or the ticker's look at DataSockets, which does not depend on
\* the monitor's read loop.
Proceed(u) ==
    /\ srv[u] = "wait"
    /\ u \in ready \cup dataSockets
    /\ Go(u, "connect")
    /\ writeMu' = None
    /\ UNCHANGED <<events, monitor, ready, user, taken, registry, sockets, net, client,
                   service, gotUser, missed>>

\* Ten seconds, a hundred ticks, without a channel.  Faulty variants (StillHeld,
\* ToAll, NoEntry, Stays) come just before what they vary; nothing uses
\* them but the tests of the properties.
StillHeld == writeMu
Freed     == None
Expire(u) ==
    /\ srv[u] = "wait"
    /\ u \notin ready \cup dataSockets
    /\ Go(u, "refused")
    /\ writeMu' = Freed
    /\ CloseUser(u)
    /\ UNCHANGED <<events, monitor, ready, taken, sockets, net, client, service, gotUser,
                   missed>>

Connect(u) ==
    /\ srv[u] = "connect" /\ writeMu = None
    /\ \/ /\ Tell(Message("connect", u))
          /\ Go(u, "setup")
          /\ UNCHANGED <<user, registry>>
       \/ /\ mon # "up"
          /\ Go(u, "refused")
          /\ CloseUser(u)
          /\ UNCHANGED toClient
    /\ UNCHANGED <<events, mon, container, toServer, writeMu, ready, taken,
                   sockets, net, client, service, gotUser, missed>>

\* setupTCPStreamOverWebSocket starts the upload loop before it registers anything.
StartUpload(u) ==
    /\ srv[u] = "setup"
    /\ Go(u, "subscribe")
    /\ UNCHANGED <<events, monitor, writeMu, ready, user, taken, registry, sockets, net,
                   client, service, gotUser, missed>>

\* OnTCPData and OnTCPClose; unsubscribe is assigned.
Subscribe(u) ==
    /\ srv[u] = "subscribe"
    /\ Go(u, "relay")
    /\ dataHandlers' = dataHandlers \cup {u}
    /\ closeHandlers' = closeHandlers \cup {u}
    /\ UNCHANGED <<events, monitor, writeMu, ready, user, taken, sockets, net, client,
                   service, gotUser, missed>>

\* SendTCPData has no other way than the stream's data channel; a write on a connection
\* that is lost may succeed or fail.
SendTCPData(u, p) ==
    /\ u \in dataChannels
    /\ toC' = IF wire[u] = "open" THEN [toC EXCEPT ![u] = Append(@, p)] ELSE toC
SendFails(u) == u \notin dataChannels \/ wire[u] # "open"

\* The upload loop: a piece is dropped, or sent, or cannot be sent, which ends the
\* connection.
Uploading(u) == srv[u] \in {"subscribe", "relay"} /\ user[u] \in {"open", "left"}
Upload(u) ==
    /\ Uploading(u) /\ taken[u] < Sends[u]
    /\ taken' = [taken EXCEPT ![u] = @ + 1]
    /\ \/ /\ Event
          /\ skipped' = [skipped EXCEPT ![u] = @ \cup {taken[u] + 1}]
          /\ UNCHANGED <<toC, user, registry>>
       \/ /\ SendTCPData(u, taken[u] + 1)
          /\ UNCHANGED <<events, skipped, user, registry>>
       \/ /\ SendFails(u)
          /\ CloseUser(u)
          /\ UNCHANGED <<events, skipped, toC>>
    /\ UNCHANGED <<monitor, handler, sockets, wire, toS, client, upstream, answered,
                   gotUp, gotUser, missed>>

UploadEnds(u) ==
    /\ Uploading(u) /\ user[u] = "left"
    /\ CloseUser(u)
    /\ UNCHANGED <<events, monitor, handler, taken, sockets, net, client, service,
                   gotUser, missed>>

\* The monitor's read loop answers a ping under WriteMu, which a handler keeps while
\* it waits for its channel; data:channel:ready may be behind it.
ServerReads ==
    /\ toServer # <<>>
    /\ LET m == Head(toServer)
       IN  /\ m.kind = "ping" => writeMu = None
           /\ ready' = IF m.kind = "ready" /\ srv[m.user] = "wait"
                       THEN ready \cup {m.user} ELSE ready
    /\ toServer' = Tail(toServer)
    /\ UNCHANGED <<events, mon, container, toClient, srv, writeMu, user, taken,
                   registry, sockets, net, client, service, gotUser, missed>>

-----------------------------------------------------------------------------
(* HandleConnection of the data channel (server) *)

Upgrade(u) ==
    /\ loop = u /\ wire[u] = "none" /\ container
    /\ wire' = [wire EXCEPT ![u] = "open"]
    /\ dch' = [dch EXCEPT ![u] = "upgraded"]
    /\ UNCHANGED <<events, monitor, handler, user, taken, registry, dataSockets,
                   dataChannels, toC, toS, client, service, gotUser, missed>>

\* The container is looked up again after the handshake.
Register(u) ==
    /\ dch[u] = "upgraded"
    /\ IF container
       THEN /\ dataSockets' = dataSockets \cup {u}
            /\ dch' = [dch EXCEPT ![u] = "set"]
            /\ UNCHANGED wire
       ELSE /\ dch' = [dch EXCEPT ![u] = "done"]
            /\ wire' = [wire EXCEPT ![u] = "closed"]
            /\ UNCHANGED dataSockets
    /\ UNCHANGED <<events, monitor, handler, user, taken, registry, dataChannels, toC,
                   toS, client, service, gotUser, missed>>

SetDataChannel(u) ==
    /\ dch[u] = "set"
    /\ dataChannels' = dataChannels \cup {u}
    /\ dch' = [dch EXCEPT ![u] = "loop"]
    /\ UNCHANGED <<events, monitor, handler, user, taken, registry, dataSockets, net,
                   client, service, gotUser, missed>>

\* handleBinaryMessage gives a piece to every handler; a handler takes those of its
\* stream.  A piece or a TCPClose nobody has registered for yet is lost.
ToAll(u)    == dataHandlers
Takers(u)   == dataHandlers \cap {u}
DataRead(u) ==
    /\ dch[u] = "loop" /\ toS[u] # <<>>
    /\ toS' = [toS EXCEPT ![u] = Tail(@)]
    /\ LET p == Head(toS[u])
       IN  \/ /\ p = 0 /\ u \in closeHandlers
              /\ CloseUser(u)
              /\ UNCHANGED <<events, gotUser, missed>>
           \/ /\ p # 0 /\ u \in dataHandlers /\ user[u] = "open" /\ Event
              /\ missed' = [missed EXCEPT ![u] = @ \cup {p}]
              /\ UNCHANGED <<gotUser, user, registry>>
           \/ /\ p # 0
              /\ gotUser' = [v \in Users |-> IF v \in Takers(u) /\ user[v] = "open"
                                             THEN Append(gotUser[v], p) ELSE gotUser[v]]
              /\ UNCHANGED <<events, missed, user, registry>>
           \/ /\ p # 0 /\ u \in dataHandlers /\ user[u] = "left"
              /\ CloseUser(u)
              /\ UNCHANGED <<events, gotUser, missed>>
           \/ /\ p = 0 /\ u \notin closeHandlers
              /\ UNCHANGED <<events, gotUser, missed, user, registry>>
    /\ UNCHANGED <<monitor, handler, taken, sockets, wire, toC, client, service>>

RemoveDataChannelForStream(u) == dataChannels' = dataChannels \ {u}

\* The deferred clean-up; the user's connection is not looked at.
DataEnds(u) ==
    /\ dch[u] = "loop" /\ wire[u] = "closed" /\ toS[u] = <<>>
    /\ dch' = [dch EXCEPT ![u] = "done"]
    /\ IF container
       THEN dataSockets' = dataSockets \ {u} /\ RemoveDataChannelForStream(u)
       ELSE UNCHANGED <<dataSockets, dataChannels>>
    /\ UNCHANGED <<events, monitor, handler, user, taken, registry, net, client, service,
                   gotUser, missed>>

-----------------------------------------------------------------------------
(* The client *)

\* handleMonitorMessages: data:channel:open starts a dial, in the loop itself;
\* tcp:connect starts the forwarder.
Entry(u)     == IF tcpStreams[u] = "none" THEN "placeholder" ELSE tcpStreams[u]
ClientReads ==
    /\ loop = None /\ mon # "over" /\ toClient # <<>>
    /\ toClient' = Tail(toClient)
    /\ LET m == Head(toClient)
       IN  IF m.kind = "open"
           THEN loop' = m.user /\ UNCHANGED <<tcpStreams, fwd>>
           ELSE /\ tcpStreams' = [tcpStreams EXCEPT ![m.user] = Entry(m.user)]
                /\ fwd' = [fwd EXCEPT ![m.user] = "dial"]
                /\ UNCHANGED loop
    /\ UNCHANGED <<events, mon, container, toServer, handler, user, taken,
                   registry, sockets, net, dataConns, rd, service, gotUser, missed>>

\* The channel is up: the stream is registered before the channel is read, so that
\* bytes that come before tcp:connect wait.
NoEntry(u)  == tcpStreams[u]
Early(u)    == Entry(u)
Opened(u) ==
    /\ loop = u /\ wire[u] # "none"
    /\ loop' = None
    /\ dataConns' = dataConns \cup {u}
    /\ tcpStreams' = [tcpStreams EXCEPT ![u] = Early(u)]
    /\ rd' = [rd EXCEPT ![u] = "read"]
    /\ toServer' = IF mon = "up" THEN Append(toServer, Message("ready", u)) ELSE toServer
    /\ UNCHANGED <<events, mon, container, toClient, handler, user, taken,
                   registry, sockets, net, fwd, service, gotUser, missed>>

DialFails(u) ==
    /\ loop = u /\ wire[u] = "none"
    /\ Event \/ (~container /\ UNCHANGED events)
    /\ loop' = None
    /\ wire' = [wire EXCEPT ![u] = "closed"]
    /\ UNCHANGED <<monitor, handler, user, taken, registry, sockets, toC, toS, dataConns,
                   tcpStreams, fwd, rd, service, gotUser, missed>>

\* removeDataChannel closes the connection; what it carried already arrives.
RemoveDataChannel(u) ==
    /\ dataConns' = dataConns \ {u}
    /\ wire' = IF u \in dataConns THEN [wire EXCEPT ![u] = "closed"] ELSE wire

\* What a forwarder leaves behind when it ends.
Stays(u) == tcpStreams[u]
Unregistered(u) == "none"
Cleanup(u) ==
    /\ fwd' = [fwd EXCEPT ![u] = "done"]
    /\ tcpStreams' = [tcpStreams EXCEPT ![u] = Unregistered(u)]
    /\ upstream' = [upstream EXCEPT ![u] = "shut"]
    /\ RemoveDataChannel(u)

\* sendTCPStreamCloseNotify, if the channel is still there.
CloseNotify(u) ==
    toS' = IF u \in dataConns /\ wire[u] = "open" THEN [toS EXCEPT ![u] = Append(@, 0)]
                                                  ELSE toS

\* forwardTCPConnectionOverWS.
DialUpstream(u) ==
    /\ fwd[u] = "dial"
    /\ \/ /\ upstream' = [upstream EXCEPT ![u] = "open"]
          /\ tcpStreams' = [tcpStreams EXCEPT ![u] = "conn"]
          /\ fwd' = [fwd EXCEPT ![u] = "relay"]
          /\ UNCHANGED <<events, dataConns, wire, toS>>
       \/ /\ Event
          /\ CloseNotify(u)
          /\ Cleanup(u)
    /\ UNCHANGED <<monitor, handler, user, taken, registry, sockets, toC, loop, rd,
                   answered, gotUp, skipped, gotUser, missed>>

\* runTCPDataChannelRelay.
RelaySends(u) ==
    /\ fwd[u] = "relay" /\ upstream[u] # "shut" /\ answered[u] < Answers[u]
    /\ answered' = [answered EXCEPT ![u] = @ + 1]
    /\ \/ /\ u \in dataConns
          /\ toS' = IF wire[u] = "open" THEN [toS EXCEPT ![u] = Append(@, answered[u] + 1)]
                                        ELSE toS
          /\ UNCHANGED <<fwd, tcpStreams, upstream, dataConns, wire>>
       \/ /\ u \notin dataConns \/ wire[u] # "open"
          /\ Cleanup(u)
          /\ UNCHANGED toS
    /\ UNCHANGED <<events, monitor, handler, user, taken, registry, sockets, toC, loop,
                   rd, gotUp, skipped, gotUser, missed>>

RelayEnds(u) ==
    /\ fwd[u] = "relay" /\ upstream[u] # "open"
    /\ Cleanup(u)
    /\ UNCHANGED <<events, monitor, handler, user, taken, registry, sockets, toC, toS,
                   loop, rd, answered, gotUp, skipped, gotUser, missed>>

\* handleTCPDataBinary: a piece waits while its stream is a placeholder.  A write that
\* fails takes the stream and the upstream connection away.
DataIn(u) ==
    /\ rd[u] = "read" /\ toC[u] # <<>> /\ tcpStreams[u] # "placeholder"
    /\ toC' = [toC EXCEPT ![u] = Tail(@)]
    /\ \/ /\ tcpStreams[u] = "conn" /\ upstream[u] = "open"
          /\ gotUp' = [gotUp EXCEPT ![u] = Append(@, Head(toC[u]))]
          /\ UNCHANGED <<tcpStreams, upstream>>
       \/ /\ tcpStreams[u] = "conn" /\ upstream[u] = "eof"
          /\ tcpStreams' = [tcpStreams EXCEPT ![u] = "none"]
          /\ upstream' = [upstream EXCEPT ![u] = "shut"]
          /\ UNCHANGED gotUp
       \/ /\ tcpStreams[u] = "none" \/ upstream[u] = "eof"
          /\ UNCHANGED <<gotUp, tcpStreams, upstream>>
    /\ UNCHANGED <<events, monitor, handler, user, taken, registry, sockets, wire, toS,
                   loop, dataConns, fwd, rd, answered, skipped, gotUser, missed>>

\* The wait is three seconds longer than a dial to the upstream service: it only runs
\* out when tcp:connect is not read, because the monitor's loop dials for another
\* stream or has lost its connection.
GiveUp(u) ==
    /\ rd[u] = "read" /\ toC[u] # <<>> /\ tcpStreams[u] = "placeholder"
    /\ loop # None \/ mon # "up"
    /\ toC' = [toC EXCEPT ![u] = Tail(@)]
    /\ skipped' = [skipped EXCEPT ![u] = @ \cup {Head(toC[u])}]
    /\ UNCHANGED <<events, monitor, handler, user, taken, registry, sockets, wire, toS,
                   client, upstream, answered, gotUp, gotUser, missed>>

\* The read loop of the data channel ends: the server closed it, the network or the
\* heartbeat did, or the client itself, which then does not read what is left.
ChannelEnds(u) ==
    /\ rd[u] = "read" /\ wire[u] = "closed"
    /\ toC[u] = <<>> \/ u \notin dataConns
    /\ rd' = [rd EXCEPT ![u] = "done"]
    /\ toC' = [toC EXCEPT ![u] = <<>>]
    /\ RemoveDataChannel(u)
    /\ UNCHANGED <<events, monitor, handler, user, taken, registry, sockets, toS, loop,
                   tcpStreams, fwd, service, gotUser, missed>>

\* handleDisconnect and closeAllDataChannels; the streams keep their entries.
ClientLoses ==
    /\ mon = "lost" /\ loop = None
    /\ mon' = "over"
    /\ toClient' = <<>>
    /\ dataConns' = {}
    /\ wire' = [u \in Users |-> IF u \in dataConns THEN "closed" ELSE wire[u]]
    /\ UNCHANGED <<events, container, toServer, handler, user, taken, registry,
                   sockets, toC, toS, loop, tcpStreams, fwd, rd, service, gotUser,
                   missed>>

-----------------------------------------------------------------------------
(* Users, upstream services, the network *)

Leave(u) ==
    /\ user[u] = "open" /\ Event
    /\ user' = [user EXCEPT ![u] = "left"]
    /\ UNCHANGED <<monitor, handler, taken, registry, sockets, net, client, service,
                   gotUser, missed>>

UpstreamEnds(u) ==
    /\ upstream[u] = "open" /\ Event
    /\ upstream' = [upstream EXCEPT ![u] = "eof"]
    /\ UNCHANGED <<monitor, handler, user, taken, registry, sockets, net, client,
                   answered, gotUp, skipped, gotUser, missed>>

Break(u) ==
    /\ wire[u] = "open" /\ Event
    /\ wire' = [wire EXCEPT ![u] = "closed"]
    /\ toC' = [toC EXCEPT ![u] = <<>>]
    /\ toS' = [toS EXCEPT ![u] = <<>>]
    /\ UNCHANGED <<mon, container, toClient, toServer, handler, user, taken,
                   registry, sockets, client, service, gotUser, missed>>

Ping ==
    /\ mon = "up" /\ Event
    /\ toServer' = Append(toServer, Message("ping", None))
    /\ UNCHANGED <<mon, container, toClient, handler, user, taken, registry,
                   sockets, net, client, service, gotUser, missed>>

Lose ==
    /\ mon = "up" /\ Event
    /\ mon' = "lost"
    /\ UNCHANGED <<container, toClient, toServer, handler, user, taken, registry,
                   sockets, net, client, service, gotUser, missed>>

\* The server's side of the loss (MonitorSession has it in full).
Destroy ==
    /\ mon # "up" /\ container
    /\ container' = FALSE
    /\ UNCHANGED <<events, mon, toClient, toServer, handler, user, taken, registry,
                   sockets, net, client, service, gotUser, missed>>

Handling(u) == Ask(u) \/ Proceed(u) \/ Expire(u) \/ Connect(u) \/ StartUpload(u)
                 \/ Subscribe(u)
Sending(u)  == Upload(u) \/ UploadEnds(u)
Serving(u)  == Upgrade(u) \/ Register(u) \/ SetDataChannel(u) \/ DataRead(u) \/ DataEnds(u)
Opening(u)  == Opened(u) \/ DialFails(u)
Relaying(u) == DialUpstream(u) \/ RelaySends(u) \/ RelayEnds(u)
Reading(u)  == DataIn(u) \/ GiveUp(u) \/ ChannelEnds(u)

Next ==
    \/ \E u \in Users : \/ Accept(u) \/ Handling(u) \/ Sending(u) \/ Serving(u) \/ Opening(u)
                        \/ Relaying(u) \/ Reading(u) \/ Leave(u) \/ UpstreamEnds(u)
                        \/ Break(u)
    \/ ServerReads \/ ClientReads \/ ClientLoses \/ Ping \/ Lose \/ Destroy

Spec == Init /\ [][Next]_vars

-----------------------------------------------------------------------------
TypeOK ==
    /\ mon \in {"up", "lost", "over"}
    /\ container \in BOOLEAN
    /\ toClient \in Seq([kind : {"open", "connect"}, user : Users])
    /\ toServer \in Seq([kind : {"ready"}, user : Users] \cup [kind : {"ping"}, user : {None}])
    /\ events \in Nat
    /\ srv \in [Users -> {"idle", "open", "wait", "connect", "setup", "subscribe",
                          "relay", "refused"}]
    /\ writeMu \in Users \cup {None}
    /\ ready \in SUBSET Users
    /\ user \in [Users -> {"none", "open", "left", "shut"}]
    /\ taken \in [Users -> Nat]
    /\ dataHandlers \in SUBSET Users
    /\ closeHandlers \in SUBSET Users
    /\ dataSockets \in SUBSET Users
    /\ dataChannels \in SUBSET Users
    /\ dch \in [Users -> {"none", "upgraded", "set", "loop", "done"}]
    /\ wire \in [Users -> {"none", "open", "closed"}]
    /\ toC \in [Users -> Seq(Nat)]
    /\ toS \in [Users -> Seq(Nat)]
    /\ loop \in Users \cup {None}
    /\ dataConns \in SUBSET Users
    /\ tcpStreams \in [Users -> {"none", "placeholder", "conn"}]
    /\ fwd \in [Users -> {"none", "dial", "relay", "done"}]
    /\ rd \in [Users -> {"none", "read", "done"}]
    /\ upstream \in [Users -> {"none", "open", "eof", "shut"}]
    /\ answered \in [Users -> Nat]
    /\ gotUp \in [Users -> Seq(Nat)]
    /\ gotUser \in [Users -> Seq(Nat)]
    /\ skipped \in [Users -> SUBSET Nat]
    /\ missed \in [Users -> SUBSET Nat]

\* got lists the pieces from `from` on, in order and once, but for those left out.
InOrder(got, left, from) ==
    \A i \in 1 .. Len(got) :
        LET before == IF i = 1 THEN from ELSE got[i - 1]
        IN  /\ got[i] > before
            /\ \A n \in (before + 1) .. (got[i] - 1) : n \in left

Elements(q) == {q[i] : i \in 1 .. Len(q)}
Whole(u) ==
    /\ user[u] # "shut" /\ wire[u] = "open" /\ u \in dataConns
    /\ fwd[u] # "done" /\ upstream[u] \in {"none", "open"}

\* The upstream service gets what the user sent, in order and from the first piece on,
\* although the bytes may come before tcp:connect, over another connection.  While both
\* ends and the channel between them last, only what was dropped on purpose is missing
\* (registerTCPStreamPlaceholder, handleTCPDataBinary).
UploadKept ==
    \A u \in Users :
        /\ InOrder(gotUp[u], skipped[u], 0)
        /\ Whole(u) => \A n \in 1 .. taken[u] :
                          n \in Elements(gotUp[u]) \cup Elements(toC[u]) \cup skipped[u]

\* What the user gets its own upstream service has sent, in order and without a hole
\* but what was dropped on purpose; its beginning may be missing (OnTCPData,
\* handleBinaryMessage).
DownloadContiguous ==
    \A u \in Users :
        gotUser[u] # <<>> =>
            /\ InOrder(gotUser[u], missed[u], gotUser[u][1] - 1)
            /\ gotUser[u][Len(gotUser[u])] <= answered[u]

\* A stream whose forwarder has ended is gone from the client's maps for good: no
\* message and no other goroutine brings it back (forwardTCPConnectionOverWS,
\* runTCPDataChannelRelay, handleTCPConnect).
EndedIsGone ==
    \A u \in Users : fwd[u] = "done" => tcpStreams[u] = "none" /\ u \notin dataConns

\* Whoever keeps WriteMu over a step waits for its data channel, which the ticker sees
\* or the timeout ends: nobody keeps it who waits for the monitor's read loop, which
\* may wait for WriteMu itself to answer a ping (ensureDataChannelForStream).
HolderWaits == writeMu # None => srv[writeMu] = "wait"

=============================================================================
