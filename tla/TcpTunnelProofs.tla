---------------------------- MODULE TcpTunnelProofs ----------------------------
(***************************************************************************)
(* Proofs about TcpTunnel, for every set of users and every number of      *)
(* pieces.                                                                 *)
(*                                                                         *)
(* WriteMu is kept over a step exactly by the handler that waits for its   *)
(* data channel.  A stream cannot come back to the client's maps because   *)
(* the request for its channel is sent once and read, dial included,       *)
(* before its tcp:connect: when a forwarder is there, no request for the   *)
(* channel is under way.                                                   *)
(*                                                                         *)
(* Bytes on their way up: what the upstream service got and what is on the *)
(* data channel are two sorted sequences, the second above the first       *)
(* (Pieces, Link), and together they are everything that was taken from    *)
(* the user and not left out, as long as the channel and both ends last    *)
(* (Cover).  They last because a read loop that finds no entry for its     *)
(* stream has a forwarder that is done with it (Forwarder).                *)
(*                                                                         *)
(* Bytes on their way down: what is on the data channel is numbered        *)
(* without a gap and ends with the last piece read from the service while  *)
(* the channel lasts (Numbered), and what a user got lies below it, every  *)
(* piece in between having been dropped with an event (Ordered, Ahead).    *)
(***************************************************************************)
EXTENDS TcpTunnel, TLAPS

-----------------------------------------------------------------------------
(* The inductive invariants *)

Lock == \A u \in Users : srv[u] = "wait" <=> writeMu = u

\* Where u's messages are on the client's way.
Opens(u, i)    == toClient[i] = Message("open", u)
Connects(u, i) == toClient[i] = Message("connect", u)
Before == {"idle", "open", "wait", "connect", "refused"}
Stream(u) ==
    /\ srv[u] \in {"idle", "open"} => \A i \in 1 .. Len(toClient) : ~Opens(u, i)
    /\ srv[u] \in Before => fwd[u] = "none" /\ \A i \in 1 .. Len(toClient) : ~Connects(u, i)
    /\ \A i, j \in 1 .. Len(toClient) :
          i < j /\ Connects(u, i) => ~Opens(u, j) /\ ~Connects(u, j)
    /\ fwd[u] # "none" =>
          loop # u /\ \A i \in 1 .. Len(toClient) : ~Opens(u, i) /\ ~Connects(u, i)
    /\ fwd[u] = "done" => tcpStreams[u] = "none" /\ u \notin dataConns

\* How far the forwarder is, and what it has.
Forwarder(u) ==
    /\ fwd[u] = "none" => /\ upstream[u] = "none" /\ tcpStreams[u] # "conn"
                          /\ rd[u] # "none" => tcpStreams[u] = "placeholder"
    /\ fwd[u] = "dial" => upstream[u] = "none" /\ tcpStreams[u] = "placeholder"
    /\ fwd[u] = "relay" => \/ tcpStreams[u] = "conn" /\ upstream[u] \in {"open", "eof"}
                           \/ tcpStreams[u] = "none" /\ upstream[u] = "shut"
    /\ fwd[u] = "done" => tcpStreams[u] = "none" /\ upstream[u] = "shut"
    /\ u \in dataChannels \/ dch[u] # "none" => wire[u] # "none"

\* The pieces an upstream service got (g), those on the way to it (c), the number of the
\* last one taken from the user (t), and those left out (sk).
In(q, n)  == \E i \in 1 .. Len(q) : q[i] = n
Sorted(q) == \A i, j \in 1 .. Len(q) : i < j => q[i] < q[j]
Pieces(g, c, t, sk) ==
    /\ Sorted(g) /\ Sorted(c)
    /\ \A i \in 1 .. Len(g) : g[i] \in 1 .. t
    /\ \A i \in 1 .. Len(c) : c[i] \in 1 .. t
    /\ \A i \in 1 .. Len(g) : \A n \in 1 .. g[i] : In(g, n) \/ n \in sk
Link(g, c, sk) ==
    /\ \A i \in 1 .. Len(g), j \in 1 .. Len(c) : g[i] < c[j]
    /\ \A i \in 1 .. Len(c) : \A n \in 1 .. c[i] : In(g, n) \/ In(c, n) \/ n \in sk
Cover(g, c, t, sk) == \A n \in 1 .. t : In(g, n) \/ In(c, n) \/ n \in sk

Alive(u) == upstream[u] \in {"none", "open"}
Upward(u) ==
    /\ srv[u] = "idle" => taken[u] = 0
    /\ Pieces(gotUp[u], toC[u], taken[u], skipped[u])
    /\ Alive(u) => Link(gotUp[u], toC[u], skipped[u])
    /\ Alive(u) /\ wire[u] # "closed" /\ user[u] # "shut" =>
          Cover(gotUp[u], toC[u], taken[u], skipped[u])

\* The pieces on their way to a user (c), the number of those the upstream service has
\* sent (a), those the user got (g), those left out (ms).  A zero is alone on its way.
Numbered(c, a) ==
    /\ \A i \in 1 .. Len(c) : c[i] \in 0 .. a /\ (a > 0 => c[i] # 0)
    /\ \A i, j \in 1 .. Len(c) : j = i + 1 /\ a > 0 => c[j] = c[i] + 1
Left(from, to, ms) == \A n \in (from + 1) .. (to - 1) : n \in ms
Ordered(g, a, ms) ==
    /\ \A i \in 1 .. Len(g) : g[i] \in 1 .. a
    /\ \A i, j \in 1 .. Len(g) : j = i + 1 => g[i] < g[j] /\ Left(g[i], g[j], ms)
Ahead(g, c, a, ms, lasting) ==
    g # <<>> => /\ c # <<>> => g[Len(g)] < c[1] /\ Left(g[Len(g)], c[1], ms)
                /\ c = <<>> /\ lasting => Left(g[Len(g)], a + 1, ms)

Lasting(u) == fwd[u] = "relay" /\ wire[u] = "open"
Downward(u) ==
    /\ fwd[u] \in {"none", "dial"} => answered[u] = 0 /\ toS[u] = <<>>
    /\ fwd[u] = "relay" /\ toS[u] # <<>> => answered[u] > 0
    /\ Lasting(u) /\ toS[u] # <<>> => toS[u][Len(toS[u])] = answered[u]
    /\ u \in dataConns => wire[u] # "none"
    /\ u \in dataHandlers \/ gotUser[u] # <<>> => srv[u] # "idle"
    /\ gotUser[u] # <<>> /\ user[u] = "open" => u \in dataHandlers
    /\ Numbered(toS[u], answered[u])
    /\ Ordered(gotUser[u], answered[u], missed[u])
    /\ user[u] = "open" => Ahead(gotUser[u], toS[u], answered[u], missed[u], Lasting(u))

IInv ==
    /\ TypeOK /\ Lock
    /\ \A u \in Users : Stream(u) /\ Forwarder(u) /\ Upward(u) /\ Downward(u)

-----------------------------------------------------------------------------
(* Types, a few variables at a time *)

ToClient == [kind : {"open", "connect"}, user : Users]
ToServer == [kind : {"ready"}, user : Users] \cup [kind : {"ping"}, user : {None}]

Msgs ==
    /\ mon \in {"up", "lost", "over"} /\ container \in BOOLEAN
    /\ toClient \in Seq(ToClient) /\ toServer \in Seq(ToServer)
    /\ events \in Nat /\ ready \in SUBSET Users
Conns ==
    /\ srv \in [Users -> {"idle", "open", "wait", "connect", "setup", "subscribe", "relay",
                          "refused"}]
    /\ writeMu \in Users \cup {None}
    /\ user \in [Users -> {"none", "open", "left", "shut"}]
    /\ dataHandlers \in SUBSET Users /\ closeHandlers \in SUBSET Users
    /\ dataSockets \in SUBSET Users /\ dataChannels \in SUBSET Users
    /\ dch \in [Users -> {"none", "upgraded", "set", "loop", "done"}]
Wires ==
    /\ wire \in [Users -> {"none", "open", "closed"}]
    /\ toC \in [Users -> Seq(Nat)] /\ toS \in [Users -> Seq(Nat)]
Clients ==
    /\ loop \in Users \cup {None} /\ dataConns \in SUBSET Users
    /\ tcpStreams \in [Users -> {"none", "placeholder", "conn"}]
    /\ fwd \in [Users -> {"none", "dial", "relay", "done"}]
    /\ rd \in [Users -> {"none", "read", "done"}]
    /\ upstream \in [Users -> {"none", "open", "eof", "shut"}]
Counts ==
    /\ taken \in [Users -> Nat] /\ answered \in [Users -> Nat]
    /\ gotUp \in [Users -> Seq(Nat)] /\ gotUser \in [Users -> Seq(Nat)]
    /\ skipped \in [Users -> SUBSET Nat] /\ missed \in [Users -> SUBSET Nat]

LEMMA Groups == TypeOK <=> Msgs /\ Conns /\ Wires /\ Clients /\ Counts
BY DEF TypeOK, Msgs, Conns, Wires, Clients, Counts, ToClient, ToServer

LEMMA GroupsNext == TypeOK' <=> Msgs' /\ Conns' /\ Wires' /\ Clients' /\ Counts'
BY DEF TypeOK, Msgs, Conns, Wires, Clients, Counts, ToClient, ToServer

LEMMA Constants ==
    /\ None \notin Users /\ Sends \in [Users -> Nat] /\ Answers \in [Users -> Nat]
BY TunnelAssumption

LEMMA TellType ==
    ASSUME Msgs, NEW u \in Users, NEW k \in {"open", "connect"}, Tell(Message(k, u))
    PROVE  toClient' \in Seq(ToClient)
<1>1. Message(k, u) \in ToClient /\ toClient \in Seq(ToClient)
  BY DEF Message, ToClient, Msgs
<1>. QED BY <1>1 DEF Tell

LEMMA CloseUserType ==
    ASSUME Conns, NEW u \in Users, CloseUser(u)
    PROVE  /\ user' \in [Users -> {"none", "open", "left", "shut"}]
           /\ dataHandlers' \in SUBSET Users /\ closeHandlers' \in SUBSET Users
BY DEF CloseUser, Conns

LEMMA CleanupType ==
    ASSUME Clients, Wires, NEW u \in Users, Cleanup(u)
    PROVE  /\ fwd' \in [Users -> {"none", "dial", "relay", "done"}]
           /\ tcpStreams' \in [Users -> {"none", "placeholder", "conn"}]
           /\ upstream' \in [Users -> {"none", "open", "eof", "shut"}]
           /\ dataConns' \in SUBSET Users
           /\ wire' \in [Users -> {"none", "open", "closed"}]
BY DEF Cleanup, Unregistered, RemoveDataChannel, Clients, Wires

LEMMA PieceType ==
    ASSUME NEW f \in [Users -> Seq(Nat)], NEW u \in Users
    PROVE  /\ \A n \in Nat : [f EXCEPT ![u] = Append(@, n)] \in [Users -> Seq(Nat)]
           /\ [f EXCEPT ![u] = <<>>] \in [Users -> Seq(Nat)]
           /\ f[u] # <<>> => /\ Head(f[u]) \in Nat
                             /\ [f EXCEPT ![u] = Tail(@)] \in [Users -> Seq(Nat)]
<1>1. f[u] \in Seq(Nat) /\ <<>> \in Seq(Nat)
  OBVIOUS
<1>2. \A n \in Nat : Append(f[u], n) \in Seq(Nat)
  BY <1>1
<1>3. f[u] # <<>> => Head(f[u]) \in Nat /\ Tail(f[u]) \in Seq(Nat)
  BY <1>1
<1>. QED BY <1>1, <1>2, <1>3

LEMMA LeftType ==
    ASSUME NEW f \in [Users -> SUBSET Nat], NEW u \in Users, NEW n \in Nat
    PROVE  [f EXCEPT ![u] = f[u] \cup {n}] \in [Users -> SUBSET Nat]
OBVIOUS


LEMMA HandlingType ==
    ASSUME TypeOK, NEW u \in Users, Accept(u) \/ Handling(u)
    PROVE  TypeOK'
<1>. USE Groups, Constants DEF monitor, handler, registry, sockets, net, client, service
<1>1. CASE Accept(u)
  <2>1. Msgs'
    BY <1>1 DEF Accept, Msgs
  <2>2. Conns'
    BY <1>1 DEF Accept, Go, Conns
  <2>3. Wires'
    BY <1>1 DEF Accept, Wires
  <2>4. Clients'
    BY <1>1 DEF Accept, Clients
  <2>5. Counts'
    BY <1>1 DEF Accept, Counts
  <2>. QED BY <2>1, <2>2, <2>3, <2>4, <2>5, GroupsNext
<1>2. CASE Ask(u)
  <2>1. Msgs'
    <3>1. toClient' \in Seq(ToClient)
      BY <1>2, TellType DEF Ask, Msgs
    <3>. QED BY <1>2, <3>1 DEF Ask, Msgs
  <2>2. Conns'
    <3>1. /\ user' \in [Users -> {"none", "open", "left", "shut"}]
          /\ dataHandlers' \in SUBSET Users /\ closeHandlers' \in SUBSET Users
      BY <1>2, CloseUserType DEF Ask, Conns
    <3>2. srv' \in [Users -> {"idle", "open", "wait", "connect", "setup", "subscribe", "relay",
                             "refused"}]
      BY <1>2 DEF Ask, Go, Conns
    <3>. QED BY <1>2, <3>1, <3>2 DEF Ask, Conns
  <2>3. Wires'
    BY <1>2 DEF Ask, Wires
  <2>4. Clients'
    BY <1>2 DEF Ask, Clients
  <2>5. Counts'
    BY <1>2 DEF Ask, Counts
  <2>. QED BY <2>1, <2>2, <2>3, <2>4, <2>5, GroupsNext
<1>3. CASE Proceed(u)
  <2>1. Msgs'
    BY <1>3 DEF Proceed, Msgs
  <2>2. Conns'
    BY <1>3 DEF Proceed, Go, Conns
  <2>3. Wires'
    BY <1>3 DEF Proceed, Wires
  <2>4. Clients'
    BY <1>3 DEF Proceed, Clients
  <2>5. Counts'
    BY <1>3 DEF Proceed, Counts
  <2>. QED BY <2>1, <2>2, <2>3, <2>4, <2>5, GroupsNext
<1>4. CASE Expire(u)
  <2>1. Msgs'
    BY <1>4 DEF Expire, Msgs
  <2>2. Conns'
    <3>1. /\ user' \in [Users -> {"none", "open", "left", "shut"}]
          /\ dataHandlers' \in SUBSET Users /\ closeHandlers' \in SUBSET Users
      BY <1>4, CloseUserType DEF Expire
    <3>. QED BY <1>4, <3>1 DEF Expire, Freed, Go, Conns
  <2>3. Wires'
    BY <1>4 DEF Expire, Wires
  <2>4. Clients'
    BY <1>4 DEF Expire, Clients
  <2>5. Counts'
    BY <1>4 DEF Expire, Counts
  <2>. QED BY <2>1, <2>2, <2>3, <2>4, <2>5, GroupsNext
<1>5. CASE Connect(u)
  <2>1. Msgs'
    <3>1. toClient' \in Seq(ToClient)
      BY <1>5, TellType DEF Connect, Msgs
    <3>. QED BY <1>5, <3>1 DEF Connect, Msgs
  <2>2. Conns'
    <3>1. /\ user' \in [Users -> {"none", "open", "left", "shut"}]
          /\ dataHandlers' \in SUBSET Users /\ closeHandlers' \in SUBSET Users
      BY <1>5, CloseUserType DEF Connect, Conns
    <3>2. srv' \in [Users -> {"idle", "open", "wait", "connect", "setup", "subscribe", "relay",
                             "refused"}]
      BY <1>5 DEF Connect, Go, Conns
    <3>. QED BY <1>5, <3>1, <3>2 DEF Connect, Conns
  <2>3. Wires'
    BY <1>5 DEF Connect, Wires
  <2>4. Clients'
    BY <1>5 DEF Connect, Clients
  <2>5. Counts'
    BY <1>5 DEF Connect, Counts
  <2>. QED BY <2>1, <2>2, <2>3, <2>4, <2>5, GroupsNext
<1>6. CASE StartUpload(u)
  <2>1. Msgs'
    BY <1>6 DEF StartUpload, Msgs
  <2>2. Conns'
    BY <1>6 DEF StartUpload, Go, Conns
  <2>3. Wires'
    BY <1>6 DEF StartUpload, Wires
  <2>4. Clients'
    BY <1>6 DEF StartUpload, Clients
  <2>5. Counts'
    BY <1>6 DEF StartUpload, Counts
  <2>. QED BY <2>1, <2>2, <2>3, <2>4, <2>5, GroupsNext
<1>7. CASE Subscribe(u)
  <2>1. Msgs'
    BY <1>7 DEF Subscribe, Msgs
  <2>2. Conns'
    BY <1>7 DEF Subscribe, Go, Conns
  <2>3. Wires'
    BY <1>7 DEF Subscribe, Wires
  <2>4. Clients'
    BY <1>7 DEF Subscribe, Clients
  <2>5. Counts'
    BY <1>7 DEF Subscribe, Counts
  <2>. QED BY <2>1, <2>2, <2>3, <2>4, <2>5, GroupsNext
<1>. QED BY <1>1, <1>2, <1>3, <1>4, <1>5, <1>6, <1>7 DEF Handling

LEMMA SendingType ==
    ASSUME TypeOK, NEW u \in Users, Sending(u)
    PROVE  TypeOK'
<1>. USE Groups, Constants DEF monitor, handler, registry, sockets, net, client, service
<1>1. CASE Upload(u)
  <2>1. Msgs'
    BY <1>1 DEF Upload, Event, Msgs
  <2>2. Conns'
    <3>1. /\ user' \in [Users -> {"none", "open", "left", "shut"}]
          /\ dataHandlers' \in SUBSET Users /\ closeHandlers' \in SUBSET Users
      BY <1>1, CloseUserType DEF Upload, Conns
    <3>. QED BY <1>1, <3>1 DEF Upload, Conns
  <2>3. Wires'
    <3>1. taken[u] + 1 \in Nat
      BY DEF Counts
    <3>2. [toC EXCEPT ![u] = Append(@, taken[u] + 1)] \in [Users -> Seq(Nat)]
      BY <3>1, PieceType DEF Wires
    <3>3. toC' = toC \/ toC' = [toC EXCEPT ![u] = Append(@, taken[u] + 1)]
      BY <1>1 DEF Upload, SendTCPData
    <3>. QED BY <1>1, <3>2, <3>3 DEF Upload, Wires
  <2>4. Clients'
    BY <1>1 DEF Upload, Clients
  <2>5. Counts'
    <3>1. taken' = [taken EXCEPT ![u] = taken[u] + 1] /\ taken[u] + 1 \in Nat
      BY <1>1 DEF Upload, Counts
    <3>2. skipped' = skipped \/ skipped' = [skipped EXCEPT ![u] = skipped[u] \cup {taken[u] + 1}]
      BY <1>1 DEF Upload
    <3>3. [skipped EXCEPT ![u] = skipped[u] \cup {taken[u] + 1}] \in [Users -> SUBSET Nat]
      BY <3>1, LeftType DEF Counts
    <3>4. skipped' \in [Users -> SUBSET Nat]
      BY <3>2, <3>3 DEF Counts
    <3>5. taken' \in [Users -> Nat]
      BY <3>1 DEF Counts
    <3>. QED BY <1>1, <3>4, <3>5 DEF Upload, Counts
  <2>. QED BY <2>1, <2>2, <2>3, <2>4, <2>5, GroupsNext
<1>2. CASE UploadEnds(u)
  <2>1. Msgs'
    BY <1>2 DEF UploadEnds, Msgs
  <2>2. Conns'
    <3>1. /\ user' \in [Users -> {"none", "open", "left", "shut"}]
          /\ dataHandlers' \in SUBSET Users /\ closeHandlers' \in SUBSET Users
      BY <1>2, CloseUserType DEF UploadEnds, Conns
    <3>. QED BY <1>2, <3>1 DEF UploadEnds, Conns
  <2>3. Wires'
    BY <1>2 DEF UploadEnds, Wires
  <2>4. Clients'
    BY <1>2 DEF UploadEnds, Clients
  <2>5. Counts'
    BY <1>2 DEF UploadEnds, Counts
  <2>. QED BY <2>1, <2>2, <2>3, <2>4, <2>5, GroupsNext
<1>. QED BY <1>1, <1>2 DEF Sending

LEMMA ServingType ==
    ASSUME TypeOK, NEW u \in Users, Serving(u)
    PROVE  TypeOK'
<1>. USE Groups, Constants DEF monitor, handler, registry, sockets, net, client, service
<1>1. CASE Upgrade(u)
  <2>1. Msgs'
    BY <1>1 DEF Upgrade, Msgs
  <2>2. Conns'
    BY <1>1 DEF Upgrade, Conns
  <2>3. Wires'
    BY <1>1 DEF Upgrade, Wires
  <2>4. Clients'
    BY <1>1 DEF Upgrade, Clients
  <2>5. Counts'
    BY <1>1 DEF Upgrade, Counts
  <2>. QED BY <2>1, <2>2, <2>3, <2>4, <2>5, GroupsNext
<1>2. CASE Register(u)
  <2>1. Msgs'
    BY <1>2 DEF Register, Msgs
  <2>2. Conns'
    <3>1. dataSockets' \in SUBSET Users /\ dch' \in [Users -> {"none", "upgraded", "set", "loop", "done"}]
      BY <1>2 DEF Register, Conns
    <3>. QED BY <1>2, <3>1 DEF Register, Conns
  <2>3. Wires'
    <3>1. wire' \in [Users -> {"none", "open", "closed"}]
      BY <1>2 DEF Register, Wires
    <3>. QED BY <1>2, <3>1 DEF Register, Wires
  <2>4. Clients'
    BY <1>2 DEF Register, Clients
  <2>5. Counts'
    BY <1>2 DEF Register, Counts
  <2>. QED BY <2>1, <2>2, <2>3, <2>4, <2>5, GroupsNext
<1>3. CASE SetDataChannel(u)
  <2>1. Msgs'
    BY <1>3 DEF SetDataChannel, Msgs
  <2>2. Conns'
    BY <1>3 DEF SetDataChannel, Conns
  <2>3. Wires'
    BY <1>3 DEF SetDataChannel, Wires
  <2>4. Clients'
    BY <1>3 DEF SetDataChannel, Clients
  <2>5. Counts'
    BY <1>3 DEF SetDataChannel, Counts
  <2>. QED BY <2>1, <2>2, <2>3, <2>4, <2>5, GroupsNext
<1>4. CASE DataRead(u)
  <2>1. Msgs'
    BY <1>4 DEF DataRead, Event, Msgs
  <2>2. Conns'
    <3>1. /\ user' \in [Users -> {"none", "open", "left", "shut"}]
          /\ dataHandlers' \in SUBSET Users /\ closeHandlers' \in SUBSET Users
      BY <1>4, CloseUserType DEF DataRead, Conns
    <3>. QED BY <1>4, <3>1 DEF DataRead, Conns
  <2>3. Wires'
    <3>1. toS' = [toS EXCEPT ![u] = Tail(@)] /\ toS[u] # <<>>
      BY <1>4 DEF DataRead
    <3>2. toS' \in [Users -> Seq(Nat)]
      BY <3>1, PieceType DEF Wires
    <3>. QED BY <1>4, <3>2 DEF DataRead, Wires
  <2>4. Clients'
    BY <1>4 DEF DataRead, Clients
  <2>5. Counts'
    <3>1. toS[u] # <<>> /\ Head(toS[u]) \in Nat
      BY <1>4, PieceType DEF DataRead, Wires
    <3>2. missed' = missed \/ missed' = [missed EXCEPT ![u] = missed[u] \cup {Head(toS[u])}]
      BY <1>4 DEF DataRead
    <3>3. missed' \in [Users -> SUBSET Nat]
      <4>1. [missed EXCEPT ![u] = missed[u] \cup {Head(toS[u])}] \in [Users -> SUBSET Nat]
        BY <3>1, LeftType DEF Counts
      <4>. QED BY <3>2, <4>1 DEF Counts
    <3>4. \A v \in Users : gotUser[v] \in Seq(Nat) /\ Append(gotUser[v], Head(toS[u])) \in Seq(Nat)
      BY <3>1 DEF Counts
    <3>5. gotUser' = gotUser \/ gotUser' = [v \in Users |-> IF v \in Takers(u) /\ user[v] = "open"
                                                THEN Append(gotUser[v], Head(toS[u])) ELSE gotUser[v]]
      BY <1>4 DEF DataRead
    <3>6. gotUser' \in [Users -> Seq(Nat)]
      BY <3>4, <3>5 DEF Counts
    <3>. QED BY <1>4, <3>3, <3>6 DEF DataRead, Counts
  <2>. QED BY <2>1, <2>2, <2>3, <2>4, <2>5, GroupsNext
<1>5. CASE DataEnds(u)
  <2>1. Msgs'
    BY <1>5 DEF DataEnds, Msgs
  <2>2. Conns'
    BY <1>5 DEF DataEnds, RemoveDataChannelForStream, Conns
  <2>3. Wires'
    BY <1>5 DEF DataEnds, Wires
  <2>4. Clients'
    BY <1>5 DEF DataEnds, Clients
  <2>5. Counts'
    BY <1>5 DEF DataEnds, Counts
  <2>. QED BY <2>1, <2>2, <2>3, <2>4, <2>5, GroupsNext
<1>. QED BY <1>1, <1>2, <1>3, <1>4, <1>5 DEF Serving

LEMMA OpeningType ==
    ASSUME TypeOK, NEW u \in Users, Opening(u)
    PROVE  TypeOK'
<1>. USE Groups, Constants DEF monitor, handler, registry, sockets, net, client, service
<1>1. CASE Opened(u)
  <2>1. Msgs'
    <3>1. Message("ready", u) \in ToServer /\ toServer \in Seq(ToServer)
      BY DEF Message, ToServer, Msgs
    <3>2. toServer' \in Seq(ToServer)
      BY <1>1, <3>1 DEF Opened
    <3>. QED BY <1>1, <3>2 DEF Opened, Msgs
  <2>2. Conns'
    BY <1>1 DEF Opened, Conns
  <2>3. Wires'
    BY <1>1 DEF Opened, Wires
  <2>4. Clients'
    BY <1>1 DEF Opened, Early, Entry, Clients
  <2>5. Counts'
    BY <1>1 DEF Opened, Counts
  <2>. QED BY <2>1, <2>2, <2>3, <2>4, <2>5, GroupsNext
<1>2. CASE DialFails(u)
  <2>1. Msgs'
    BY <1>2 DEF DialFails, Event, Msgs
  <2>2. Conns'
    BY <1>2 DEF DialFails, Conns
  <2>3. Wires'
    BY <1>2 DEF DialFails, Wires
  <2>4. Clients'
    BY <1>2 DEF DialFails, Clients
  <2>5. Counts'
    BY <1>2 DEF DialFails, Counts
  <2>. QED BY <2>1, <2>2, <2>3, <2>4, <2>5, GroupsNext
<1>. QED BY <1>1, <1>2 DEF Opening

LEMMA RelayingType ==
    ASSUME TypeOK, NEW u \in Users, Relaying(u)
    PROVE  TypeOK'
<1>. USE Groups, Constants DEF monitor, handler, registry, sockets, net, client, service
<1>1. CASE DialUpstream(u)
  <2>1. Msgs'
    BY <1>1 DEF DialUpstream, Event, Msgs
  <2>2. Conns'
    BY <1>1 DEF DialUpstream, Conns
  <2>3. Wires'
    <3>1. wire' \in [Users -> {"none", "open", "closed"}]
      BY <1>1, CleanupType DEF DialUpstream, Wires
    <3>2. toS' = toS \/ toS' = [toS EXCEPT ![u] = Append(@, 0)]
      BY <1>1 DEF DialUpstream, CloseNotify
    <3>3. [toS EXCEPT ![u] = Append(@, 0)] \in [Users -> Seq(Nat)]
      BY PieceType DEF Wires
    <3>4. toS' \in [Users -> Seq(Nat)]
      BY <3>2, <3>3 DEF Wires
    <3>. QED BY <1>1, <3>1, <3>4 DEF DialUpstream, Wires
  <2>4. Clients'
    <3>1. CASE Cleanup(u)
      BY <1>1, <3>1, CleanupType DEF DialUpstream, Clients
    <3>2. CASE ~Cleanup(u)
      BY <1>1, <3>2 DEF DialUpstream, Clients
    <3>. QED BY <3>1, <3>2
  <2>5. Counts'
    BY <1>1 DEF DialUpstream, Counts
  <2>. QED BY <2>1, <2>2, <2>3, <2>4, <2>5, GroupsNext
<1>2. CASE RelaySends(u)
  <2>1. Msgs'
    BY <1>2 DEF RelaySends, Msgs
  <2>2. Conns'
    BY <1>2 DEF RelaySends, Conns
  <2>3. Wires'
    <3>1. wire' \in [Users -> {"none", "open", "closed"}]
      BY <1>2, CleanupType DEF RelaySends, Wires
    <3>2. toS' = toS \/ toS' = [toS EXCEPT ![u] = Append(@, answered[u] + 1)]
      BY <1>2 DEF RelaySends
    <3>3. answered[u] + 1 \in Nat
      BY DEF Counts
    <3>4. toS' \in [Users -> Seq(Nat)]
      <4>1. [toS EXCEPT ![u] = Append(@, answered[u] + 1)] \in [Users -> Seq(Nat)]
        BY <3>3, PieceType DEF Wires
      <4>. QED BY <3>2, <4>1 DEF Wires
    <3>. QED BY <1>2, <3>1, <3>4 DEF RelaySends, Wires
  <2>4. Clients'
    <3>1. CASE Cleanup(u)
      BY <1>2, <3>1, CleanupType DEF RelaySends, Clients
    <3>2. CASE ~Cleanup(u)
      BY <1>2, <3>2 DEF RelaySends, Clients
    <3>. QED BY <3>1, <3>2
  <2>5. Counts'
    <3>1. answered' = [answered EXCEPT ![u] = answered[u] + 1] /\ answered[u] + 1 \in Nat
      BY <1>2 DEF RelaySends, Counts
    <3>. QED BY <1>2, <3>1 DEF RelaySends, Counts
  <2>. QED BY <2>1, <2>2, <2>3, <2>4, <2>5, GroupsNext
<1>3. CASE RelayEnds(u)
  <2>1. Msgs'
    BY <1>3 DEF RelayEnds, Msgs
  <2>2. Conns'
    BY <1>3 DEF RelayEnds, Conns
  <2>3. Wires'
    BY <1>3, CleanupType DEF RelayEnds, Wires
  <2>4. Clients'
    BY <1>3, CleanupType DEF RelayEnds, Clients
  <2>5. Counts'
    BY <1>3 DEF RelayEnds, Counts
  <2>. QED BY <2>1, <2>2, <2>3, <2>4, <2>5, GroupsNext
<1>. QED BY <1>1, <1>2, <1>3 DEF Relaying

LEMMA ReadingType ==
    ASSUME TypeOK, NEW u \in Users, Reading(u)
    PROVE  TypeOK'
<1>. USE Groups, Constants DEF monitor, handler, registry, sockets, net, client, service
<1>1. CASE DataIn(u)
  <2>1. Msgs'
    BY <1>1 DEF DataIn, Msgs
  <2>2. Conns'
    BY <1>1 DEF DataIn, Conns
  <2>3. Wires'
    <3>1. toC' = [toC EXCEPT ![u] = Tail(@)] /\ toC[u] # <<>>
      BY <1>1 DEF DataIn
    <3>2. toC' \in [Users -> Seq(Nat)]
      BY <3>1, PieceType DEF Wires
    <3>. QED BY <1>1, <3>2 DEF DataIn, Wires
  <2>4. Clients'
    <3>1. tcpStreams' = tcpStreams \/ tcpStreams' = [tcpStreams EXCEPT ![u] = "none"]
      BY <1>1 DEF DataIn
    <3>2. upstream' = upstream \/ upstream' = [upstream EXCEPT ![u] = "shut"]
      BY <1>1 DEF DataIn
    <3>3. /\ tcpStreams' \in [Users -> {"none", "placeholder", "conn"}]
          /\ upstream' \in [Users -> {"none", "open", "eof", "shut"}]
      BY <3>1, <3>2 DEF Clients
    <3>. QED BY <1>1, <3>3 DEF DataIn, Clients
  <2>5. Counts'
    <3>1. Head(toC[u]) \in Nat
      BY <1>1, PieceType DEF DataIn, Wires
    <3>2. gotUp' = gotUp \/ gotUp' = [gotUp EXCEPT ![u] = Append(@, Head(toC[u]))]
      BY <1>1 DEF DataIn
    <3>3. gotUp' \in [Users -> Seq(Nat)]
      <4>1. [gotUp EXCEPT ![u] = Append(@, Head(toC[u]))] \in [Users -> Seq(Nat)]
        BY <3>1, PieceType DEF Counts
      <4>. QED BY <3>2, <4>1 DEF Counts
    <3>. QED BY <1>1, <3>3 DEF DataIn, Counts
  <2>. QED BY <2>1, <2>2, <2>3, <2>4, <2>5, GroupsNext
<1>2. CASE GiveUp(u)
  <2>1. Msgs'
    BY <1>2 DEF GiveUp, Msgs
  <2>2. Conns'
    BY <1>2 DEF GiveUp, Conns
  <2>3. Wires'
    <3>1. toC' = [toC EXCEPT ![u] = Tail(@)] /\ toC[u] # <<>>
      BY <1>2 DEF GiveUp
    <3>2. toC' \in [Users -> Seq(Nat)]
      BY <3>1, PieceType DEF Wires
    <3>. QED BY <1>2, <3>2 DEF GiveUp, Wires
  <2>4. Clients'
    BY <1>2 DEF GiveUp, Clients
  <2>5. Counts'
    <3>1. Head(toC[u]) \in Nat /\ skipped' = [skipped EXCEPT ![u] = skipped[u] \cup {Head(toC[u])}]
      BY <1>2, PieceType DEF GiveUp, Wires
    <3>2. skipped' \in [Users -> SUBSET Nat]
      BY <3>1 DEF Counts
    <3>. QED BY <1>2, <3>2 DEF GiveUp, Counts
  <2>. QED BY <2>1, <2>2, <2>3, <2>4, <2>5, GroupsNext
<1>3. CASE ChannelEnds(u)
  <2>1. Msgs'
    BY <1>3 DEF ChannelEnds, Msgs
  <2>2. Conns'
    BY <1>3 DEF ChannelEnds, Conns
  <2>3. Wires'
    <3>1. toC' \in [Users -> Seq(Nat)]
      BY <1>3, PieceType DEF ChannelEnds, Wires
    <3>. QED BY <1>3, <3>1 DEF ChannelEnds, RemoveDataChannel, Wires
  <2>4. Clients'
    BY <1>3 DEF ChannelEnds, RemoveDataChannel, Clients
  <2>5. Counts'
    BY <1>3 DEF ChannelEnds, Counts
  <2>. QED BY <2>1, <2>2, <2>3, <2>4, <2>5, GroupsNext
<1>. QED BY <1>1, <1>2, <1>3 DEF Reading

LEMMA MonitorType ==
    ASSUME TypeOK, ServerReads \/ ClientReads \/ ClientLoses \/ Ping \/ Lose \/ Destroy
    PROVE  TypeOK'
<1>. USE Groups, Constants DEF monitor, handler, registry, sockets, net, client, service
<1>1. CASE ServerReads
  <2>1. Msgs'
    <3>1. toServer \in Seq(ToServer) /\ toServer # <<>>
      BY <1>1 DEF ServerReads, Msgs
    <3>2. Head(toServer) \in ToServer /\ Tail(toServer) \in Seq(ToServer)
      BY <3>1
    <3>3. Head(toServer).kind = "ready" => Head(toServer).user \in Users
      BY <3>2 DEF ToServer
    <3>4. ready' \in SUBSET Users /\ toServer' = Tail(toServer)
      BY <1>1, <3>3 DEF ServerReads, Msgs
    <3>. QED BY <1>1, <3>2, <3>4 DEF ServerReads, Msgs
  <2>2. Conns'
    BY <1>1 DEF ServerReads, Conns
  <2>3. Wires'
    BY <1>1 DEF ServerReads, Wires
  <2>4. Clients'
    BY <1>1 DEF ServerReads, Clients
  <2>5. Counts'
    BY <1>1 DEF ServerReads, Counts
  <2>. QED BY <2>1, <2>2, <2>3, <2>4, <2>5, GroupsNext
<1>2. CASE ClientReads
  <2>1. Msgs'
    <3>1. toClient \in Seq(ToClient) /\ toClient # <<>> /\ toClient' = Tail(toClient)
      BY <1>2 DEF ClientReads, Msgs
    <3>2. toClient' \in Seq(ToClient)
      BY <3>1
    <3>. QED BY <1>2, <3>2 DEF ClientReads, Msgs
  <2>2. Conns'
    BY <1>2 DEF ClientReads, Conns
  <2>3. Wires'
    BY <1>2 DEF ClientReads, Wires
  <2>4. Clients'
    <3>1. toClient \in Seq(ToClient) /\ toClient # <<>>
      BY <1>2 DEF ClientReads, Msgs
    <3>2. PICK v \in Users : v = Head(toClient).user
      <4>1. Head(toClient) \in ToClient
        BY <3>1
      <4>. QED BY <4>1 DEF ToClient
    <3>3. \/ loop' = v /\ UNCHANGED <<tcpStreams, fwd>>
          \/ /\ tcpStreams' = [tcpStreams EXCEPT ![v] = Entry(v)]
             /\ fwd' = [fwd EXCEPT ![v] = "dial"]
             /\ loop' = loop
      BY <1>2, <3>2 DEF ClientReads
    <3>4. Entry(v) \in {"none", "placeholder", "conn"}
      BY DEF Entry, Clients
    <3>5. loop' \in Users \cup {None}
      BY <3>3 DEF Clients
    <3>6. /\ tcpStreams' \in [Users -> {"none", "placeholder", "conn"}]
          /\ fwd' \in [Users -> {"none", "dial", "relay", "done"}]
      BY <3>3, <3>4 DEF Clients
    <3>. QED BY <1>2, <3>5, <3>6 DEF ClientReads, Clients
  <2>5. Counts'
    BY <1>2 DEF ClientReads, Counts
  <2>. QED BY <2>1, <2>2, <2>3, <2>4, <2>5, GroupsNext
<1>3. CASE ClientLoses
  <2>1. Msgs'
    <3>1. <<>> \in Seq(ToClient)
      OBVIOUS
    <3>. QED BY <1>3, <3>1 DEF ClientLoses, Msgs
  <2>2. Conns'
    BY <1>3 DEF ClientLoses, Conns
  <2>3. Wires'
    BY <1>3 DEF ClientLoses, Wires
  <2>4. Clients'
    BY <1>3 DEF ClientLoses, Clients
  <2>5. Counts'
    BY <1>3 DEF ClientLoses, Counts
  <2>. QED BY <2>1, <2>2, <2>3, <2>4, <2>5, GroupsNext
<1>4. CASE Ping
  <2>1. Msgs'
    <3>1. Message("ping", None) \in ToServer /\ toServer \in Seq(ToServer)
      BY DEF Message, ToServer, Msgs
    <3>2. toServer' \in Seq(ToServer)
      BY <1>4, <3>1 DEF Ping
    <3>. QED BY <1>4, <3>2 DEF Ping, Event, Msgs
  <2>2. Conns'
    BY <1>4 DEF Ping, Conns
  <2>3. Wires'
    BY <1>4 DEF Ping, Wires
  <2>4. Clients'
    BY <1>4 DEF Ping, Clients
  <2>5. Counts'
    BY <1>4 DEF Ping, Counts
  <2>. QED BY <2>1, <2>2, <2>3, <2>4, <2>5, GroupsNext
<1>5. CASE Lose
  <2>1. Msgs'
    BY <1>5 DEF Lose, Event, Msgs
  <2>2. Conns'
    BY <1>5 DEF Lose, Conns
  <2>3. Wires'
    BY <1>5 DEF Lose, Wires
  <2>4. Clients'
    BY <1>5 DEF Lose, Clients
  <2>5. Counts'
    BY <1>5 DEF Lose, Counts
  <2>. QED BY <2>1, <2>2, <2>3, <2>4, <2>5, GroupsNext
<1>6. CASE Destroy
  <2>1. Msgs'
    BY <1>6 DEF Destroy, Msgs
  <2>2. Conns'
    BY <1>6 DEF Destroy, Conns
  <2>3. Wires'
    BY <1>6 DEF Destroy, Wires
  <2>4. Clients'
    BY <1>6 DEF Destroy, Clients
  <2>5. Counts'
    BY <1>6 DEF Destroy, Counts
  <2>. QED BY <2>1, <2>2, <2>3, <2>4, <2>5, GroupsNext
<1>. QED BY <1>1, <1>2, <1>3, <1>4, <1>5, <1>6

LEMMA WorldType ==
    ASSUME TypeOK, NEW u \in Users, Leave(u) \/ UpstreamEnds(u) \/ Break(u)
    PROVE  TypeOK'
<1>. USE Groups, Constants DEF monitor, handler, registry, sockets, net, client, service
<1>1. CASE Leave(u)
  <2>1. Msgs'
    BY <1>1 DEF Leave, Event, Msgs
  <2>2. Conns'
    BY <1>1 DEF Leave, Conns
  <2>3. Wires'
    BY <1>1 DEF Leave, Wires
  <2>4. Clients'
    BY <1>1 DEF Leave, Clients
  <2>5. Counts'
    BY <1>1 DEF Leave, Counts
  <2>. QED BY <2>1, <2>2, <2>3, <2>4, <2>5, GroupsNext
<1>2. CASE UpstreamEnds(u)
  <2>1. Msgs'
    BY <1>2 DEF UpstreamEnds, Event, Msgs
  <2>2. Conns'
    BY <1>2 DEF UpstreamEnds, Conns
  <2>3. Wires'
    BY <1>2 DEF UpstreamEnds, Wires
  <2>4. Clients'
    BY <1>2 DEF UpstreamEnds, Clients
  <2>5. Counts'
    BY <1>2 DEF UpstreamEnds, Counts
  <2>. QED BY <2>1, <2>2, <2>3, <2>4, <2>5, GroupsNext
<1>3. CASE Break(u)
  <2>1. Msgs'
    BY <1>3 DEF Break, Event, Msgs
  <2>2. Conns'
    BY <1>3 DEF Break, Conns
  <2>3. Wires'
    <3>1. toC' \in [Users -> Seq(Nat)] /\ toS' \in [Users -> Seq(Nat)]
      BY <1>3, PieceType DEF Break, Wires
    <3>. QED BY <1>3, <3>1 DEF Break, Wires
  <2>4. Clients'
    BY <1>3 DEF Break, Clients
  <2>5. Counts'
    BY <1>3 DEF Break, Counts
  <2>. QED BY <2>1, <2>2, <2>3, <2>4, <2>5, GroupsNext
<1>. QED BY <1>1, <1>2, <1>3

-----------------------------------------------------------------------------
(* WriteMu *)

LEMMA LockStep ==
    ASSUME TypeOK, Lock, [Next]_vars
    PROVE  Lock'
<1>. USE Groups, Constants
<1>1. ASSUME UNCHANGED <<srv, writeMu>>
      PROVE  Lock'
  BY <1>1 DEF Lock
<1>2. ASSUME NEW u \in Users, Accept(u) \/ Handling(u)
      PROVE  Lock'
  <2>1. CASE srv[u] # "wait" /\ writeMu' = writeMu
             /\ \E l \in {"open", "refused", "setup", "subscribe", "relay"} : srv' = [srv EXCEPT ![u] = l]
    BY <2>1 DEF Lock, Conns
  <2>2. CASE srv[u] = "wait" /\ writeMu' = None
             /\ \E l \in {"connect", "refused"} : srv' = [srv EXCEPT ![u] = l]
    BY <2>2 DEF Lock, Conns
  <2>3. CASE writeMu = None /\ writeMu' = u /\ srv' = [srv EXCEPT ![u] = "wait"]
    BY <2>3 DEF Lock, Conns
  <2>4. CASE Accept(u)
    BY <2>1, <2>4 DEF Accept, Go
  <2>5. CASE Ask(u)
    BY <2>1, <2>3, <2>5 DEF Ask, Go
  <2>6. CASE Proceed(u)
    BY <2>2, <2>6 DEF Proceed, Go
  <2>7. CASE Expire(u)
    BY <2>2, <2>7 DEF Expire, Freed, Go
  <2>8. CASE Connect(u)
    BY <2>1, <2>8 DEF Connect, Go
  <2>9. CASE StartUpload(u)
    BY <2>1, <2>9 DEF StartUpload, Go
  <2>10. CASE Subscribe(u)
    BY <2>1, <2>10 DEF Subscribe, Go
  <2>. QED BY <1>2, <2>4, <2>5, <2>6, <2>7, <2>8, <2>9, <2>10 DEF Handling
<1>3. ASSUME NEW u \in Users, Sending(u) \/ Serving(u) \/ Opening(u)
      PROVE  UNCHANGED <<srv, writeMu>>
  BY <1>3 DEF Sending, Upload, UploadEnds, Serving, Upgrade, Register, SetDataChannel, DataRead,
              DataEnds, Opening, Opened, DialFails, handler
<1>4. ASSUME NEW u \in Users, Relaying(u) \/ Reading(u)
      PROVE  UNCHANGED <<srv, writeMu>>
  BY <1>4 DEF Relaying, DialUpstream, RelaySends, RelayEnds, Reading, DataIn, GiveUp, ChannelEnds,
              handler
<1>5. ASSUME NEW u \in Users, Leave(u) \/ UpstreamEnds(u) \/ Break(u)
      PROVE  UNCHANGED <<srv, writeMu>>
  BY <1>5 DEF Leave, UpstreamEnds, Break, handler
<1>6. CASE ServerReads \/ ClientReads \/ ClientLoses \/ Ping \/ Lose \/ Destroy
  BY <1>1, <1>6 DEF ServerReads, ClientReads, ClientLoses, Ping, Lose, Destroy, handler
<1>7. CASE UNCHANGED vars
  BY <1>1, <1>7 DEF vars, handler
<1>. QED BY <1>1, <1>2, <1>3, <1>4, <1>5, <1>6, <1>7 DEF Next

-----------------------------------------------------------------------------
(* A stream's entries *)

\* A step that asks for nothing, and brings nothing back, leaves the stream as it is.
LEMMA Quiet ==
    ASSUME NEW u \in Users, Stream(u),
           srv'[u] \in {"idle", "open"} => srv[u] \in {"idle", "open"},
           srv'[u] \in Before => srv[u] \in Before,
           fwd'[u] = fwd[u], loop' = u => loop = u,
           toClient' = toClient \/ toClient' = <<>>,
           fwd[u] = "done" => /\ tcpStreams'[u] = tcpStreams[u] \/ tcpStreams'[u] = "none"
                              /\ u \in dataConns' => u \in dataConns
    PROVE  Stream(u)'
<1>1. CASE toClient' = toClient
  BY <1>1 DEF Stream, Opens, Connects
<1>2. CASE toClient' = <<>>
  BY <1>2 DEF Stream, Opens, Connects
<1>. QED BY <1>1, <1>2

LEMMA HandlingStream ==
    ASSUME IInv, NEW u \in Users, Accept(u) \/ Handling(u), NEW v \in Users
    PROVE  Stream(v)'
<1>. USE Groups DEF IInv, monitor, handler, registry, sockets, net, client, service, Go
<1>1. CASE Accept(u)
  BY <1>1, Quiet DEF Accept, Conns, Before
<1>2. ASSUME srv[u] \in {"open", "connect"}, NEW l \in {"wait", "setup"}, srv' = [srv EXCEPT ![u] = l],
             \/ toClient' = toClient
             \/ toClient' = Append(toClient, Message("open", u)) /\ srv[u] = "open" /\ l = "wait"
             \/ toClient' = Append(toClient, Message("connect", u)) /\ l = "setup",
             UNCHANGED client
      PROVE  Stream(v)'
  <2>1. /\ srv'[u] = l /\ \A w \in Users : w # u => srv'[w] = srv[w]
        /\ toClient \in Seq(ToClient)
    BY <1>2 DEF Conns, Msgs
  <2>2. CASE toClient' = toClient
    BY <1>2, <2>1, <2>2, Quiet DEF Before
  <2>3. ASSUME NEW m \in ToClient, toClient' = Append(toClient, m), m.user = u,
               \/ m = Message("open", u) /\ srv[u] = "open" /\ l = "wait"
               \/ m = Message("connect", u) /\ l = "setup"
        PROVE  Stream(v)'
    <3>1. /\ Len(toClient) \in Nat /\ Len(toClient') = Len(toClient) + 1
          /\ toClient'[Len(toClient) + 1] = m
          /\ \A i \in 1 .. Len(toClient) : toClient'[i] = toClient[i]
      BY <2>1, <2>3
    <3>2. /\ \A i \in 1 .. Len(toClient) : Opens(v, i)' <=> Opens(v, i)
          /\ \A i \in 1 .. Len(toClient) : Connects(v, i)' <=> Connects(v, i)
          /\ \A i \in 1 .. Len(toClient') : i = Len(toClient) + 1 \/ i \in 1 .. Len(toClient)
      BY <3>1 DEF Opens, Connects
    <3>3. PICK n \in Nat : n = Len(toClient) + 1
      BY <3>1
    <3>4. CASE v # u
      <4>1. ~Opens(v, n)' /\ ~Connects(v, n)'
        BY <2>3, <3>1, <3>3, <3>4 DEF Opens, Connects, Message
      <4>. QED BY <1>2, <2>1, <3>1, <3>2, <3>3, <3>4, <4>1 DEF Stream, Before
    <3>5. CASE v = u /\ m = Message("open", u) /\ srv[u] = "open"
      <4>1. ~Connects(v, n)'
        BY <3>1, <3>3, <3>5 DEF Connects, Message
      <4>. QED BY <1>2, <2>1, <3>1, <3>2, <3>3, <3>5, <4>1 DEF Stream, Before
    <3>6. CASE v = u /\ m = Message("connect", u)
      <4>1. /\ ~Opens(v, n)' /\ l = "setup"
            /\ fwd[v] = "none" /\ \A i \in 1 .. Len(toClient) : ~Connects(v, i)
        BY <1>2, <2>3, <3>1, <3>3, <3>6 DEF Opens, Message, Stream, Before
      <4>2. ASSUME NEW i \in 1 .. Len(toClient'), NEW j \in 1 .. Len(toClient'), i < j
            PROVE  ~Connects(v, i)'
        BY <3>1, <3>2, <4>1, <4>2
      <4>3. srv'[v] = "setup" /\ fwd'[v] = "none"
        BY <1>2, <2>1, <3>6, <4>1
      <4>. QED BY <4>2, <4>3 DEF Stream, Before
    <3>. QED BY <2>3, <3>4, <3>5, <3>6
  <2>4. \A k \in {"open", "connect"} : Message(k, u) \in ToClient /\ Message(k, u).user = u
    BY DEF Message, ToClient
  <2>. QED BY <1>2, <2>2, <2>3, <2>4
<1>3. CASE Ask(u)
  <2>1. CASE srv' = [srv EXCEPT ![u] = "wait"]
    <3>1. /\ toClient' = toClient \/ toClient' = Append(toClient, Message("open", u))
          /\ srv[u] = "open" /\ UNCHANGED client
      BY <1>3, <2>1 DEF Ask, Tell, Conns
    <3>. QED BY <1>2, <2>1, <3>1
  <2>2. CASE srv' = [srv EXCEPT ![u] = "refused"]
    BY <1>3, <2>2, Quiet DEF Ask, Conns, Before
  <2>. QED BY <1>3, <2>1, <2>2 DEF Ask
<1>4. CASE Proceed(u)
  BY <1>4, Quiet DEF Proceed, Conns, Before
<1>5. CASE Expire(u)
  BY <1>5, Quiet DEF Expire, Conns, Before
<1>6. CASE Connect(u)
  <2>1. CASE srv' = [srv EXCEPT ![u] = "setup"]
    <3>1. /\ toClient' = toClient \/ toClient' = Append(toClient, Message("connect", u))
          /\ srv[u] = "connect" /\ UNCHANGED client
      BY <1>6, <2>1 DEF Connect, Tell, Conns
    <3>. QED BY <1>2, <2>1, <3>1
  <2>2. CASE srv' = [srv EXCEPT ![u] = "refused"]
    BY <1>6, <2>2, Quiet DEF Connect, Conns, Before
  <2>. QED BY <1>6, <2>1, <2>2 DEF Connect
<1>7. CASE StartUpload(u)
  BY <1>7, Quiet DEF StartUpload, Conns, Before
<1>8. CASE Subscribe(u)
  BY <1>8, Quiet DEF Subscribe, Conns, Before
<1>. QED BY <1>1, <1>3, <1>4, <1>5, <1>6, <1>7, <1>8 DEF Handling

LEMMA ServerStream ==
    ASSUME IInv, NEW u \in Users, Sending(u) \/ Serving(u), NEW v \in Users
    PROVE  Stream(v)'
<1>1. UNCHANGED <<toClient, srv, fwd, loop, tcpStreams, dataConns>>
  BY DEF Sending, Upload, UploadEnds, Serving, Upgrade, Register, SetDataChannel, DataRead, DataEnds,
         monitor, handler, client
<1>. QED BY <1>1, Quiet DEF IInv

LEMMA ClientStream ==
    ASSUME IInv, NEW u \in Users, Opening(u) \/ Relaying(u) \/ Reading(u), NEW v \in Users
    PROVE  Stream(v)'
<1>. USE Groups DEF IInv, monitor, handler, client
<1>1. CASE Opened(u)
  <2>1. fwd[u] = "none" /\ loop' = None /\ \A w \in Users : w # u => tcpStreams'[w] = tcpStreams[w]
    BY <1>1 DEF Opened, Stream, Clients
  <2>2. UNCHANGED <<toClient, srv, fwd>> /\ dataConns' = dataConns \cup {u}
    BY <1>1 DEF Opened
  <2>. QED BY <2>1, <2>2, Quiet, Constants
<1>2. CASE DialFails(u)
  BY <1>2, Quiet, Constants DEF DialFails
<1>3. ASSUME Cleanup(u), fwd[u] # "none", UNCHANGED <<toClient, srv, loop>>
      PROVE  Stream(v)'
  <2>1. /\ fwd'[u] = "done" /\ tcpStreams'[u] = "none" /\ dataConns' = dataConns \ {u}
        /\ \A w \in Users : w # u => fwd'[w] = fwd[w] /\ tcpStreams'[w] = tcpStreams[w]
    BY <1>3 DEF Cleanup, Unregistered, RemoveDataChannel, Clients
  <2>2. CASE v = u
    BY <1>3, <2>1, <2>2 DEF Stream, Opens, Connects
  <2>3. CASE v # u
    BY <1>3, <2>1, <2>3, Quiet
  <2>. QED BY <2>2, <2>3
<1>4. CASE DialUpstream(u)
  <2>1. CASE Cleanup(u)
    BY <1>3, <1>4, <2>1 DEF DialUpstream
  <2>2. CASE ~Cleanup(u)
    <3>1. /\ fwd[u] = "dial" /\ fwd'[u] = "relay" /\ UNCHANGED <<toClient, srv, loop, dataConns>>
          /\ \A w \in Users : w # u => fwd'[w] = fwd[w] /\ tcpStreams'[w] = tcpStreams[w]
      BY <1>4, <2>2 DEF DialUpstream, Clients
    <3>2. CASE v = u
      BY <3>1, <3>2 DEF Stream, Opens, Connects
    <3>3. CASE v # u
      BY <3>1, <3>3, Quiet
    <3>. QED BY <3>2, <3>3
  <2>. QED BY <2>1, <2>2
<1>5. CASE RelaySends(u)
  <2>1. CASE Cleanup(u)
    BY <1>3, <1>5, <2>1 DEF RelaySends
  <2>2. CASE ~Cleanup(u)
    BY <1>5, <2>2, Quiet DEF RelaySends
  <2>. QED BY <2>1, <2>2
<1>6. CASE RelayEnds(u)
  BY <1>3, <1>6 DEF RelayEnds
<1>7. CASE DataIn(u)
  <2>1. /\ UNCHANGED <<toClient, srv, fwd, loop, dataConns>>
        /\ tcpStreams' = tcpStreams \/ tcpStreams' = [tcpStreams EXCEPT ![u] = "none"]
    BY <1>7 DEF DataIn
  <2>. QED BY <2>1, Quiet DEF Clients
<1>8. CASE GiveUp(u)
  BY <1>8, Quiet DEF GiveUp
<1>9. CASE ChannelEnds(u)
  BY <1>9, Quiet DEF ChannelEnds, RemoveDataChannel
<1>. QED BY <1>1, <1>2, <1>4, <1>5, <1>6, <1>7, <1>8, <1>9 DEF Opening, Relaying, Reading

LEMMA ClientReadsStream ==
    ASSUME IInv, ClientReads, NEW v \in Users
    PROVE  Stream(v)'
<1>. USE Groups DEF IInv, handler
<1>1. /\ loop = None /\ toClient \in Seq(ToClient) /\ toClient # <<>> /\ toClient' = Tail(toClient)
      /\ srv' = srv /\ dataConns' = dataConns
  BY DEF ClientReads, Msgs
<1>2. PICK m \in ToClient : m = Head(toClient)
  BY <1>1
<1>3. /\ Len(toClient) \in Nat /\ Len(toClient) > 0 /\ m = toClient[1]
      /\ Len(toClient') = Len(toClient) - 1
      /\ \A i \in 1 .. Len(toClient') : toClient'[i] = toClient[i + 1]
  BY <1>1, <1>2
<1>4. \A i \in 1 .. Len(toClient') : /\ i + 1 \in 1 .. Len(toClient)
                                     /\ Opens(v, i)' <=> Opens(v, i + 1)
                                     /\ Connects(v, i)' <=> Connects(v, i + 1)
  BY <1>3 DEF Opens, Connects
<1>5. /\ srv[v] \in {"idle", "open"} => \A i \in 1 .. Len(toClient') : ~Opens(v, i)'
      /\ srv[v] \in Before =>
            fwd[v] = "none" /\ \A i \in 1 .. Len(toClient') : ~Connects(v, i)'
      /\ \A i, j \in 1 .. Len(toClient') :
            i < j /\ Connects(v, i)' => ~Opens(v, j)' /\ ~Connects(v, j)'
      /\ fwd[v] # "none" =>
            \A i \in 1 .. Len(toClient') : ~Opens(v, i)' /\ ~Connects(v, i)'
  <2>1. /\ srv[v] \in {"idle", "open"} => \A i \in 1 .. Len(toClient') : ~Opens(v, i)'
        /\ srv[v] \in Before =>
              fwd[v] = "none" /\ \A i \in 1 .. Len(toClient') : ~Connects(v, i)'
    BY <1>4 DEF Stream
  <2>2. ASSUME NEW i \in 1 .. Len(toClient'), NEW j \in 1 .. Len(toClient'), i < j, Connects(v, i)'
        PROVE  ~Opens(v, j)' /\ ~Connects(v, j)'
    <3>1. i + 1 < j + 1 /\ Connects(v, i + 1)
      BY <1>3, <1>4, <2>2
    <3>. QED BY <1>4, <3>1 DEF Stream
  <2>3. fwd[v] # "none" =>
            \A i \in 1 .. Len(toClient') : ~Opens(v, i)' /\ ~Connects(v, i)'
    BY <1>4 DEF Stream
  <2>. QED BY <2>1, <2>2, <2>3
<1>6. CASE m.user = v /\ m.kind = "open"
  <2>1. Opens(v, 1) /\ loop' = v /\ UNCHANGED <<tcpStreams, fwd>>
    BY <1>2, <1>3, <1>6 DEF ClientReads, Opens, Message, ToClient
  <2>2. fwd[v] = "none"
    BY <1>3, <2>1 DEF Stream
  <2>. QED BY <1>1, <1>5, <2>1, <2>2 DEF Stream
<1>7. CASE m.user = v /\ m.kind = "connect"
  <2>1. Connects(v, 1) /\ loop' = None /\ fwd'[v] = "dial"
    BY <1>1, <1>2, <1>3, <1>7 DEF ClientReads, Connects, Message, ToClient, Clients
  <2>2. srv[v] \notin {"idle", "open"} /\ srv[v] \notin Before
    BY <1>3, <2>1 DEF Stream, Before
  <2>3. \A i \in 1 .. Len(toClient') : ~Opens(v, i)' /\ ~Connects(v, i)'
    BY <1>3, <1>4, <2>1 DEF Stream
  <2>. QED BY <1>1, <1>5, <2>1, <2>2, <2>3, Constants DEF Stream
<1>8. CASE m.user # v
  <2>1. fwd'[v] = fwd[v] /\ tcpStreams'[v] = tcpStreams[v] /\ loop' # v
    BY <1>1, <1>2, <1>8, Constants DEF ClientReads, ToClient, Clients
  <2>. QED BY <1>1, <1>5, <2>1 DEF Stream
<1>. QED BY <1>6, <1>7, <1>8 DEF ToClient

LEMMA OtherStream ==
    ASSUME IInv, NEW v \in Users,
           \/ ServerReads \/ ClientLoses \/ Ping \/ Lose \/ Destroy \/ UNCHANGED vars
           \/ \E u \in Users : Leave(u) \/ UpstreamEnds(u) \/ Break(u)
    PROVE  Stream(v)'
<1>1. /\ UNCHANGED <<srv, fwd, loop, tcpStreams>>
      /\ toClient' = toClient \/ toClient' = <<>>
      /\ dataConns' = dataConns \/ dataConns' = {}
  BY DEF ServerReads, ClientLoses, Ping, Lose, Destroy, Leave, UpstreamEnds, Break, vars, monitor,
         handler, client
<1>. QED BY <1>1, Quiet DEF IInv

-----------------------------------------------------------------------------
(* The forwarder *)

LEMMA SameForwarder ==
    ASSUME NEW v \in Users, Forwarder(v),
           fwd'[v] = fwd[v], upstream'[v] = upstream[v], tcpStreams'[v] = tcpStreams[v],
           rd'[v] # "none" => rd[v] # "none",
           wire[v] # "none" => wire'[v] # "none",
           v \in dataChannels' \/ dch'[v] # "none" =>
               v \in dataChannels \/ dch[v] # "none" \/ wire'[v] # "none"
    PROVE  Forwarder(v)'
BY DEF Forwarder

LEMMA ServerForwarder ==
    ASSUME IInv, NEW u \in Users, Accept(u) \/ Handling(u) \/ Sending(u) \/ Serving(u), NEW v \in Users
    PROVE  Forwarder(v)'
<1>. USE Groups DEF IInv
<1>1. CASE Accept(u) \/ Handling(u) \/ Sending(u)
  <2>1. UNCHANGED <<fwd, upstream, tcpStreams, rd, wire, dataChannels, dch>>
    BY <1>1 DEF Accept, Handling, Ask, Proceed, Expire, Connect, StartUpload, Subscribe, Sending,
                Upload, UploadEnds, sockets, net, client, service
  <2>. QED BY <2>1, SameForwarder
<1>2. CASE Serving(u)
  <2>1. UNCHANGED <<fwd, upstream, tcpStreams, rd>>
    BY <1>2 DEF Serving, Upgrade, Register, SetDataChannel, DataRead, DataEnds, client, service
  <2>2. CASE Upgrade(u)
    BY <2>1, <2>2, SameForwarder DEF Upgrade, Conns, Wires
  <2>3. CASE Register(u)
    BY <2>1, <2>3, SameForwarder DEF Register, Conns, Wires
  <2>4. CASE SetDataChannel(u)
    <3>1. dch[u] # "none" /\ UNCHANGED wire /\ dataChannels' = dataChannels \cup {u}
          /\ \A w \in Users : w # u => dch'[w] = dch[w]
      BY <2>4 DEF SetDataChannel, net, Conns
    <3>. QED BY <2>1, <3>1, SameForwarder
  <2>5. CASE DataRead(u)
    BY <2>1, <2>5, SameForwarder DEF DataRead, sockets
  <2>6. CASE DataEnds(u)
    BY <2>1, <2>6, SameForwarder DEF DataEnds, RemoveDataChannelForStream, Conns, net
  <2>. QED BY <1>2, <2>2, <2>3, <2>4, <2>5, <2>6 DEF Serving
<1>. QED BY <1>1, <1>2

LEMMA CleanupForwarder ==
    ASSUME IInv, NEW u \in Users, Cleanup(u), UNCHANGED <<rd, dataChannels, dch>>, NEW v \in Users
    PROVE  Forwarder(v)'
<1>. USE Groups DEF IInv
<1>1. /\ fwd'[u] = "done" /\ tcpStreams'[u] = "none" /\ upstream'[u] = "shut"
      /\ \A w \in Users : w # u =>
            fwd'[w] = fwd[w] /\ tcpStreams'[w] = tcpStreams[w] /\ upstream'[w] = upstream[w]
      /\ wire[v] # "none" => wire'[v] # "none"
  BY DEF Cleanup, Unregistered, RemoveDataChannel, Clients, Wires
<1>2. CASE v = u
  BY <1>1, <1>2 DEF Forwarder
<1>3. CASE v # u
  BY <1>1, <1>3, SameForwarder
<1>. QED BY <1>2, <1>3

LEMMA ClientForwarder ==
    ASSUME IInv, NEW u \in Users, Opening(u) \/ Relaying(u) \/ Reading(u), NEW v \in Users
    PROVE  Forwarder(v)'
<1>. USE Groups DEF IInv
<1>0. UNCHANGED <<dataChannels, dch>>
  BY DEF Opening, Opened, DialFails, Relaying, DialUpstream, RelaySends, RelayEnds, Reading, DataIn,
         GiveUp, ChannelEnds, sockets
<1>1. CASE Opened(u)
  <2>1. /\ fwd[u] = "none" /\ UNCHANGED <<fwd, upstream, wire>>
        /\ tcpStreams'[u] = Entry(u) /\ \A w \in Users : w # u => tcpStreams'[w] = tcpStreams[w]
        /\ \A w \in Users : w # u => rd'[w] = rd[w]
    BY <1>1 DEF Opened, Early, Stream, Clients, net, service
  <2>2. tcpStreams'[u] = "placeholder"
    BY <2>1 DEF Entry, Forwarder, Clients
  <2>3. CASE v = u
    BY <1>0, <2>1, <2>2, <2>3 DEF Forwarder
  <2>4. CASE v # u
    BY <1>0, <2>1, <2>4, SameForwarder
  <2>. QED BY <2>3, <2>4
<1>2. CASE DialFails(u)
  BY <1>0, <1>2, SameForwarder DEF DialFails, Wires, service
<1>3. CASE DialUpstream(u)
  <2>1. CASE Cleanup(u)
    BY <1>0, <1>3, <2>1, CleanupForwarder DEF DialUpstream
  <2>2. CASE ~Cleanup(u)
    <3>1. /\ UNCHANGED <<rd, wire>> /\ fwd'[u] = "relay" /\ upstream'[u] = "open"
          /\ tcpStreams'[u] = "conn"
          /\ \A w \in Users : w # u =>
                fwd'[w] = fwd[w] /\ tcpStreams'[w] = tcpStreams[w] /\ upstream'[w] = upstream[w]
      BY <1>3, <2>2 DEF DialUpstream, Clients
    <3>2. CASE v = u
      BY <1>0, <3>1, <3>2 DEF Forwarder
    <3>3. CASE v # u
      BY <1>0, <3>1, <3>3, SameForwarder
    <3>. QED BY <3>2, <3>3
  <2>. QED BY <2>1, <2>2
<1>4. CASE RelaySends(u)
  <2>1. CASE Cleanup(u)
    BY <1>0, <1>4, <2>1, CleanupForwarder DEF RelaySends
  <2>2. CASE ~Cleanup(u)
    BY <1>0, <1>4, <2>2, SameForwarder DEF RelaySends
  <2>. QED BY <2>1, <2>2
<1>5. CASE RelayEnds(u)
  BY <1>0, <1>5, CleanupForwarder DEF RelayEnds
<1>6. CASE DataIn(u)
  <2>1. UNCHANGED <<fwd, rd, wire>> /\ \A w \in Users : w # u =>
                tcpStreams'[w] = tcpStreams[w] /\ upstream'[w] = upstream[w]
    BY <1>6 DEF DataIn, Clients
  <2>2. \/ UNCHANGED <<tcpStreams, upstream>>
        \/ tcpStreams[u] = "conn" /\ tcpStreams'[u] = "none" /\ upstream'[u] = "shut"
    BY <1>6 DEF DataIn, Clients
  <2>3. CASE UNCHANGED <<tcpStreams, upstream>> \/ v # u
    BY <1>0, <2>1, <2>3, SameForwarder
  <2>4. CASE v = u /\ tcpStreams[u] = "conn" /\ tcpStreams'[u] = "none" /\ upstream'[u] = "shut"
    <3>1. fwd[u] = "relay"
      BY <2>4 DEF Forwarder, Clients
    <3>. QED BY <1>0, <2>1, <2>4, <3>1 DEF Forwarder
  <2>. QED BY <2>2, <2>3, <2>4
<1>7. CASE GiveUp(u)
  BY <1>7, SameForwarder DEF GiveUp, sockets, client
<1>8. CASE ChannelEnds(u)
  <2>1. /\ UNCHANGED <<fwd, tcpStreams, upstream>>
        /\ rd[u] = "read" /\ \A w \in Users : w # u => rd'[w] = rd[w]
        /\ wire[v] # "none" => wire'[v] # "none"
    BY <1>8 DEF ChannelEnds, RemoveDataChannel, Clients, Wires, service
  <2>. QED BY <1>0, <2>1, SameForwarder
<1>. QED BY <1>1, <1>2, <1>3, <1>4, <1>5, <1>6, <1>7, <1>8 DEF Opening, Relaying, Reading

LEMMA OtherForwarder ==
    ASSUME IInv, NEW v \in Users,
           \/ ServerReads \/ ClientReads \/ ClientLoses \/ Ping \/ Lose \/ Destroy \/ UNCHANGED vars
           \/ \E u \in Users : Leave(u) \/ UpstreamEnds(u) \/ Break(u)
    PROVE  Forwarder(v)'
<1>. USE Groups DEF IInv
<1>1. CASE ServerReads \/ Ping \/ Lose \/ Destroy \/ (\E u \in Users : Leave(u)) \/ UNCHANGED vars
  <2>1. UNCHANGED <<fwd, upstream, tcpStreams, rd, wire, dataChannels, dch>>
    BY <1>1 DEF ServerReads, Ping, Lose, Destroy, Leave, vars, sockets, net, client, service
  <2>. QED BY <2>1, SameForwarder
<1>2. CASE ClientReads
  <2>1. toClient \in Seq(ToClient) /\ toClient # <<>>
    BY <1>2 DEF ClientReads, Msgs
  <2>2. PICK m \in ToClient : m = Head(toClient) /\ m = toClient[1]
    BY <2>1
  <2>3. UNCHANGED <<upstream, rd, wire, dataChannels, dch>>
    BY <1>2 DEF ClientReads, sockets, net, service
  <2>4. CASE m.user = v /\ m.kind = "connect"
    <3>1. Connects(v, 1) /\ 1 \in 1 .. Len(toClient)
      BY <2>1, <2>2, <2>4 DEF Connects, Message, ToClient
    <3>2. fwd[v] = "none" /\ fwd'[v] = "dial" /\ tcpStreams'[v] = Entry(v)
      BY <1>2, <2>2, <2>4, <3>1 DEF ClientReads, Stream, Clients
    <3>3. Entry(v) = "placeholder"
      BY <3>2 DEF Entry, Forwarder, Clients
    <3>. QED BY <2>3, <3>2, <3>3 DEF Forwarder
  <2>5. CASE ~(m.user = v /\ m.kind = "connect")
    <3>1. fwd'[v] = fwd[v] /\ tcpStreams'[v] = tcpStreams[v]
      BY <1>2, <2>2, <2>5 DEF ClientReads, ToClient, Clients
    <3>. QED BY <2>3, <3>1, SameForwarder
  <2>. QED BY <2>4, <2>5
<1>3. CASE ClientLoses
  BY <1>3, SameForwarder DEF ClientLoses, sockets, service, Wires
<1>4. ASSUME NEW u \in Users, UpstreamEnds(u)
      PROVE  Forwarder(v)'
  <2>1. /\ UNCHANGED <<fwd, tcpStreams, rd, wire, dataChannels, dch>>
        /\ upstream[u] = "open" /\ upstream'[u] = "eof"
        /\ \A w \in Users : w # u => upstream'[w] = upstream[w]
    BY <1>4 DEF UpstreamEnds, sockets, net, client, Clients
  <2>2. CASE v = u
    BY <2>1, <2>2 DEF Forwarder, Clients
  <2>3. CASE v # u
    BY <2>1, <2>3, SameForwarder
  <2>. QED BY <2>2, <2>3
<1>5. ASSUME NEW u \in Users, Break(u)
      PROVE  Forwarder(v)'
  BY <1>5, SameForwarder DEF Break, sockets, client, service, Wires
<1>. QED BY <1>1, <1>2, <1>3, <1>4, <1>5

LEMMA ForwarderStep ==
    ASSUME IInv, [Next]_vars, NEW v \in Users
    PROVE  Forwarder(v)'
BY ServerForwarder, ClientForwarder, OtherForwarder DEF Next

-----------------------------------------------------------------------------
(* The pieces on their way up *)

LEMMA AppendFacts ==
    ASSUME NEW q \in Seq(Nat), NEW p \in Nat
    PROVE  /\ Append(q, p) \in Seq(Nat) /\ Len(q) \in Nat /\ Len(Append(q, p)) = Len(q) + 1
           /\ Append(q, p)[Len(q) + 1] = p
           /\ \A i \in 1 .. Len(q) : Append(q, p)[i] = q[i]
           /\ \A n : In(Append(q, p), n) <=> In(q, n) \/ n = p
<1>1. /\ Append(q, p) \in Seq(Nat) /\ Len(q) \in Nat /\ Len(Append(q, p)) = Len(q) + 1
      /\ Append(q, p)[Len(q) + 1] = p
      /\ \A i \in 1 .. Len(q) : Append(q, p)[i] = q[i]
  OBVIOUS
<1>2. \A n : In(Append(q, p), n) <=> In(q, n) \/ n = p
  BY <1>1 DEF In
<1>. QED BY <1>1, <1>2

LEMMA TailFacts ==
    ASSUME NEW q \in Seq(Nat), q # <<>>
    PROVE  /\ Tail(q) \in Seq(Nat) /\ Head(q) \in Nat /\ Len(q) \in Nat /\ Len(q) > 0
           /\ Len(Tail(q)) = Len(q) - 1 /\ Head(q) = q[1]
           /\ \A i \in 1 .. Len(Tail(q)) : Tail(q)[i] = q[i + 1] /\ i + 1 \in 1 .. Len(q)
           /\ \A n : In(q, n) <=> In(Tail(q), n) \/ n = Head(q)
<1>1. /\ Tail(q) \in Seq(Nat) /\ Head(q) \in Nat /\ Len(q) \in Nat /\ Len(q) > 0
      /\ Len(Tail(q)) = Len(q) - 1 /\ Head(q) = q[1]
      /\ \A i \in 1 .. Len(Tail(q)) : Tail(q)[i] = q[i + 1] /\ i + 1 \in 1 .. Len(q)
  OBVIOUS
<1>2. ASSUME NEW n, In(q, n)
      PROVE  In(Tail(q), n) \/ n = Head(q)
  <2>1. PICK i \in 1 .. Len(q) : q[i] = n
    BY <1>2 DEF In
  <2>2. CASE i = 1
    BY <1>1, <2>1, <2>2
  <2>3. CASE i # 1
    <3>1. i - 1 \in 1 .. Len(Tail(q)) /\ Tail(q)[i - 1] = n
      BY <1>1, <2>1, <2>3
    <3>. QED BY <3>1 DEF In
  <2>. QED BY <2>2, <2>3
<1>3. ASSUME NEW n, In(Tail(q), n) \/ n = Head(q)
      PROVE  In(q, n)
  BY <1>1, <1>3 DEF In
<1>. QED BY <1>1, <1>2, <1>3

\* A piece is sent.
LEMMA SendPiece ==
    ASSUME NEW g \in Seq(Nat), NEW c \in Seq(Nat), NEW t \in Nat, NEW sk \in SUBSET Nat,
           Pieces(g, c, t, sk)
    PROVE  /\ Pieces(g, Append(c, t + 1), t + 1, sk)
           /\ (Link(g, c, sk) /\ Cover(g, c, t, sk)) => /\ Link(g, Append(c, t + 1), sk)
                                                        /\ Cover(g, Append(c, t + 1), t + 1, sk)
<1>1. t + 1 \in Nat
  OBVIOUS
<1>. DEFINE d == Append(c, t + 1)
<1>2. /\ d \in Seq(Nat) /\ Len(c) \in Nat /\ Len(d) = Len(c) + 1 /\ d[Len(c) + 1] = t + 1
      /\ \A i \in 1 .. Len(c) : d[i] = c[i]
      /\ \A n : In(d, n) <=> In(c, n) \/ n = t + 1
  BY <1>1, AppendFacts
<1>. HIDE DEF d
<1>3. \A i \in 1 .. Len(d) : i \in 1 .. Len(c) \/ i = Len(c) + 1
  BY <1>2
<1>4. Pieces(g, d, t + 1, sk)
  <2>1. Sorted(d)
    <3>1. ASSUME NEW i \in 1 .. Len(d), NEW j \in 1 .. Len(d), i < j
          PROVE  d[i] < d[j]
      <4>1. i \in 1 .. Len(c) /\ d[i] = c[i] /\ c[i] \in 1 .. t
        BY <1>2, <1>3, <3>1 DEF Pieces
      <4>2. CASE j \in 1 .. Len(c)
        BY <1>2, <3>1, <4>1, <4>2 DEF Pieces, Sorted
      <4>3. CASE j = Len(c) + 1
        BY <1>2, <4>1, <4>3
      <4>. QED BY <1>3, <4>2, <4>3
    <3>. QED BY <3>1 DEF Sorted
  <2>2. \A i \in 1 .. Len(d) : d[i] \in 1 .. t + 1
    BY SMTT(30), <1>2, <1>3 DEF Pieces
  <2>3. \A i \in 1 .. Len(g) : g[i] \in 1 .. t + 1
    BY DEF Pieces
  <2>. QED BY <2>1, <2>2, <2>3 DEF Pieces
<1>5. ASSUME Link(g, c, sk), Cover(g, c, t, sk)
      PROVE  Link(g, d, sk) /\ Cover(g, d, t + 1, sk)
  <2>1. Cover(g, d, t + 1, sk)
    BY <1>2, <1>5 DEF Cover
  <2>2. ASSUME NEW i \in 1 .. Len(g), NEW j \in 1 .. Len(d)
        PROVE  g[i] < d[j]
    <3>1. g[i] \in 1 .. t
      BY DEF Pieces
    <3>2. CASE j \in 1 .. Len(c)
      BY <1>2, <1>5, <3>2 DEF Link
    <3>3. CASE j = Len(c) + 1
      BY <1>2, <3>1, <3>3
    <3>. QED BY <1>3, <3>2, <3>3
  <2>3. ASSUME NEW i \in 1 .. Len(d), NEW n \in 1 .. d[i]
        PROVE  In(g, n) \/ In(d, n) \/ n \in sk
    <3>1. d[i] \in 1 .. t + 1
      BY <1>4 DEF Pieces
    <3>2. n \in 1 .. t + 1
      BY <3>1
    <3>. QED BY <2>1, <3>2 DEF Cover
  <2>. QED BY <2>1, <2>2, <2>3 DEF Link
<1>. QED BY <1>4, <1>5 DEF d

\* A piece is taken from the user and not sent: on purpose, or it is lost.
LEMMA SkipPiece ==
    ASSUME NEW g, NEW c, NEW t \in Nat, NEW sk, Pieces(g, c, t, sk)
    PROVE  /\ Pieces(g, c, t + 1, sk)
           /\ Pieces(g, c, t + 1, sk \cup {t + 1})
           /\ Link(g, c, sk) => Link(g, c, sk \cup {t + 1})
           /\ Cover(g, c, t, sk) => Cover(g, c, t + 1, sk \cup {t + 1})
<1>1. \A x \in 1 .. t : x \in 1 .. t + 1
  OBVIOUS
<1>2. Pieces(g, c, t + 1, sk) /\ Pieces(g, c, t + 1, sk \cup {t + 1})
  BY <1>1 DEF Pieces
<1>3. Link(g, c, sk) => Link(g, c, sk \cup {t + 1})
  BY DEF Link
<1>4. Cover(g, c, t, sk) => Cover(g, c, t + 1, sk \cup {t + 1})
  BY DEF Cover
<1>. QED BY <1>2, <1>3, <1>4

\* A piece is passed on to the upstream service.
LEMMA DeliverPiece ==
    ASSUME NEW g \in Seq(Nat), NEW c \in Seq(Nat), NEW t \in Nat, NEW sk \in SUBSET Nat,
           Pieces(g, c, t, sk), Link(g, c, sk), c # <<>>
    PROVE  /\ Pieces(Append(g, Head(c)), Tail(c), t, sk)
           /\ Link(Append(g, Head(c)), Tail(c), sk)
           /\ Cover(g, c, t, sk) => Cover(Append(g, Head(c)), Tail(c), t, sk)
<1>. DEFINE h == Head(c)
            d == Tail(c)
            e == Append(g, h)
<1>1. /\ d \in Seq(Nat) /\ h \in Nat /\ Len(c) \in Nat /\ Len(c) > 0
      /\ Len(d) = Len(c) - 1 /\ h = c[1] /\ 1 \in 1 .. Len(c)
      /\ \A i \in 1 .. Len(d) : d[i] = c[i + 1] /\ i + 1 \in 1 .. Len(c)
      /\ \A n : In(c, n) <=> In(d, n) \/ n = h
  BY TailFacts
<1>2. /\ Len(g) \in Nat /\ Len(e) = Len(g) + 1 /\ e[Len(g) + 1] = h
      /\ \A i \in 1 .. Len(g) : e[i] = g[i]
      /\ \A n : In(e, n) <=> In(g, n) \/ n = h
  BY <1>1, AppendFacts
<1>. HIDE DEF h, d, e
<1>3. \A i \in 1 .. Len(e) : i \in 1 .. Len(g) \/ i = Len(g) + 1
  BY <1>2
<1>4. \A i \in 1 .. Len(d) : h < d[i]
  <2>1. ASSUME NEW i \in 1 .. Len(d)
        PROVE  h < d[i]
    <3>1. i + 1 \in 1 .. Len(c) /\ 1 < i + 1 /\ d[i] = c[i + 1]
      BY <1>1
    <3>. QED BY <1>1, <3>1 DEF Pieces, Sorted
  <2>. QED BY <2>1
<1>5. Sorted(e)
  <2>1. ASSUME NEW i \in 1 .. Len(e), NEW j \in 1 .. Len(e), i < j
        PROVE  e[i] < e[j]
    <3>1. i \in 1 .. Len(g) /\ e[i] = g[i]
      BY <1>2, <1>3, <2>1
    <3>2. CASE j \in 1 .. Len(g)
      BY <1>2, <2>1, <3>1, <3>2 DEF Pieces, Sorted
    <3>3. CASE j = Len(g) + 1
      BY <1>1, <1>2, <3>1, <3>3 DEF Link
    <3>. QED BY <1>3, <3>2, <3>3
  <2>. QED BY <2>1 DEF Sorted
<1>6. Sorted(d)
  <2>1. ASSUME NEW i \in 1 .. Len(d), NEW j \in 1 .. Len(d), i < j
        PROVE  d[i] < d[j]
    <3>1. i + 1 \in 1 .. Len(c) /\ j + 1 \in 1 .. Len(c) /\ i + 1 < j + 1
      BY <1>1, <2>1
    <3>. QED BY <1>1, <3>1 DEF Pieces, Sorted
  <2>. QED BY <2>1 DEF Sorted
<1>7. /\ \A i \in 1 .. Len(e) : e[i] \in 1 .. t
      /\ \A i \in 1 .. Len(d) : d[i] \in 1 .. t
  BY <1>1, <1>2, <1>3 DEF Pieces
<1>8. \A i \in 1 .. Len(e) : \A n \in 1 .. e[i] : In(e, n) \/ n \in sk
  <2>1. \A n \in 1 .. h : In(g, n) \/ n = h \/ n \in sk
    <3>1. ASSUME NEW n \in 1 .. h, In(d, n)
          PROVE  FALSE
      BY SMTT(30), <1>1, <1>4, <3>1 DEF In
    <3>. QED BY <1>1, <3>1 DEF Link
  <2>2. ASSUME NEW i \in 1 .. Len(e), NEW n \in 1 .. e[i]
        PROVE  In(e, n) \/ n \in sk
    <3>1. CASE i \in 1 .. Len(g)
      BY <1>2, <2>2, <3>1 DEF Pieces
    <3>2. CASE i = Len(g) + 1
      BY <1>2, <2>1, <2>2, <3>2
    <3>. QED BY <1>3, <3>1, <3>2
  <2>. QED BY <2>2
<1>9. Link(e, d, sk)
  <2>1. ASSUME NEW i \in 1 .. Len(e), NEW j \in 1 .. Len(d)
        PROVE  e[i] < d[j]
    <3>1. CASE i \in 1 .. Len(g)
      BY <1>1, <1>2, <3>1 DEF Link
    <3>2. CASE i = Len(g) + 1
      BY <1>2, <1>4, <3>2
    <3>. QED BY <1>3, <3>1, <3>2
  <2>2. ASSUME NEW i \in 1 .. Len(d), NEW n \in 1 .. d[i]
        PROVE  In(e, n) \/ In(d, n) \/ n \in sk
    <3>1. i + 1 \in 1 .. Len(c) /\ n \in 1 .. c[i + 1]
      BY <1>1, <2>2
    <3>2. In(g, n) \/ In(c, n) \/ n \in sk
      BY <3>1 DEF Link
    <3>. QED BY <1>1, <1>2, <3>2
  <2>. QED BY <2>1, <2>2 DEF Link
<1>10. Cover(g, c, t, sk) => Cover(e, d, t, sk)
  BY <1>1, <1>2 DEF Cover
<1>. QED BY <1>5, <1>6, <1>7, <1>8, <1>9, <1>10 DEF Pieces, h, d, e

\* A piece is dropped by the client: it gave up waiting, or has nobody to give it to.
LEMMA DropPiece ==
    ASSUME NEW g \in Seq(Nat), NEW c \in Seq(Nat), NEW t \in Nat, NEW sk \in SUBSET Nat,
           Pieces(g, c, t, sk), c # <<>>
    PROVE  /\ Pieces(g, Tail(c), t, sk)
           /\ Pieces(g, Tail(c), t, sk \cup {Head(c)})
           /\ Link(g, c, sk) => Link(g, Tail(c), sk \cup {Head(c)})
           /\ Cover(g, c, t, sk) => Cover(g, Tail(c), t, sk \cup {Head(c)})
<1>. DEFINE h == Head(c)
            d == Tail(c)
<1>1. /\ d \in Seq(Nat) /\ h \in Nat /\ Len(c) \in Nat /\ Len(c) > 0
      /\ Len(d) = Len(c) - 1 /\ h = c[1]
      /\ \A i \in 1 .. Len(d) : d[i] = c[i + 1] /\ i + 1 \in 1 .. Len(c)
      /\ \A n : In(c, n) <=> In(d, n) \/ n = h
  BY TailFacts
<1>. HIDE DEF h, d
<1>2. Sorted(d)
  <2>1. ASSUME NEW i \in 1 .. Len(d), NEW j \in 1 .. Len(d), i < j
        PROVE  d[i] < d[j]
    <3>1. i + 1 \in 1 .. Len(c) /\ j + 1 \in 1 .. Len(c) /\ i + 1 < j + 1
      BY <1>1, <2>1
    <3>. QED BY <1>1, <3>1 DEF Pieces, Sorted
  <2>. QED BY <2>1 DEF Sorted
<1>3. Pieces(g, d, t, sk) /\ Pieces(g, d, t, sk \cup {h})
  BY <1>1, <1>2 DEF Pieces
<1>4. Link(g, c, sk) => Link(g, d, sk \cup {h})
  <2>1. ASSUME Link(g, c, sk), NEW i \in 1 .. Len(d), NEW n \in 1 .. d[i]
        PROVE  In(g, n) \/ In(d, n) \/ n \in sk \cup {h}
    BY <1>1, <2>1 DEF Link
  <2>2. ASSUME Link(g, c, sk), NEW i \in 1 .. Len(g), NEW j \in 1 .. Len(d)
        PROVE  g[i] < d[j]
    BY <1>1, <2>2 DEF Link
  <2>. QED BY <2>1, <2>2 DEF Link
<1>5. Cover(g, c, t, sk) => Cover(g, d, t, sk \cup {h})
  BY <1>1 DEF Cover
<1>. QED BY <1>3, <1>4, <1>5 DEF h, d

LEMMA ClearPieces ==
    ASSUME NEW g, NEW c, NEW t, NEW sk, Pieces(g, c, t, sk)
    PROVE  Pieces(g, <<>>, t, sk) /\ Link(g, <<>>, sk)
BY DEF Pieces, Link, Sorted

\* A step that moves no piece of v, and brings nothing back to life.
LEMMA SameUpward ==
    ASSUME NEW v \in Users, Upward(v),
           srv'[v] = "idle" => srv[v] = "idle",
           gotUp'[v] = gotUp[v], toC'[v] = toC[v], taken'[v] = taken[v], skipped'[v] = skipped[v],
           Alive(v)' => Alive(v),
           wire'[v] # "closed" => wire[v] # "closed",
           user'[v] # "shut" => user[v] # "shut" \/ srv[v] = "idle"
    PROVE  Upward(v)'
<1>1. CASE srv[v] = "idle"
  <2>1. taken'[v] = 0 /\ Cover(gotUp[v], toC[v], 0, skipped[v])
    BY <1>1 DEF Upward, Cover
  <2>. QED BY <2>1 DEF Upward
<1>2. CASE srv[v] # "idle"
  BY <1>2 DEF Upward
<1>. QED BY <1>1, <1>2

LEMMA HandlingUpward ==
    ASSUME IInv, NEW u \in Users, Accept(u) \/ Handling(u), NEW v \in Users
    PROVE  Upward(v)'
<1>. USE Groups DEF IInv
<1>1. /\ UNCHANGED <<gotUp, toC, taken, skipped, upstream, wire>>
      /\ \A w \in Users : srv'[w] = "idle" => srv[w] = "idle"
  BY DEF Accept, Handling, Ask, Proceed, Expire, Connect, StartUpload, Subscribe, Go, Conns, net, service
<1>2. user'[v] # "shut" => user[v] # "shut" \/ srv[v] = "idle"
  BY DEF Accept, Handling, Ask, Proceed, Expire, Connect, StartUpload, Subscribe, CloseUser, Conns
<1>. QED BY <1>1, <1>2, SameUpward DEF Alive

LEMMA UploadUpward ==
    ASSUME IInv, NEW u \in Users, Upload(u), NEW v \in Users
    PROVE  Upward(v)'
<1>. USE Groups, Constants DEF IInv
<1>1. /\ UNCHANGED <<gotUp, upstream, wire, srv>>
      /\ srv[u] # "idle" /\ taken' = [taken EXCEPT ![u] = @ + 1]
      /\ user' = user \/ user' = [user EXCEPT ![u] = "shut"]
      /\ skipped' = skipped \/ skipped' = [skipped EXCEPT ![u] = @ \cup {taken[u] + 1}]
      /\ toC' = toC \/ toC' = [toC EXCEPT ![u] = Append(@, taken[u] + 1)]
  BY DEF Upload, Uploading, CloseUser, SendTCPData, handler
<1>2. CASE v # u
  BY <1>1, <1>2, SameUpward DEF Conns, Wires, Counts, Alive
<1>3. CASE v = u
  <2>1. /\ gotUp[u] \in Seq(Nat) /\ toC[u] \in Seq(Nat) /\ taken[u] \in Nat
        /\ skipped[u] \in SUBSET Nat /\ Pieces(gotUp[u], toC[u], taken[u], skipped[u])
    BY DEF Wires, Counts, Upward
  <2>2. taken'[u] = taken[u] + 1 /\ Alive(u)' = Alive(u)
    BY <1>1 DEF Counts, Alive
  <2>3. CASE UNCHANGED toC /\ skipped'[u] = skipped[u] \cup {taken[u] + 1} /\ UNCHANGED user
    <3>1. /\ Pieces(gotUp[u], toC[u], taken[u] + 1, skipped[u] \cup {taken[u] + 1})
          /\ Link(gotUp[u], toC[u], skipped[u]) =>
                Link(gotUp[u], toC[u], skipped[u] \cup {taken[u] + 1})
          /\ Cover(gotUp[u], toC[u], taken[u], skipped[u]) =>
                Cover(gotUp[u], toC[u], taken[u] + 1, skipped[u] \cup {taken[u] + 1})
      BY <2>1, SkipPiece
    <3>. QED BY <1>1, <1>3, <2>2, <2>3, <3>1 DEF Upward
  <2>4. CASE UNCHANGED <<toC, skipped>> /\ (wire'[u] = "closed" \/ user'[u] = "shut")
    <3>1. Pieces(gotUp[u], toC[u], taken[u] + 1, skipped[u])
      BY <2>1, SkipPiece
    <3>. QED BY <1>1, <1>3, <2>2, <2>4, <3>1 DEF Upward
  <2>5. CASE /\ toC'[u] = Append(toC[u], taken[u] + 1) /\ UNCHANGED <<skipped, user>>
             /\ wire[u] = "open"
    <3>1. /\ Pieces(gotUp[u], Append(toC[u], taken[u] + 1), taken[u] + 1, skipped[u])
          /\ (Link(gotUp[u], toC[u], skipped[u]) /\ Cover(gotUp[u], toC[u], taken[u], skipped[u])) =>
                /\ Link(gotUp[u], Append(toC[u], taken[u] + 1), skipped[u])
                /\ Cover(gotUp[u], Append(toC[u], taken[u] + 1), taken[u] + 1, skipped[u])
      BY <2>1, SendPiece
    <3>2. CASE user[u] # "shut"
      BY <1>1, <1>3, <2>2, <2>5, <3>1, <3>2 DEF Upward
    <3>3. CASE user[u] = "shut"
      BY <3>3 DEF Upload, Uploading
    <3>. QED BY <3>2, <3>3
  <2>6. u \in dataChannels => wire[u] # "none"
    BY DEF Forwarder
  <2>. QED BY SMTT(30), <1>1, <2>3, <2>4, <2>5, <2>6 DEF Upload, SendTCPData, CloseUser, Conns, Wires, Counts
<1>. QED BY <1>2, <1>3

LEMMA ServerUpward ==
    ASSUME IInv, NEW u \in Users, UploadEnds(u) \/ Serving(u), NEW v \in Users
    PROVE  Upward(v)'
<1>. USE Groups DEF IInv
<1>1. UNCHANGED <<srv, gotUp, toC, taken, skipped, upstream>>
  BY DEF UploadEnds, Serving, Upgrade, Register, SetDataChannel, DataRead, DataEnds, handler, net,
         service
<1>2. user' = user \/ user' = [user EXCEPT ![u] = "shut"]
  BY DEF UploadEnds, Serving, Upgrade, Register, SetDataChannel, DataRead, DataEnds, CloseUser
<1>3. \/ UNCHANGED wire
      \/ wire[u] = "none" /\ wire' = [wire EXCEPT ![u] = "open"]
      \/ wire' = [wire EXCEPT ![u] = "closed"]
  BY DEF UploadEnds, Serving, Upgrade, Register, SetDataChannel, DataRead, DataEnds, net
<1>4. /\ user'[v] # "shut" => user[v] # "shut"
      /\ wire'[v] # "closed" => wire[v] # "closed"
  BY <1>2, <1>3 DEF Conns, Wires
<1>. QED BY <1>1, <1>4, SameUpward DEF Alive

LEMMA RelayingUpward ==
    ASSUME IInv, NEW u \in Users, Opening(u) \/ Relaying(u), NEW v \in Users
    PROVE  Upward(v)'
<1>. USE Groups DEF IInv
<1>1. UNCHANGED <<srv, user, gotUp, toC, taken, skipped>>
  BY DEF Opening, Opened, DialFails, Relaying, DialUpstream, RelaySends, RelayEnds, handler, net, service
<1>2. /\ UNCHANGED wire \/ wire' = [wire EXCEPT ![u] = "closed"]
      /\ \/ UNCHANGED upstream
         \/ upstream' = [upstream EXCEPT ![u] = "shut"]
         \/ fwd[u] = "dial" /\ upstream' = [upstream EXCEPT ![u] = "open"]
  BY DEF Opening, Opened, DialFails, Relaying, DialUpstream, RelaySends, RelayEnds, Cleanup,
         RemoveDataChannel, net, service
<1>3. fwd[u] = "dial" => upstream[u] = "none"
  BY DEF Forwarder
<1>4. (Alive(v)' => Alive(v)) /\ (wire'[v] # "closed" => wire[v] # "closed")
  BY <1>2, <1>3 DEF Alive, Clients, Wires
<1>. QED BY <1>1, <1>4, SameUpward

LEMMA ReadingUpward ==
    ASSUME IInv, NEW u \in Users, Reading(u), NEW v \in Users
    PROVE  Upward(v)'
<1>. USE Groups DEF IInv
<1>1. UNCHANGED <<srv, user, taken>>
  BY DEF Reading, DataIn, GiveUp, ChannelEnds, handler
<1>2. /\ gotUp[v] \in Seq(Nat) /\ toC[v] \in Seq(Nat) /\ taken[v] \in Nat
      /\ skipped[v] \in SUBSET Nat /\ Pieces(gotUp[v], toC[v], taken[v], skipped[v])
  BY DEF Wires, Counts, Upward
<1>3. CASE DataIn(u)
  <2>1. /\ UNCHANGED <<wire, skipped>> /\ toC' = [toC EXCEPT ![u] = Tail(@)] /\ toC[u] # <<>>
        /\ rd[u] = "read" /\ tcpStreams[u] # "placeholder"
    BY <1>3 DEF DataIn
  <2>2. CASE v # u
    <3>1. gotUp'[v] = gotUp[v] /\ upstream'[v] = upstream[v] /\ toC'[v] = toC[v]
      BY <1>3, <2>2 DEF DataIn, Clients, Wires, Counts
    <3>. QED BY <1>1, <2>1, <3>1, SameUpward DEF Alive
  <2>3. CASE v = u /\ UNCHANGED gotUp /\ ~Alive(u)'
    <3>1. Pieces(gotUp[u], Tail(toC[u]), taken[u], skipped[u]) /\ toC'[u] = Tail(toC[u])
      BY <1>2, <2>1, <2>3, DropPiece DEF Wires
    <3>. QED BY <1>1, <2>1, <2>3, <3>1 DEF Upward
  <2>4. CASE /\ v = u /\ gotUp' = [gotUp EXCEPT ![u] = Append(@, Head(toC[u]))]
             /\ UNCHANGED upstream /\ Alive(u)
    <3>1. gotUp'[u] = Append(gotUp[u], Head(toC[u])) /\ toC'[u] = Tail(toC[u])
      BY <2>1, <2>4 DEF Wires, Counts
    <3>2. Link(gotUp[u], toC[u], skipped[u])
      BY <2>4 DEF Upward
    <3>3. /\ Pieces(Append(gotUp[u], Head(toC[u])), Tail(toC[u]), taken[u], skipped[u])
          /\ Link(Append(gotUp[u], Head(toC[u])), Tail(toC[u]), skipped[u])
          /\ Cover(gotUp[u], toC[u], taken[u], skipped[u]) =>
                Cover(Append(gotUp[u], Head(toC[u])), Tail(toC[u]), taken[u], skipped[u])
      BY <1>2, <2>1, <2>4, <3>2, DeliverPiece
    <3>. QED BY <1>1, <2>1, <2>4, <3>1, <3>3 DEF Upward, Alive
  <2>5. tcpStreams[u] = "none" => ~Alive(u)
    BY <2>1 DEF Forwarder, Alive, Clients
  <2>. QED BY <1>3, <2>2, <2>3, <2>4, <2>5 DEF DataIn, Alive, Clients
<1>4. CASE GiveUp(u)
  <2>1. /\ UNCHANGED <<wire, gotUp, upstream>> /\ toC' = [toC EXCEPT ![u] = Tail(@)]
        /\ toC[u] # <<>> /\ skipped' = [skipped EXCEPT ![u] = @ \cup {Head(toC[u])}]
    BY <1>4 DEF GiveUp
  <2>2. CASE v # u
    <3>1. skipped'[v] = skipped[v] /\ toC'[v] = toC[v]
      BY <2>1, <2>2 DEF Wires, Counts
    <3>. QED BY <1>1, <2>1, <3>1, SameUpward DEF Alive
  <2>3. CASE v = u
    <3>1. toC'[u] = Tail(toC[u]) /\ skipped'[u] = skipped[u] \cup {Head(toC[u])}
      BY <2>1 DEF Wires, Counts
    <3>2. /\ Pieces(gotUp[u], Tail(toC[u]), taken[u], skipped[u] \cup {Head(toC[u])})
          /\ Link(gotUp[u], toC[u], skipped[u]) =>
                Link(gotUp[u], Tail(toC[u]), skipped[u] \cup {Head(toC[u])})
          /\ Cover(gotUp[u], toC[u], taken[u], skipped[u]) =>
                Cover(gotUp[u], Tail(toC[u]), taken[u], skipped[u] \cup {Head(toC[u])})
      BY <1>2, <2>1, <2>3, DropPiece
    <3>. QED BY <1>1, <2>1, <2>3, <3>1, <3>2 DEF Upward, Alive
  <2>. QED BY <2>2, <2>3
<1>5. CASE ChannelEnds(u)
  <2>1. /\ UNCHANGED <<gotUp, upstream, skipped>> /\ toC' = [toC EXCEPT ![u] = <<>>]
        /\ wire[u] = "closed" /\ wire'[u] = "closed"
        /\ \A w \in Users : w # u => wire'[w] = wire[w]
    BY <1>5 DEF ChannelEnds, RemoveDataChannel, Wires, service
  <2>2. CASE v # u
    BY <1>1, <2>1, <2>2, SameUpward DEF Alive, Wires
  <2>3. CASE v = u
    <3>1. Pieces(gotUp[u], <<>>, taken[u], skipped[u]) /\ Link(gotUp[u], <<>>, skipped[u])
      BY <1>2, <2>3, ClearPieces
    <3>2. toC'[u] = <<>>
      BY <2>1 DEF Wires
    <3>. QED BY <1>1, <2>1, <2>3, <3>1, <3>2 DEF Upward
  <2>. QED BY <2>2, <2>3
<1>. QED BY <1>3, <1>4, <1>5 DEF Reading

LEMMA OtherUpward ==
    ASSUME IInv, NEW v \in Users,
           \/ ServerReads \/ ClientReads \/ ClientLoses \/ Ping \/ Lose \/ Destroy \/ UNCHANGED vars
           \/ \E u \in Users : Leave(u) \/ UpstreamEnds(u) \/ Break(u)
    PROVE  Upward(v)'
<1>. USE Groups DEF IInv
<1>1. UNCHANGED <<srv, gotUp, taken, skipped>>
  BY DEF ServerReads, ClientReads, ClientLoses, Ping, Lose, Destroy, Leave, UpstreamEnds, Break, vars,
         handler, service
<1>2. CASE ServerReads \/ ClientReads \/ ClientLoses \/ Ping \/ Lose \/ Destroy \/ UNCHANGED vars
  <2>1. UNCHANGED <<toC, user, upstream>> /\ (wire'[v] # "closed" => wire[v] # "closed")
    BY <1>2 DEF ServerReads, ClientReads, ClientLoses, Ping, Lose, Destroy, vars, net, service, Wires
  <2>. QED BY <1>1, <2>1, SameUpward DEF Alive
<1>3. ASSUME NEW u \in Users, Leave(u) \/ UpstreamEnds(u)
      PROVE  Upward(v)'
  <2>1. /\ UNCHANGED <<toC, wire>>
        /\ (user'[v] # "shut" => user[v] # "shut") /\ (Alive(v)' => Alive(v))
    BY <1>3 DEF Leave, UpstreamEnds, net, service, Conns, Clients, Alive
  <2>. QED BY <1>1, <2>1, SameUpward
<1>4. ASSUME NEW u \in Users, Break(u)
      PROVE  Upward(v)'
  <2>1. UNCHANGED <<user, upstream>> /\ wire'[u] = "closed" /\ toC'[u] = <<>>
    BY <1>4 DEF Break, Wires, service
  <2>2. CASE v # u
    <3>1. wire'[v] = wire[v] /\ toC'[v] = toC[v]
      BY <1>4, <2>2 DEF Break, Wires
    <3>. QED BY <1>1, <2>1, <3>1, SameUpward DEF Alive
  <2>3. CASE v = u
    <3>1. Pieces(gotUp[v], <<>>, taken[v], skipped[v]) /\ Link(gotUp[v], <<>>, skipped[v])
      BY ClearPieces DEF Upward
    <3>. QED BY <1>1, <2>1, <2>3, <3>1 DEF Upward
  <2>. QED BY <2>2, <2>3
<1>. QED BY <1>2, <1>3, <1>4

LEMMA UpwardStep ==
    ASSUME IInv, [Next]_vars, NEW v \in Users
    PROVE  Upward(v)'
BY HandlingUpward, UploadUpward, ServerUpward, RelayingUpward, ReadingUpward, OtherUpward
   DEF Next, Sending

-----------------------------------------------------------------------------
(* The pieces on their way down *)

\* The upstream service sends a piece, over a channel that lasts.
LEMMA SendDown ==
    ASSUME NEW g \in Seq(Nat), NEW c \in Seq(Nat), NEW a \in Nat, NEW ms \in SUBSET Nat,
           Numbered(c, a), Ordered(g, a, ms), c # <<>> => a > 0 /\ c[Len(c)] = a
    PROVE  /\ Append(c, a + 1) # <<>> /\ Append(c, a + 1)[Len(Append(c, a + 1))] = a + 1
           /\ Numbered(Append(c, a + 1), a + 1)
           /\ Ahead(g, c, a, ms, TRUE) => Ahead(g, Append(c, a + 1), a + 1, ms, TRUE)
<1>. DEFINE d == Append(c, a + 1)
<1>1. /\ d \in Seq(Nat) /\ Len(c) \in Nat /\ Len(d) = Len(c) + 1 /\ d[Len(c) + 1] = a + 1
      /\ \A i \in 1 .. Len(c) : d[i] = c[i]
      /\ d # <<>>
  <2>1. a + 1 \in Nat
    OBVIOUS
  <2>. HIDE DEF d
  <2>2. \A p \in Nat : /\ Append(c, p) \in Seq(Nat) /\ Len(c) \in Nat
                       /\ Len(Append(c, p)) = Len(c) + 1 /\ Append(c, p)[Len(c) + 1] = p
                       /\ \A i \in 1 .. Len(c) : Append(c, p)[i] = c[i]
    BY AppendFacts
  <2>3. /\ d \in Seq(Nat) /\ Len(c) \in Nat /\ Len(d) = Len(c) + 1 /\ d[Len(c) + 1] = a + 1
        /\ \A i \in 1 .. Len(c) : d[i] = c[i]
    BY <2>1, <2>2, Zenon DEF d
  <2>4. d = <<>> => Len(d) = 0
    OBVIOUS
  <2>. QED BY <2>3, <2>4
<1>. HIDE DEF d
<1>2. \A i \in 1 .. Len(d) : i \in 1 .. Len(c) \/ i = Len(c) + 1
  BY <1>1
<1>3. Numbered(d, a + 1)
  <2>1. ASSUME NEW i \in 1 .. Len(d)
        PROVE  d[i] \in 0 .. a + 1 /\ d[i] # 0
    <3>1. CASE i \in 1 .. Len(c)
      <4>1. a > 0 /\ c[i] \in 0 .. a /\ c[i] # 0 /\ d[i] = c[i]
        BY <1>1, <3>1 DEF Numbered
      <4>. QED BY <4>1
    <3>2. CASE i = Len(c) + 1
      BY <1>1, <3>2
    <3>. QED BY <1>2, <3>1, <3>2
  <2>2. ASSUME NEW i \in 1 .. Len(d), NEW j \in 1 .. Len(d), j = i + 1
        PROVE  d[j] = d[i] + 1
    <3>1. i \in 1 .. Len(c) /\ a > 0 /\ d[i] = c[i]
      BY <1>1, <1>2, <2>2
    <3>2. CASE j \in 1 .. Len(c)
      BY <1>1, <2>2, <3>1, <3>2 DEF Numbered
    <3>3. CASE j = Len(c) + 1
      <4>1. i = Len(c)
        BY <1>1, <2>2, <3>3
      <4>2. c # <<>>
        BY <3>1
      <4>. QED BY <1>1, <3>1, <3>3, <4>1, <4>2
    <3>. QED BY <1>2, <3>2, <3>3
  <2>. QED BY <2>1, <2>2 DEF Numbered
<1>4. Ahead(g, c, a, ms, TRUE) => Ahead(g, d, a + 1, ms, TRUE)
  <2>1. CASE c = <<>>
    <3>1. d[1] = a + 1
      BY <1>1, <2>1
    <3>2. g # <<>> => g[Len(g)] \in 1 .. a
      BY DEF Ordered
    <3>. QED BY <1>1, <2>1, <3>1, <3>2 DEF Ahead
  <2>2. CASE c # <<>>
    <3>1. d[1] = c[1]
      BY <1>1, <2>2
    <3>. QED BY <1>1, <2>2, <3>1 DEF Ahead
  <2>. QED BY <2>1, <2>2
<1>. QED BY <1>1, <1>3, <1>4 DEF d

\* What the relay has read is not sent, or the channel is gone.
LEMMA MoreAnswered ==
    ASSUME NEW g \in Seq(Nat), NEW c \in Seq(Nat), NEW a \in Nat, NEW ms,
           Numbered(c, a), Ordered(g, a, ms), c # <<>> => a > 0
    PROVE  Numbered(c, a + 1) /\ Ordered(g, a + 1, ms)
<1>1. ASSUME NEW i \in 1 .. Len(c)
      PROVE  c[i] \in 0 .. a + 1 /\ c[i] # 0
  <2>1. a > 0 /\ c[i] \in 0 .. a /\ c[i] # 0
    BY DEF Numbered
  <2>. QED BY <2>1
<1>2. \A i, j \in 1 .. Len(c) : j = i + 1 => c[j] = c[i] + 1
  BY DEF Numbered
<1>3. \A i \in 1 .. Len(g) : g[i] \in 1 .. a + 1
  BY DEF Ordered
<1>. QED BY <1>1, <1>2, <1>3 DEF Numbered, Ordered

\* The server takes the next piece from the channel.
LEMMA TakeDown ==
    ASSUME NEW g \in Seq(Nat), NEW c \in Seq(Nat), NEW a \in Nat, NEW ms \in SUBSET Nat,
           NEW lasting \in BOOLEAN,
           Numbered(c, a), Ordered(g, a, ms), c # <<>>,
           lasting => a > 0 /\ c[Len(c)] = a
    PROVE  /\ Numbered(Tail(c), a)
           /\ Tail(c) # <<>> => Tail(c)[Len(Tail(c))] = c[Len(c)]
           /\ Head(c) \in 0 .. a /\ (a > 0 => Head(c) # 0)
           /\ Head(c) # 0 => /\ Tail(c) # <<>> => Tail(c)[1] = Head(c) + 1
                             /\ Tail(c) = <<>> /\ lasting => Head(c) = a
<1>. DEFINE h == Head(c)
            d == Tail(c)
<1>1. /\ d \in Seq(Nat) /\ h \in Nat /\ Len(c) \in Nat /\ Len(c) > 0
      /\ Len(d) = Len(c) - 1 /\ h = c[1] /\ 1 \in 1 .. Len(c)
      /\ \A i \in 1 .. Len(d) : d[i] = c[i + 1] /\ i + 1 \in 1 .. Len(c)
  BY TailFacts
<1>2. d # <<>> => Len(d) \in 1 .. Len(d) /\ 1 \in 1 .. Len(d)
  BY <1>1
<1>. HIDE DEF h, d
<1>3. d = <<>> => Len(c) = 1
  <2>1. Len(<<>>) = 0
    OBVIOUS
  <2>. QED BY <1>1, <2>1
<1>4. Numbered(d, a)
  <2>1. \A i \in 1 .. Len(d) : d[i] \in 0 .. a /\ (a > 0 => d[i] # 0)
    BY <1>1 DEF Numbered
  <2>2. ASSUME NEW i \in 1 .. Len(d), NEW j \in 1 .. Len(d), j = i + 1, a > 0
        PROVE  d[j] = d[i] + 1
    <3>1. i + 1 \in 1 .. Len(c) /\ j + 1 \in 1 .. Len(c) /\ j + 1 = (i + 1) + 1
      BY <1>1, <2>2
    <3>2. c[j + 1] = c[i + 1] + 1
      BY <2>2, <3>1 DEF Numbered
    <3>. QED BY <1>1, <3>2
  <2>. QED BY <2>1, <2>2 DEF Numbered
<1>5. d # <<>> => d[Len(d)] = c[Len(c)]
  BY SMTT(30), <1>1, <1>2
<1>6. h \in 0 .. a /\ (a > 0 => h # 0)
  BY <1>1 DEF Numbered
<1>7. h # 0 /\ d # <<>> => d[1] = h + 1
  <2>1. ASSUME h # 0, d # <<>>
        PROVE  d[1] = h + 1
    <3>1. a > 0 /\ 1 + 1 \in 1 .. Len(c) /\ d[1] = c[1 + 1]
      BY <1>1, <1>2, <1>6, <2>1
    <3>. QED BY <1>1, <3>1 DEF Numbered
  <2>. QED BY <2>1
<1>8. d = <<>> /\ lasting => h = a
  BY <1>1, <1>3
<1>. QED BY <1>4, <1>5, <1>6, <1>7, <1>8 DEF h, d

\* A piece taken is got or left out, and the next one is ahead of what the user has.
LEMMA TakeAhead ==
    ASSUME NEW g \in Seq(Nat), NEW d \in Seq(Nat), NEW a \in Nat, NEW p \in 1 .. a, NEW ms,
           NEW lasting \in BOOLEAN,
           g # <<>> => g[Len(g)] < p + 1 /\ Left(g[Len(g)], p + 1, ms),
           d # <<>> => d[1] = p + 1, d = <<>> /\ lasting => p = a
    PROVE  Ahead(g, d, a, ms, lasting)
BY DEF Ahead

\* A user has nothing of a service that has sent nothing.
LEMMA NothingYet ==
    ASSUME NEW g \in Seq(Nat), NEW ms, Ordered(g, 0, ms)
    PROVE  g = <<>>
<1>1. ASSUME g # <<>> PROVE FALSE
  <2>1. 1 \in 1 .. Len(g)
    BY <1>1
  <2>2. g[1] \in 1 .. 0
    BY <2>1 DEF Ordered
  <2>. QED BY <2>2
<1>. QED BY <1>1

\* The user gets a piece that is ahead of all it has.
LEMMA GetDown ==
    ASSUME NEW g \in Seq(Nat), NEW c \in Seq(Nat), NEW a \in Nat, NEW ms \in SUBSET Nat,
           NEW p \in 1 .. a, Ordered(g, a, ms),
           g # <<>> => g[Len(g)] < p /\ Left(g[Len(g)], p, ms)
    PROVE  Ordered(Append(g, p), a, ms)
<1>. DEFINE e == Append(g, p)
<1>1. /\ e \in Seq(Nat) /\ Len(g) \in Nat /\ Len(e) = Len(g) + 1 /\ e[Len(g) + 1] = p
      /\ \A i \in 1 .. Len(g) : e[i] = g[i]
  BY AppendFacts
<1>. HIDE DEF e
<1>2. \A i \in 1 .. Len(e) : i \in 1 .. Len(g) \/ i = Len(g) + 1
  BY <1>1
<1>3. \A i \in 1 .. Len(e) : e[i] \in 1 .. a
  BY <1>1, <1>2 DEF Ordered
<1>4. ASSUME NEW i \in 1 .. Len(e), NEW j \in 1 .. Len(e), j = i + 1
      PROVE  e[i] < e[j] /\ Left(e[i], e[j], ms)
  <2>1. i \in 1 .. Len(g) /\ e[i] = g[i]
    BY <1>1, <1>2, <1>4
  <2>2. CASE j \in 1 .. Len(g)
    BY <1>1, <1>4, <2>1, <2>2 DEF Ordered
  <2>3. CASE j = Len(g) + 1
    <3>1. i = Len(g) /\ g # <<>>
      BY <1>1, <1>4, <2>1, <2>3
    <3>. QED BY <1>1, <2>1, <2>3, <3>1
  <2>. QED BY <1>2, <2>2, <2>3
<1>. QED BY <1>3, <1>4 DEF Ordered, e

\* A step that moves no piece of v and opens neither its connection nor its channel.
LEMMA SameDownward ==
    ASSUME NEW v \in Users, Downward(v),
           fwd'[v] = fwd[v] \/ (fwd[v] = "none" /\ fwd'[v] = "dial") \/ fwd'[v] = "done",
           answered'[v] = answered[v], toS'[v] = toS[v], gotUser'[v] = gotUser[v],
           missed'[v] = missed[v],
           wire'[v] = "open" => wire[v] = "open" \/ fwd'[v] # "relay",
           wire[v] # "none" => wire'[v] # "none",
           v \in dataConns' => v \in dataConns \/ wire'[v] # "none",
           srv'[v] = "idle" => srv[v] = "idle",
           v \in dataHandlers' => v \in dataHandlers \/ srv'[v] # "idle",
           user'[v] = "open" =>
               /\ user[v] = "open" \/ srv[v] = "idle"
               /\ v \in dataHandlers => v \in dataHandlers'
    PROVE  Downward(v)'
<1>1. Lasting(v)' => Lasting(v)
  BY DEF Lasting
<1>2. srv[v] = "idle" => gotUser[v] = <<>>
  BY DEF Downward
<1>3. user'[v] = "open" => Ahead(gotUser[v], toS[v], answered[v], missed[v], Lasting(v)')
  BY <1>1, <1>2 DEF Downward, Ahead
<1>. QED BY <1>1, <1>2, <1>3 DEF Downward

LEMMA HandlingDownward ==
    ASSUME IInv, NEW u \in Users, Accept(u) \/ Handling(u) \/ Sending(u), NEW v \in Users
    PROVE  Downward(v)'
<1>. USE Groups DEF IInv
<1>1. UNCHANGED <<fwd, answered, toS, gotUser, missed, wire, dataConns>>
  BY DEF Accept, Handling, Ask, Proceed, Expire, Connect, StartUpload, Subscribe, Sending, Upload,
         UploadEnds, net, client, service
<1>2. srv'[v] = "idle" => srv[v] = "idle"
  BY DEF Accept, Handling, Ask, Proceed, Expire, Connect, StartUpload, Subscribe, Sending, Upload,
         UploadEnds, Go, Conns, handler
<1>3. v \in dataHandlers' => v \in dataHandlers \/ srv'[v] # "idle"
  BY DEF Accept, Handling, Ask, Proceed, Expire, Connect, StartUpload, Subscribe, Sending, Upload,
         UploadEnds, Go, CloseUser, Conns, handler, registry
<1>4. user'[v] = "open" => /\ user[v] = "open" \/ srv[v] = "idle"
                           /\ v \in dataHandlers => v \in dataHandlers'
  BY DEF Accept, Handling, Ask, Proceed, Expire, Connect, StartUpload, Subscribe, Sending, Upload,
         UploadEnds, CloseUser, Conns, handler, registry
<1>. QED BY <1>1, <1>2, <1>3, <1>4, SameDownward

LEMMA DataReadDownward ==
    ASSUME IInv, NEW u \in Users, DataRead(u), NEW v \in Users
    PROVE  Downward(v)'
<1>. USE Groups DEF IInv
<1>1. /\ UNCHANGED <<fwd, answered, wire, dataConns, srv>>
      /\ toS[u] # <<>> /\ toS' = [toS EXCEPT ![u] = Tail(@)]
  BY DEF DataRead, handler, client, service
<1>2. /\ toS[u] \in Seq(Nat) /\ gotUser[u] \in Seq(Nat) /\ answered[u] \in Nat
      /\ missed[u] \in SUBSET Nat
  BY DEF Wires, Counts
<1>3. \/ UNCHANGED <<user, dataHandlers>>
      \/ user' = [user EXCEPT ![u] = "shut"] /\ (dataHandlers' = dataHandlers \ {u} \/ UNCHANGED dataHandlers)
  BY DEF DataRead, CloseUser, registry
<1>4. CASE v # u
  <2>1. toS'[v] = toS[v] /\ gotUser'[v] = gotUser[v] /\ missed'[v] = missed[v]
    BY <1>1, <1>4 DEF DataRead, Takers, Wires, Counts
  <2>2. v \in dataHandlers' <=> v \in dataHandlers
    BY <1>3, <1>4
  <2>3. user'[v] = user[v]
    BY <1>3, <1>4 DEF Conns
  <2>. QED BY <1>1, <2>1, <2>2, <2>3, SameDownward
<1>5. CASE v = u
  <2>0. PICK p \in Nat : p = Head(toS[u])
    BY <1>1, <1>2
  <2>1. /\ Numbered(Tail(toS[u]), answered[u])
        /\ Tail(toS[u]) # <<>> => Tail(toS[u])[Len(Tail(toS[u]))] = toS[u][Len(toS[u])]
        /\ p \in 0 .. answered[u] /\ (answered[u] > 0 => p # 0)
        /\ p # 0 => /\ Tail(toS[u]) # <<>> => Tail(toS[u])[1] = p + 1
                    /\ Tail(toS[u]) = <<>> /\ Lasting(u) => p = answered[u]
    <3>1. /\ Numbered(toS[u], answered[u]) /\ Ordered(gotUser[u], answered[u], missed[u])
          /\ Lasting(u) \in BOOLEAN
          /\ Lasting(u) => answered[u] > 0 /\ toS[u][Len(toS[u])] = answered[u]
      BY <1>1 DEF Downward, Lasting
    <3>. QED BY <1>1, <1>2, <2>0, <3>1, TakeDown
  <2>2. toS'[u] = Tail(toS[u]) /\ (Lasting(u)' <=> Lasting(u))
    BY <1>1 DEF Wires, Lasting
  <2>3. /\ fwd'[u] \notin {"none", "dial"}
        /\ fwd'[u] = "relay" => answered'[u] > 0
        /\ Lasting(u)' /\ toS'[u] # <<>> => toS'[u][Len(toS'[u])] = answered'[u]
        /\ u \in dataConns' => wire'[u] # "none"
        /\ Numbered(toS'[u], answered'[u])
    BY <1>1, <2>1, <2>2 DEF Downward
  <2>4. ASSUME UNCHANGED gotUser, UNCHANGED missed \/ missed'[u] = missed[u] \cup {p},
               user'[u] # "open" \/ gotUser[u] = <<>> \/ (p # 0 /\ p \in missed'[u] /\ UNCHANGED <<user, dataHandlers>>)
        PROVE  Downward(u)'
    <3>1. Ordered(gotUser'[u], answered'[u], missed'[u])
      BY <1>1, <2>4 DEF Downward, Ordered, Left
    <3>2. user'[u] = "open" =>
              Ahead(gotUser'[u], toS'[u], answered'[u], missed'[u], Lasting(u)')
      <4>1. CASE user'[u] # "open" \/ gotUser[u] = <<>>
        BY <2>4, <4>1 DEF Ahead
      <4>2. CASE user[u] = "open" /\ gotUser[u] # <<>> /\ p # 0 /\ p \in missed'[u]
        <5>1. toS[u][1] = p
          BY <1>1, <1>2, <2>0
        <5>2. gotUser[u][Len(gotUser[u])] < p /\ Left(gotUser[u][Len(gotUser[u])], p, missed[u])
          BY <1>1, <4>2, <5>1 DEF Downward, Ahead
        <5>3. gotUser[u][Len(gotUser[u])] \in Nat
          BY <1>2, <4>2
        <5>4. Left(gotUser[u][Len(gotUser[u])], p + 1, missed'[u])
          BY <2>4, <4>2, <5>2, <5>3 DEF Left
        <5>5. /\ gotUser[u] \in Seq(Nat) /\ Tail(toS[u]) \in Seq(Nat) /\ answered[u] \in Nat
              /\ p \in 1 .. answered[u] /\ Lasting(u) \in BOOLEAN
              /\ gotUser[u][Len(gotUser[u])] < p + 1
          BY <1>1, <1>2, <2>1, <4>2, <5>2, <5>3 DEF Lasting
        <5>6. Ahead(gotUser[u], Tail(toS[u]), answered[u], missed'[u], Lasting(u))
          BY <2>1, <4>2, <5>4, <5>5, TakeAhead
        <5>7. gotUser'[u] = gotUser[u] /\ answered'[u] = answered[u]
          BY <1>1, <2>4
        <5>. QED BY <2>2, <5>6, <5>7 DEF Ahead
      <4>. QED BY <2>4, <4>1, <4>2
    <3>3. u \in dataHandlers' => u \in dataHandlers
      BY <1>3
    <3>4. gotUser'[u] # <<>> /\ user'[u] = "open" => u \in dataHandlers'
      BY <1>3, <2>4 DEF Downward, Conns
    <3>. QED BY <1>1, <2>3, <2>4, <3>1, <3>2, <3>3, <3>4 DEF Downward
  <2>5. ASSUME p # 0, UNCHANGED <<missed, user, dataHandlers>>, user[u] = "open", u \in dataHandlers,
               gotUser'[u] = Append(gotUser[u], p)
        PROVE  Downward(u)'
    <3>1. p \in 1 .. answered[u]
      BY <2>1, <2>5
    <3>2. gotUser[u] # <<>> => /\ gotUser[u][Len(gotUser[u])] < p
                               /\ Left(gotUser[u][Len(gotUser[u])], p, missed[u])
      <4>1. toS[u][1] = p
        BY <1>1, <1>2, <2>0
      <4>. QED BY <1>1, <2>5, <4>1 DEF Downward, Ahead
    <3>3. Ordered(Append(gotUser[u], p), answered[u], missed[u])
      BY <1>2, <3>1, <3>2, GetDown DEF Downward
    <3>4. gotUser'[u][Len(gotUser'[u])] = p
      BY <1>2, <2>5
    <3>5. Left(p, p + 1, missed[u])
      BY DEF Left
    <3>6. Ahead(gotUser'[u], toS'[u], answered'[u], missed'[u], Lasting(u)')
      <4>1. /\ gotUser'[u] \in Seq(Nat) /\ Tail(toS[u]) \in Seq(Nat) /\ answered[u] \in Nat
            /\ Lasting(u) \in BOOLEAN /\ missed'[u] = missed[u] /\ answered'[u] = answered[u]
            /\ gotUser'[u][Len(gotUser'[u])] < p + 1
            /\ Left(gotUser'[u][Len(gotUser'[u])], p + 1, missed[u])
        BY <1>1, <1>2, <2>5, <3>4, <3>5 DEF Lasting
      <4>2. Ahead(gotUser'[u], Tail(toS[u]), answered[u], missed[u], Lasting(u))
        BY <2>1, <2>5, <3>1, <4>1, TakeAhead
      <4>. QED BY <2>2, <4>1, <4>2 DEF Ahead
    <3>. QED BY <1>1, <2>3, <2>5, <3>3, <3>6 DEF Downward
  <2>6. CASE p = 0
    <3>1. gotUser[u] = <<>> /\ UNCHANGED <<gotUser, missed>>
      <4>1. answered[u] = 0
        BY <1>2, <2>1, <2>6
      <4>2. gotUser[u] = <<>>
        BY <1>2, <4>1 DEF Downward, Ordered
      <4>. QED BY <2>0, <2>6, <4>2 DEF DataRead
    <3>. QED BY <1>5, <2>4, <3>1
  <2>7. CASE p # 0 /\ u \in dataHandlers /\ user[u] = "open"
    <3>1. CASE missed' = [missed EXCEPT ![u] = @ \cup {p}] /\ UNCHANGED <<gotUser, user, registry>>
      BY <1>5, <2>4, <2>7, <3>1 DEF Counts, registry
    <3>2. CASE /\ gotUser' = [w \in Users |-> IF w \in Takers(u) /\ user[w] = "open"
                                             THEN Append(gotUser[w], p) ELSE gotUser[w]]
               /\ UNCHANGED <<events, missed, user, registry>>
      BY <1>5, <2>5, <2>7, <3>2 DEF Takers, registry
    <3>. QED BY <2>0, <2>7, <3>1, <3>2 DEF DataRead
  <2>8. CASE p # 0 /\ ~(u \in dataHandlers /\ user[u] = "open")
    <3>1. UNCHANGED <<gotUser, missed>>
      BY <2>0, <2>8 DEF DataRead, Takers, Counts
    <3>2. user'[u] # "open" \/ gotUser[u] = <<>>
      BY <1>3, <2>8 DEF Downward, Conns
    <3>. QED BY <1>5, <2>4, <3>1, <3>2
  <2>. QED BY <2>6, <2>7, <2>8
<1>. QED BY <1>4, <1>5

LEMMA ServingDownward ==
    ASSUME IInv, NEW u \in Users, Serving(u), NEW v \in Users
    PROVE  Downward(v)'
<1>. USE Groups DEF IInv
<1>1. CASE DataRead(u)
  BY <1>1, DataReadDownward
<1>2. CASE ~DataRead(u)
  <2>1. UNCHANGED <<fwd, answered, toS, gotUser, missed, dataConns, srv, dataHandlers, user>>
    BY <1>2 DEF Serving, Upgrade, Register, SetDataChannel, DataEnds, handler, registry, net, client,
                service
  <2>2. \/ UNCHANGED wire \/ wire' = [wire EXCEPT ![u] = "closed"]
        \/ wire' = [wire EXCEPT ![u] = "open"] /\ loop = u
    BY <1>2 DEF Serving, Upgrade, Register, SetDataChannel, DataEnds, net
  <2>3. loop = u => fwd[u] = "none"
    BY DEF Stream, Clients
  <2>4. /\ wire'[v] = "open" => wire[v] = "open" \/ fwd'[v] # "relay"
        /\ wire[v] # "none" => wire'[v] # "none"
    BY <2>1, <2>2, <2>3 DEF Wires
  <2>. QED BY <2>1, <2>4, SameDownward
<1>. QED BY <1>1, <1>2

LEMMA RelayingDownward ==
    ASSUME IInv, NEW u \in Users, Relaying(u), NEW v \in Users
    PROVE  Downward(v)'
<1>. USE Groups DEF IInv
<1>1. UNCHANGED <<gotUser, missed, srv, user, dataHandlers>>
  BY DEF Relaying, DialUpstream, RelaySends, RelayEnds, handler, registry
<1>2. /\ dataConns' \subseteq dataConns
      /\ wire[v] # "none" => wire'[v] # "none"
      /\ wire'[v] = "open" => wire[v] = "open"
  BY DEF Relaying, DialUpstream, RelaySends, RelayEnds, Cleanup, RemoveDataChannel, Wires
<1>3. CASE v # u
  <2>1. fwd'[v] = fwd[v] /\ answered'[v] = answered[v] /\ toS'[v] = toS[v]
    BY SMTT(30), <1>3 DEF Relaying, DialUpstream, RelaySends, RelayEnds, Cleanup, CloseNotify, Clients, Wires,
                Counts
  <2>. QED BY <1>1, <1>2, <2>1, SameDownward
<1>4. ASSUME v = u, fwd'[u] = "done", Numbered(toS'[u], answered'[u]),
             Ordered(gotUser[u], answered'[u], missed[u]),
             toS'[u] = toS[u] \/ gotUser[u] = <<>>
      PROVE  Downward(v)'
  <2>1. ~Lasting(u)'
    BY <1>4 DEF Lasting
  <2>2. user[u] = "open" => Ahead(gotUser[u], toS'[u], answered'[u], missed[u], Lasting(u)')
    BY <1>4, <2>1 DEF Downward, Ahead
  <2>. QED BY <1>1, <1>2, <1>4, <2>1, <2>2 DEF Downward
<1>5. /\ toS[u] \in Seq(Nat) /\ gotUser[u] \in Seq(Nat) /\ answered[u] \in Nat
      /\ missed[u] \in SUBSET Nat
      /\ Numbered(toS[u], answered[u]) /\ Ordered(gotUser[u], answered[u], missed[u])
  BY DEF Wires, Counts, Downward
<1>6. CASE v = u /\ DialUpstream(u)
  <2>1. /\ answered[u] = 0 /\ toS[u] = <<>> /\ UNCHANGED answered
        /\ gotUser[u] = <<>>
    <3>1. answered[u] = 0 /\ toS[u] = <<>> /\ UNCHANGED answered
      BY <1>6 DEF DialUpstream, Downward
    <3>2. Ordered(gotUser[u], 0, missed[u])
      BY <1>5, <3>1
    <3>. QED BY <1>5, <3>1, <3>2, NothingYet
  <2>2. CASE fwd' = [fwd EXCEPT ![u] = "relay"] /\ UNCHANGED toS
    BY <1>1, <1>2, <1>6, <2>1, <2>2 DEF Downward, Ahead, Clients
  <2>3. CASE Cleanup(u) /\ CloseNotify(u)
    <3>1. toS'[u] = <<>> \/ toS'[u] = <<0>>
      BY <2>1, <2>3 DEF CloseNotify, Wires
    <3>2. Numbered(toS'[u], answered'[u])
      BY <2>1, <3>1 DEF Numbered
    <3>. QED BY <1>4, <1>5, <1>6, <2>1, <2>3, <3>2 DEF Cleanup, Clients
  <2>. QED BY <1>6, <2>2, <2>3 DEF DialUpstream
<1>7. CASE v = u /\ RelaySends(u)
  <2>1. /\ answered'[u] = answered[u] + 1 /\ fwd[u] = "relay"
        /\ toS[u] # <<>> => answered[u] > 0
    BY <1>7 DEF RelaySends, Counts, Downward
  <2>2. Numbered(toS[u], answered[u] + 1) /\ Ordered(gotUser[u], answered[u] + 1, missed[u])
    BY <1>5, <2>1, MoreAnswered
  <2>3. CASE Cleanup(u) /\ UNCHANGED toS
    BY <1>4, <1>7, <2>1, <2>2, <2>3 DEF Cleanup, Clients
  <2>4. CASE UNCHANGED <<fwd, wire, dataConns, toS>> /\ wire[u] # "open"
    BY <1>1, <1>7, <2>1, <2>2, <2>4, <1>5 DEF Downward, Ahead, Lasting
  <2>5. CASE /\ UNCHANGED <<fwd, wire, dataConns>> /\ wire[u] = "open"
             /\ toS' = [toS EXCEPT ![u] = Append(@, answered[u] + 1)]
    <3>1. /\ Lasting(u) /\ Lasting(u)' /\ toS'[u] = Append(toS[u], answered[u] + 1)
          /\ toS[u] # <<>> => answered[u] > 0 /\ toS[u][Len(toS[u])] = answered[u]
      BY <2>1, <2>5 DEF Lasting, Downward, Wires
    <3>2. PICK c \in Seq(Nat), a \in Nat, g \in Seq(Nat), ms \in SUBSET Nat :
             c = toS[u] /\ a = answered[u] /\ g = gotUser[u] /\ ms = missed[u]
      BY <1>5
    <3>3. Numbered(c, a) /\ Ordered(g, a, ms) /\ (c # <<>> => a > 0 /\ c[Len(c)] = a)
      BY <1>5, <3>1, <3>2
    <3>4. /\ Append(c, a + 1) # <<>> /\ Append(c, a + 1)[Len(Append(c, a + 1))] = a + 1
          /\ Numbered(Append(c, a + 1), a + 1)
          /\ Ahead(g, c, a, ms, TRUE) => Ahead(g, Append(c, a + 1), a + 1, ms, TRUE)
      BY <3>3, SendDown
    <3>5. /\ toS'[u] = Append(c, a + 1) /\ answered'[u] = a + 1 /\ fwd'[u] = "relay"
          /\ gotUser'[u] = g /\ missed'[u] = ms /\ Ordered(g, a + 1, ms) /\ a + 1 > 0
      BY <1>1, <2>1, <2>2, <2>5, <3>1, <3>2
    <3>6. user'[u] = "open" => Ahead(g, Append(c, a + 1), a + 1, ms, Lasting(u)')
      <4>1. user'[u] = "open" => Ahead(g, c, a, ms, TRUE)
        BY <1>1, <3>1, <3>2 DEF Downward, Ahead
      <4>. QED BY <3>4, <4>1 DEF Ahead
    <3>7. /\ u \in dataConns' => wire'[u] # "none"
          /\ u \in dataHandlers' \/ gotUser'[u] # <<>> => srv'[u] # "idle"
          /\ gotUser'[u] # <<>> /\ user'[u] = "open" => u \in dataHandlers'
      BY <1>1, <2>5 DEF Downward
    <3>. QED BY <1>7, <3>4, <3>5, <3>6, <3>7 DEF Downward
  <2>. QED BY <1>7, <2>3, <2>4, <2>5 DEF RelaySends
<1>8. CASE v = u /\ RelayEnds(u)
  BY <1>4, <1>5, <1>8 DEF RelayEnds, Cleanup, Clients
<1>. QED BY <1>3, <1>6, <1>7, <1>8 DEF Relaying

LEMMA OtherDownward ==
    ASSUME IInv, NEW v \in Users,
           \/ \E u \in Users : Opening(u) \/ Reading(u) \/ Leave(u) \/ UpstreamEnds(u)
           \/ ServerReads \/ ClientReads \/ ClientLoses \/ Ping \/ Lose \/ Destroy \/ UNCHANGED vars
    PROVE  Downward(v)'
<1>. USE Groups, Constants DEF IInv
<1>1. UNCHANGED <<answered, toS, gotUser, missed, srv, dataHandlers>>
  BY DEF Opening, Opened, DialFails, Reading, DataIn, GiveUp, ChannelEnds, Leave, UpstreamEnds,
         ServerReads, ClientReads, ClientLoses, Ping, Lose, Destroy, vars, handler, registry, net, service
<1>2. user'[v] = "open" => user[v] = "open"
  BY DEF Opening, Opened, DialFails, Reading, DataIn, GiveUp, ChannelEnds, Leave, UpstreamEnds,
         ServerReads, ClientReads, ClientLoses, Ping, Lose, Destroy, vars, Conns
<1>3. /\ wire'[v] = "open" => wire[v] = "open"
      /\ wire[v] # "none" => wire'[v] # "none"
  BY DEF Opening, Opened, DialFails, Reading, DataIn, GiveUp, ChannelEnds, Leave, UpstreamEnds,
         ServerReads, ClientReads, ClientLoses, Ping, Lose, Destroy, vars, net, RemoveDataChannel, Wires
<1>4. v \in dataConns' => v \in dataConns \/ wire'[v] # "none"
  BY DEF Opening, Opened, DialFails, Reading, DataIn, GiveUp, ChannelEnds, Leave, UpstreamEnds,
         ServerReads, ClientReads, ClientLoses, Ping, Lose, Destroy, vars, net, client, RemoveDataChannel,
         Wires
<1>5. fwd'[v] = fwd[v] \/ (fwd[v] = "none" /\ fwd'[v] = "dial")
  <2>1. CASE ~ClientReads
    BY <2>1 DEF Opening, Opened, DialFails, Reading, DataIn, GiveUp, ChannelEnds, Leave, UpstreamEnds,
                ServerReads, ClientLoses, Ping, Lose, Destroy, vars, client
  <2>2. CASE ClientReads
    <3>1. toClient \in Seq(ToClient) /\ toClient # <<>>
      BY <2>2 DEF ClientReads, Msgs
    <3>2. PICK m \in ToClient : m = Head(toClient) /\ m = toClient[1]
      BY <3>1
    <3>3. CASE m.user = v /\ m.kind = "connect"
      <4>1. Connects(v, 1) /\ 1 \in 1 .. Len(toClient)
        BY <3>1, <3>2, <3>3 DEF Connects, Message, ToClient
      <4>. QED BY <2>2, <3>2, <3>3, <4>1 DEF ClientReads, Stream, Clients
    <3>4. CASE ~(m.user = v /\ m.kind = "connect")
      BY <2>2, <3>2, <3>4 DEF ClientReads, ToClient, Clients
    <3>. QED BY <3>3, <3>4
  <2>. QED BY <2>1, <2>2
<1>. QED BY <1>1, <1>2, <1>3, <1>4, <1>5, SameDownward

LEMMA BreakDownward ==
    ASSUME IInv, NEW u \in Users, Break(u), NEW v \in Users
    PROVE  Downward(v)'
<1>. USE Groups DEF IInv
<1>1. /\ UNCHANGED <<fwd, answered, gotUser, missed, srv, dataHandlers, user, dataConns>>
      /\ wire'[u] = "closed" /\ toS'[u] = <<>>
      /\ \A w \in Users : w # u => wire'[w] = wire[w] /\ toS'[w] = toS[w]
  BY DEF Break, handler, registry, client, service, Wires
<1>2. CASE v # u
  BY <1>1, <1>2, SameDownward
<1>3. CASE v = u
  <2>1. Numbered(<<>>, answered[u]) /\ ~Lasting(u)'
    BY <1>1 DEF Numbered, Lasting
  <2>2. Ahead(gotUser[u], <<>>, answered[u], missed[u], Lasting(u)')
    BY <2>1 DEF Ahead
  <2>. QED BY <1>1, <1>3, <2>1, <2>2 DEF Downward
<1>. QED BY <1>2, <1>3

LEMMA DownwardStep ==
    ASSUME IInv, [Next]_vars, NEW v \in Users
    PROVE  Downward(v)'
BY HandlingDownward, ServingDownward, RelayingDownward, OtherDownward, BreakDownward DEF Next

-----------------------------------------------------------------------------
LEMMA InitOK == Init => IInv
<1>. SUFFICES ASSUME Init PROVE IInv
  OBVIOUS
<1>. USE Constants DEF Init
<1>1. Msgs /\ Conns /\ Clients
  BY DEF Msgs, Conns, Clients
<1>2. <<>> \in Seq(Nat)
  OBVIOUS
<1>3. Wires /\ Counts
  BY <1>2 DEF Wires, Counts
<1>4. Lock /\ \A u \in Users : Stream(u) /\ Forwarder(u)
  BY DEF Lock, Stream, Forwarder, Before
<1>5. \A u \in Users : Upward(u)
  <2>1. Len(<<>>) = 0 /\ 1 .. 0 = {}
    OBVIOUS
  <2>2. Pieces(<<>>, <<>>, 0, {}) /\ Link(<<>>, <<>>, {}) /\ Cover(<<>>, <<>>, 0, {})
    BY <2>1 DEF Pieces, Link, Cover, Sorted
  <2>. QED BY <2>2 DEF Upward
<1>6. \A u \in Users : Downward(u)
  <2>1. Len(<<>>) = 0 /\ 1 .. 0 = {}
    OBVIOUS
  <2>2. Numbered(<<>>, 0) /\ Ordered(<<>>, 0, {}) /\ \A l : Ahead(<<>>, <<>>, 0, {}, l)
    BY <2>1 DEF Numbered, Ordered, Ahead
  <2>. QED BY <2>2 DEF Downward
<1>. QED BY <1>1, <1>3, <1>4, <1>5, <1>6, Groups DEF IInv

LEMMA TypeStep == TypeOK /\ [Next]_vars => TypeOK'
<1>. SUFFICES ASSUME TypeOK, [Next]_vars PROVE TypeOK'
  OBVIOUS
<1>1. CASE Next
  BY <1>1, HandlingType, SendingType, ServingType, OpeningType, RelayingType, ReadingType, WorldType,
     MonitorType DEF Next
<1>2. CASE UNCHANGED vars
  BY <1>2, Groups, GroupsNext DEF vars, monitor, handler, registry, sockets, net, client, service,
     Msgs, Conns, Wires, Clients, Counts
<1>. QED BY <1>1, <1>2

LEMMA Inductive == IInv /\ [Next]_vars => IInv'
<1>. SUFFICES ASSUME IInv, [Next]_vars PROVE IInv'
  OBVIOUS
<1>1. TypeOK' /\ Lock'
  BY TypeStep, LockStep DEF IInv
<1>2. ASSUME NEW v \in Users
      PROVE  Stream(v)'
  BY HandlingStream, ServerStream, ClientStream, ClientReadsStream, OtherStream DEF Next
<1>3. \A v \in Users : Forwarder(v)' /\ Upward(v)' /\ Downward(v)'
  BY ForwarderStep, UpwardStep, DownwardStep
<1>. QED BY <1>1, <1>2, <1>3 DEF IInv

\* Every variable keeps to its range (TcpTunnel).
THEOREM TypeCorrect == Spec => []TypeOK
<1>1. IInv => TypeOK
  BY DEF IInv
<1>. QED BY <1>1, InitOK, Inductive, PTL DEF Spec

\* Whoever keeps WriteMu over a step waits for its data channel, so that it is given
\* back without the monitor's read loop (ensureDataChannelForStream).
THEOREM Holder == Spec => []HolderWaits
<1>1. IInv => HolderWaits
  BY Groups DEF IInv, Lock, HolderWaits, Conns
<1>. QED BY <1>1, InitOK, Inductive, PTL DEF Spec

\* A stream that has ended does not come back to the client's maps, whatever is still
\* under way (forwardTCPConnectionOverWS, handleTCPConnect).
THEOREM Ended == Spec => []EndedIsGone
<1>1. IInv => EndedIsGone
  BY DEF IInv, Stream, EndedIsGone
<1>. QED BY <1>1, InitOK, Inductive, PTL DEF Spec

\* The upstream service gets what the user sent, in order and without a hole but what
\* was dropped on purpose (registerTCPStreamPlaceholder, handleTCPDataBinary).
THEOREM Kept == Spec => []UploadKept
<1>1. ASSUME IInv, NEW u \in Users
      PROVE  InOrder(gotUp[u], skipped[u], 0)
  <2>1. /\ gotUp[u] \in Seq(Nat) /\ taken[u] \in Nat
        /\ Pieces(gotUp[u], toC[u], taken[u], skipped[u])
    BY <1>1, Groups DEF IInv, Upward, Counts
  <2>2. ASSUME NEW i \in 1 .. Len(gotUp[u]), NEW b \in Nat,
               b = IF i = 1 THEN 0 ELSE gotUp[u][i - 1]
        PROVE  gotUp[u][i] > b /\ \A n \in (b + 1) .. (gotUp[u][i] - 1) : n \in skipped[u]
    <3>1. gotUp[u][i] \in 1 .. taken[u] /\ Len(gotUp[u]) \in Nat
      BY <2>1 DEF Pieces
    <3>2. gotUp[u][i] > b
      BY SMTT(30), <2>1, <2>2, <3>1 DEF Pieces, Sorted
    <3>3. ASSUME NEW n \in (b + 1) .. (gotUp[u][i] - 1), NEW j \in 1 .. Len(gotUp[u]), gotUp[u][j] = n
          PROVE  FALSE
      <4>1. gotUp[u][j] \in 1 .. taken[u]
        BY <2>1 DEF Pieces
      <4>2. j < i
        BY <2>1, <3>1, <3>3, <4>1 DEF Pieces, Sorted
      <4>3. i - 1 \in 1 .. Len(gotUp[u]) /\ b = gotUp[u][i - 1] /\ (j = i - 1 \/ j < i - 1)
        BY <2>2, <3>1, <4>2
      <4>4. gotUp[u][j] <= b
        <5>1. CASE j = i - 1
          BY <2>2, <4>1, <4>3, <5>1
        <5>2. CASE j < i - 1
          <6>1. gotUp[u][j] < gotUp[u][i - 1]
            BY <2>1, <4>3, <5>2 DEF Pieces, Sorted
          <6>. QED BY <2>2, <4>1, <4>3, <6>1
        <5>. QED BY <4>3, <5>1, <5>2
      <4>5. n > b
        BY <2>2, <3>1, <3>3
      <4>. QED BY <2>2, <3>3, <4>1, <4>4, <4>5
    <3>4. ASSUME NEW n \in (b + 1) .. (gotUp[u][i] - 1)
          PROVE  n \in skipped[u]
      <4>1. n \in 1 .. gotUp[u][i]
        BY <2>2, <3>1
      <4>2. In(gotUp[u], n) \/ n \in skipped[u]
        BY <2>1, <4>1 DEF Pieces
      <4>. QED BY <3>3, <4>2 DEF In
    <3>. QED BY <3>2, <3>4
  <2>3. \A i \in 1 .. Len(gotUp[u]) : (IF i = 1 THEN 0 ELSE gotUp[u][i - 1]) \in Nat
    BY <2>1
  <2>. QED BY <2>2, <2>3 DEF InOrder
<1>2. ASSUME IInv, NEW u \in Users, Whole(u), NEW n \in 1 .. taken[u]
      PROVE  n \in Elements(gotUp[u]) \cup Elements(toC[u]) \cup skipped[u]
  BY <1>2 DEF IInv, Upward, Whole, Alive, Cover, In, Elements
<1>3. IInv => UploadKept
  BY <1>1, <1>2 DEF UploadKept
<1>. QED BY <1>3, InitOK, Inductive, PTL DEF Spec

\* What a user gets its own upstream service has sent, in order, without a hole but what
\* was dropped on purpose; only its beginning may be missing (OnTCPData,
\* handleBinaryMessage).
THEOREM Contiguous == Spec => []DownloadContiguous
<1>1. ASSUME IInv, NEW u \in Users, gotUser[u] # <<>>
      PROVE  /\ InOrder(gotUser[u], missed[u], gotUser[u][1] - 1)
             /\ gotUser[u][Len(gotUser[u])] <= answered[u]
  <2>1. /\ gotUser[u] \in Seq(Nat) /\ answered[u] \in Nat
        /\ Ordered(gotUser[u], answered[u], missed[u])
    BY <1>1, Groups DEF IInv, Downward, Counts
  <2>2. Len(gotUser[u]) \in Nat /\ 1 \in 1 .. Len(gotUser[u]) /\ Len(gotUser[u]) \in 1 .. Len(gotUser[u])
    BY <1>1, <2>1
  <2>3. \A i \in 1 .. Len(gotUser[u]) : gotUser[u][i] \in 1 .. answered[u]
    BY <2>1 DEF Ordered
  <2>4. ASSUME NEW i \in 1 .. Len(gotUser[u]), i # 1
        PROVE  /\ gotUser[u][i] > gotUser[u][i - 1]
               /\ \A n \in (gotUser[u][i - 1] + 1) .. (gotUser[u][i] - 1) : n \in missed[u]
    <3>1. i - 1 \in 1 .. Len(gotUser[u]) /\ i = (i - 1) + 1
      BY <2>2, <2>4
    <3>2. /\ gotUser[u][i - 1] < gotUser[u][i]
          /\ Left(gotUser[u][i - 1], gotUser[u][i], missed[u])
      BY <2>1, <3>1 DEF Ordered
    <3>. QED BY <2>3, <3>1, <3>2 DEF Left
  <2>5. /\ gotUser[u][1] > gotUser[u][1] - 1
        /\ ((gotUser[u][1] - 1) + 1) .. (gotUser[u][1] - 1) = {}
    BY <2>2, <2>3
  <2>6. InOrder(gotUser[u], missed[u], gotUser[u][1] - 1)
    BY <2>4, <2>5 DEF InOrder
  <2>. QED BY <2>1, <2>2, <2>3, <2>6
<1>2. IInv => DownloadContiguous
  BY <1>1 DEF DownloadContiguous
<1>. QED BY <1>2, InitOK, Inductive, PTL DEF Spec

=============================================================================
