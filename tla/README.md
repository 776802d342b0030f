# A formal model of inlets

inlets exposes local HTTP and TCP services through a public server: a tunnel
client behind NAT keeps a *monitor* WebSocket to the server, the server accepts
browsers and TCP users, and forwards what they send over that WebSocket (HTTP)
or over one *data channel* WebSocket per TCP stream.

This directory holds TLA+ models of the Go code, TLC configurations that check
them on small instances, and TLAPS proofs for all instances. Paths below are
relative to the repository's `internal/`.

    tlc -config HttpTunnel.cfg MCHttpTunnel      # check a run
    tlapm HttpTunnelProofs.tla                   # check its proofs

## Inventory

| Component | State | Operations | Who else touches it |
|---|---|---|---|
| HTTP tunnel (`server/tunnel/http.go`) | `CallbackContainer`, `streamResp`, a timer per request, the hijacked connection | `handleConnection`, `processRequest`, `processRequestStream`, `dispatchSemanticClientResponse`, timers, deferred clean-up | monitor read loop (`handleResponse`), domain map, limiter |
| Protocol adapter, receiving (`server/protocol/binary.go`, `stream_manager.go`, `flow_controller.go`) | `streams`, each `Stream`, `windows` | `handleBinaryMessage`, `EnsureStream`, `AddChunk`, `cleanup`, `Receive`, `ReleaseReceiveWindow` | read loops of monitor and data channels, cleanup loop |
| Protocol adapter, sending, wire format | send windows, sequence counters | `sendDirect`, `sendStreaming`, `TrySend`, `SendTCPData`, `BuildBinaryMessage` | tunnels |
| Monitor channel (`server/channels/monitor`) | per connection: auth state, container, adapter | `handleAuthenticate`, `handleResponse`, `handleDisconnect`, `negotiateCapabilities` | containers, domains, adapters |
| Containers and domains (`server/container`) | `TunnelMapping` per client, `DomainMapping` per sub-domain | `Create`, `Set`, `BindWS`, `UnbindWS`, `RegisterRequest`, `ConnectRequest` | everything |
| TCP tunnel (`server/tunnel/tcp.go`) and data channel (`server/channels/data`) | listeners, ready channels, relays | `CreateServer`, `handleSourceConnection`, `ensureDataChannelForStream`, `setupTCPStreamOverWebSocket` | adapter, HTTP upgrades |
| Tunnel client (`client`) | monitor connection, heartbeat timers, reconnect timer, upstream streams, data channels | `authenticate`, `reconnect`, `handleDisconnect`, `sendPing`, `handleHTTPRequest*`, relays | server |
| Limiter, statistics (`server/limiter`, `server/stats`) | token buckets per client and one for all | `CheckUpload`, `CheckDownload`, `UpdateLimits` | tunnels, reload |
| Server, configuration, admin (`server/server.go`, `server/config`, `server/admin`) | current configuration, its file, revisions, the console's listener | `Manager.Reload`, `UpdateConfig`, `ReconcileAdmin`, `SaveRaw`, `Restore` | limiter, the operator's editor, inotify, SIGHUP |
| Legacy channels, forwarder, notifications, command line, admin front end | | | not modelled, see below |

What makes these parts hard: nearly every operation runs on a goroutine of its
own (one per browser connection, one per timer, one per WebSocket read loop,
cleanup loops), they meet in maps behind separate mutexes, pointers read under
a mutex are used after it, connections break at any moment, and the client
reconnects while answers of its last session are still in flight. What each
component owes:

- HTTP tunnel: one answer for a request, at most and (with its timeout) at
  least; nothing kept for a connection that has ended; streamed frames in order;
  an upgrade's handler is neither forgotten nor let go early.
- Receiving adapter: whole messages or none, no write into a destroyed stream,
  the window comes back, no lock-out.
- Monitor channel, containers, domains: a bound sub-domain belongs to the
  session that lives; what an authentication created is gone after it failed or
  its session ended.
- TCP tunnel: bytes in order and without a hole, from the first one on although
  they may overtake the message that opens the stream; a stream that ended stays
  ended; nobody keeps the container's write mutex for good.
- Client: one session at a time, a lost session leads to a reconnection or to
  exit, nothing of an old session is taken for the new one's.
- Sending adapter and the client's forwarding: an upstream service sees a whole
  request or no end of it; one answer; one owner of a connection.
- Limiter: no more than the limit passes, however checks and reloads interleave.
- Configuration: what is in force is what was saved last; it can be restored; one
  console.

## Modules

| Module | Models | Proofs |
|---|---|---|
| `HttpTunnel` | a request from the browser to its answer: handlers, callbacks, timers, streaming sessions, upgrades | `HttpTunnelProofs` |
| `WholeDelivery`, `Reassembly` | the receiving adapter, and what it promises | `ReassemblyProofs` |
| `MonitorSession` | authentication, sub-domains, containers, listeners, disconnection | `MonitorSessionProofs` |
| `ClientSession` | the client's connections, heartbeat, timers and reconnection | `ClientSessionProofs` |
| `TcpTunnel` | a TCP user's connection, its data channel, the client's stream map and relays | `TcpTunnelProofs` |
| `RequestPath` | a request on its way to the upstream service: three ways of sending, the send window, the client's forwarding | `RequestPathProofs` |
| `Limiter` | buckets, checks and the reload of limits | `LimiterProofs` |
| `Configuration` | the file, its watcher, reloads, the admin console that saves and is restarted | `ConfigurationProofs` |

They meet at narrow places, and each models what it needs of its neighbours as an
environment: `HttpTunnel` has the client as far as the server sees it,
`RequestPath` what goes the other way; `ClientSession` has a server that accepts
a session, or refuses it because an earlier one holds its name, which is what
`MonitorSession` does; `TcpTunnel` takes the loss of the monitor session as one
event and the container's end as another, which `MonitorSession` has in full;
`RequestPath` takes a chunked message in as `Reassembly` gives it out. The
`MC` module of each gives TLC constants and symmetry.

Every module starts from the same convention: a step is the code between two
points where another goroutine, timer or peer can come in, so that two fields
behind one mutex change together and two behind two mutexes do not. A write to a
connection that is lost may succeed or fail. Definitions named in a comment as
*faulty variants* (`NoEntry`, `Kept`, ...) are used by nothing: they are the
plausible bugs with which the properties were tested.

## HttpTunnel

One variable per piece of state: `callback` is the key set of
`CallbackContainer`, `session` that of `streamResp`, `timer` the
`time.AfterFunc` of a request, `handler` the program counter of a
`handleConnection` goroutine, `reader` what a monitor read loop holds between
looking something up and writing it, `wire` what a browser has been sent. Each
action is the code between two points where another goroutine may come in:

- `Refuse`, `Unauthorized`, `Register`, `SendAll`, `SendHead`, `SendBody`,
  `SendFail`, `Unblock`, `Cleanup`: the handler;
- `TimerFire`, `TimerTake`, `TimerWrite`: the timer expires (from then on `Stop`
  comes too late), takes the callback, writes the 504;
- `Receive`, `Answer`, `Switching`, `DataChannelUp`, `DataChannelFails`,
  `Dispatch`: the read loop takes a callback or looks a session up, and writes;
- `ClientAnswers`, `ClientStreams`, `LinkUp`, `LinkDown`: the client, as far as
  the server can see it; `RelayEnds`: the end of a WebSocket relay.

A bandwidth refusal is a choice any write may take (`Deliver`, `Dispatch`). A
write to a connection that is closed changes nothing. Data sent by the client
is cut off at any point when its session breaks, and frames of an old session
may still be read by its loop beside those of a new one. Modes of a request:
`buffered`, `stream`, `upgrade`, and `lapsed` (the mapping could relay when the
handler looked, and could not when `processRequest` looked again).

| Run | Bounds | Shows |
|---|---|---|
| `http_tunnel` | 2 connections, 2 requests, of which at most one is streamed and at most one an upgrade, 1 session, no body frames | `TypeOK`, `AnswerOnce`, `PendingIsGuarded`, `DoneIsClean`, `NothingLost` |
| `http_sessions` | 1 connection, 1 request, 2 sessions, 1 body frame before the last | `StreamInOrder`, `BufferedAnswered`, `UpgradeReleased` |

Two connections are needed for one connection's clean-up to meet another's
requests, two requests for pipelining (the constraint `OneOfAKind` leaves out two
streams or two upgrades at once, which the proofs cover); two sessions for a
reconnection under an open request; one body frame gives head, body and last as
three different frames. Deadlock is not checked: the system stops when every connection is done.

Fairness: a goroutine of the server that can run does run (`WF` on sending, on
leaving `<-u` and cleaning up, on each read loop), an armed timer expires. A
handler that waits for a browser's body, the browser, the client and the links
owe nothing.

`StreamInOrder` is stated for the client's first session: frames carry no
session and their sequence number is not read, so that the read loops of two
sessions can interleave one response.

### Proofs (`HttpTunnelProofs`)

For every set of connections and requests, any number of sessions and body
frames: `TypeCorrect`, `AnsweredOnce` (`AnswerOnce`), `CleanedUp` (`DoneIsClean`),
`GuardedPending` (`PendingIsGuarded`), `AnswerFinds` (`NothingLost`) and
`StreamedInOrder` (`StreamInOrder`).

`AnswerOnce` is not inductive. The strengthening is a token: for each request at
most one of *its key is in the callback container*, *its timer's goroutine has
taken it*, *one read loop holds a whole response of it*, *a whole response is on
the wire* is true, and a request without a connection has none of them. Every
action moves a request's token along or leaves it where it is (`TokenMoves`,
`TokenStays`). `DoneIsClean` and `PendingIsGuarded` use that a request in a
container came in on a connection whose handler knows it.

`NothingLost` speaks of requests that have reached the client, which says too little
to be inductive: `Timed` adds that each of these was registered first, and `Remains`
says of every registered request, sent or not, what is left of it: its callback,
a timer that has taken it, a read loop with a whole response, something on the wire
that ends an answer, or a connection that is no longer open. A frame of a streamed
response that a read loop holds is none of these; it does not have to be, because
a stream's callback goes only with its last frame or with the connection.

`StreamInOrder` is about what was written; the invariant `InOrder` says the same of
the three places a response passes through. Two frames on the uplink, a frame on
the uplink and one in a read loop's hands, and either of these and what is on the
wire stand in the relation `Precede`, and `Flows` ties them to the client: nothing
is anywhere until it answers, and only a beginning while it streams. `Ahead` says
that sessions to come are unused, so that there is one uplink and one read loop
before a reconnection. A 101 counts as in hand until the data channel is up or has
failed, and what it turns into (a 502) keeps its place.

## Reassembly

`handleBinaryMessage` of one adapter, called by several read loops, with the
cleanup loop of the stream manager beside them. A goroutine's steps lie between
the points where it acquires `FlowController.mu` (`fcMu`), `StreamManager.mu`
(`smMu`) or a `Stream.mu` (`sMu`); the mutexes that are held over another
acquisition are variables, so that lock-outs are behaviours of the model.
`<<id, generation>>` is a `Stream` object: an evicted one may be created anew.

- `Read`, `Receive`, `PauseGet`, `Pause`: a message is charged to the receive
  window; a full window pauses its stream, under `FlowController.mu`;
- `EnsureStream`, `Lookup`, `AddChunk`: the streaming path; `Handle`: the direct;
- `Release`, `ResumeGet`: the window is released, after a direct message or
  inside `OnComplete`, which runs under `Stream.mu`;
- `RemoveWindow`: `RemoveDataChannelForStream`;
- `Scan`, `Mark`, `Remove`, `Destroy`: cleanup.

`Stream.Resume` is no step: whoever gets there holds the mutex it asks for
(theorem `SelfLock`).

`WholeDelivery` is the abstract specification: what a handler was given is
nothing, or the whole message, once. `WholeOrNothing` is its `Spec` under the
mapping that keeps `out`.

| Run | Bounds | Shows |
|---|---|---|
| `reassembly` | 2 read loops, 1 streamed message and 1 TCP stream of 3 chunks, window of 2, 2 generations, all four capability sets | `TypeOK`, `NoWriteAfterDestroy`, `WindowRestored`, `NoCircularWait`, `WholeOrNothing` |
| `reassembly_self_lock` | 2 chunks, window of 1, streaming and flow control both agreed | `HandlerReturns` violated: finding, below |

`NoCircularWait` is stated for sessions that did not agree on both features:
among three kinds of mutexes, taken in different orders by different paths, no
set of goroutines waits for each other.

Three chunks with a window of two fill the window and leave a gap to reassemble
around; two generations give a late chunk an old and a new object. Fairness is
strong for goroutines that wait for a mutex: a `sync.Mutex` that is free again
and again is handed to a waiter in the end. What is sent is read in any order
(chunks of one id never are in the code's sender, but data and monitor channels
are two connections).

### Proofs (`ReassemblyProofs`)

For any number of read loops, messages, chunks, window, generations and any
capabilities: `TypeCorrect`, `NoLateWrite`, `SelfLock` and `Implements`
(`Spec => WholeOrNothing`).

The inductive invariant `IInv` has three layers. `Pointers`: what a goroutine's
program counter says it has, it has; what the cleanup loop looks at stays
registered, and ignores chunks once marked. On it rests `NoWriteAfterDestroy`: a
stream leaves the map only when it ignores chunks, and it does so for good
(`IgnoresForGood`). `OnePlace`: a chunk is on its way, with one read loop, or in
streams, never in two of these; so that a read loop that completes a stream took
the last chunk of that id there is, and no other stream can complete under it
(`DeliveredStep`). `Locked`: whoever calls `OnComplete` holds its stream, and
the stream stays registered until it lets go (`HeldStep`). `ReadyRun` and
`TryReassemble` say what one pass of `tryReassemble` returns: the next chunks,
without a gap, up to the last.

`WindowComesBack` (`WindowRestored`): while several goroutines charge one window,
"some goroutine still has to release it" is not inductive. `Owed` counts: what a
window lacks is no more than the number of its `Debtors`, the goroutines between the
charge and the release, so that without debtors it is whole. `NoCircle`
(`NoCircularWait`): `Owners` says at which steps a mutex is kept over another
acquisition, and `Unused` what nobody touches when a capability was not agreed.
Without flow control only the cleanup loop keeps a mutex anybody waits for, without
streaming only the owner of `FlowController.mu`, and neither of them waits.

The assumption is `ReassemblyAssumption`: read loops and the cleanup loop are
different goroutines, no id is both streamed and direct, and `None` is none of the
things it stands beside (no pointer, no chunk, no number).

## MonitorSession

The monitor connections of the server: `HandleConnection`, `handleAuthenticate`
and `handleDisconnect`, the containers and sub-domains behind them, and the
public listener of a TCP tunnel. `<<c, n>>` is the session that the n-th
authentication on connection `c` creates; it stands for the container's id and
for the generated sub-domain. `pc` is where a connection's read loop is, `sv`
where the goroutine of a session's listener is, `hosts` and `containers` are the
two maps, `server` is `SourceServer`, `listening` the port the operating system
has open, which is not the same thing.

- `Connect`, `Authenticate`, `Create`, `Has`, `Bind`, `Reply`: the read loop, one
  step per mutex it takes; `Fail` ends it without a clean-up, as the code does;
- `Notice`, `Unbind`, `Destroy`: `handleDisconnect`;
- `AuthTimeout`, `Expire`: the two timers; `Break`: the client or the network;
- `Listen`, `Attach`, `AcceptFails`: `CreateServer` up to `net.Listen`, the rest
  of it, and the end of the accept loop, which calls `CreateServer` anew.

Checks of tokens, versions and signatures are a choice (`Authenticate` may fail).
Capabilities, edge authentication, statistics and notifications change nothing
here. `req.public` says that `shouldApplyPublicMonitorSessionTTL` holds.

| Run | Bounds | Shows |
|---|---|---|
| `monitor_session` | 2 connections, 1 sub-domain, 2 ports, 1 authentication each | `TypeOK`, `MappedIsLive`, `ServedIsOpen`, `PortFreed`, `CutOff` |
| `monitor_names` | the same | `NameIsOwn` violated: finding, below |

`CutOff` says that a connection that does not authenticate, and a public session
whose time is over, are ended.

Two connections are needed for two clients that want one name or one port.
`MaxAuths = 1` is what the stock client does; a second authentication on one
connection leaks the first one's container and leaves its sub-domain mapped
(with `MaxAuths = 2` TLC finds `MappedIsLive` violated). Connections are not
used again, so that a reconnection is another connection.

Fairness: read loops run, armed timers fire, the goroutine of a listener runs,
and a listener that was closed wakes its accept loop. That a connection breaks,
that a client authenticates and that `Accept` fails for another reason is never
assumed.

### Proofs (`MonitorSessionProofs`)

For any connections, sub-domains and ports: `TypeCorrect`, `Served`
(`ServedIsOpen`), for any number of authentications, and `MappedLive`
(`MaxAuths = 1 => MappedIsLive`), which a second one breaks.

The inductive invariant `IInv` is `TypeOK`, `Asking` (who is authenticating has
asked for something, who is binding for a sub-domain) and `Serving` (the goroutine
of a listener belongs to a TCP session whose authentication is over; its listener
is open from the moment it is bound, and `SourceServer` is the one it accepts
from). `ServedIsOpen` alone is not inductive: the goroutine that closes a listener
and the one that attaches it meet only through the container. `Mapping` adds
which session a sub-domain leads to: the last that bound it, on a connection that
has not unbound it. A step of a connection that leads nowhere cannot harm the
mappings of the others (`MappingOthers`), even if it binds or unbinds their name.

## ClientSession

The client's side of a session. Goroutine 0 is that of `Run`, goroutine `s` the
read loop of the `s`-th connection; beside them run the callbacks of `pingTimer`
and `pingTimeoutTimer`. They share the client's fields (`monitorConn`, `closing`,
`monitorAuthOK`, `containerId`, the timers), mostly without a lock, and the model
has these fields under their names.

- `Dial`, `Begin`, `Authenticate`, `Spawn`, `Settle`: `Run` and the second half of
  `reconnect`, in the two orders they have;
- `Authenticated`, `Rejected`, `Pong`, `OpenChannel`, `Opened`, `ReadFails`: the
  read loop, which dials data channels itself and reads no pong meanwhile;
- `Disconnect`, `Retry`, `Reset`, `Close`: `handleDisconnect`,
  `tryReconnectMonitor` and the first half of `reconnect`;
- `PingFires`, `SendPing`, `ArmTimeout`, `TimeoutFires`, `Mark`, `StopHeartbeat`,
  `CloseConn`, `LateDisconnect`: the heartbeat's callbacks, one step per field;
- `AuthExpires`, `ReconnectExpires`: the timers that end the process; they last
  30 seconds and 51 minutes, and run out while the goroutines wait for the network;
- `Break`, `Answer`, `Notice`, `Want`, `ChannelEnds`: the network and the server,
  which refuses a session while an earlier one holds its name.

| Run | Bounds | Shows |
|---|---|---|
| `client_session` | 2 connections, 1 stream | `ReadsItsOwn`, `AuthOfThis`, `ChannelsOfThis`, `LossEnds` |

Two connections are a loss and its reconnection; a third would repeat the second.
One stream is enough for a data channel whose dial outlives its session. Fairness:
goroutines run, timers fire, the server answers and finds out that a connection is
gone; that a connection breaks, or that a stream is wanted, is not assumed.
`LossEnds` is about losses the client recognises: a read error other than a
close, a reset or an EOF ends the read loop, and only the heartbeat, if it runs,
notices.

### Proofs (`ClientSessionProofs`)

For any number of connections and streams: `Owns` (`ReadsItsOwn`), `Renewed`
(`AuthOfThis`) and `Channels` (`ChannelsOfThis`). The invariant has four parts.
`Turn`: exactly the last connection's goroutine, or the one that is about to
start it, moves; `AuthOf`: who is authenticated has the container of the
connection in use, and nobody is between a closed connection and the next;
`Asked`: the server asks for a data channel only behind its acceptance, in the
same ordered connection, so that `Opened` finds the right container id; `Opens`:
a data channel has the container id of the moment, which is the connection's.
`ChannelsOfThis` needs the last two: without them a dial that began before the
ping timeout closed everything could register its channel for the next session.

## TcpTunnel

Users' connections under one monitor session: the server's handler and upload
loop of each, the data channel's read loops on both ends, the monitor's two read
loops, and the client's forwarder. `srv`, `dch`, `fwd` and `rd` are program
counters, `wire` a data channel's WebSocket, `toC` and `toS` the pieces on it,
`dataHandlers` and `closeHandlers` the registrations by `OnTCPData` and
`OnTCPClose`, `dataSockets` and `dataChannels` what the container and the adapter
know of data channels, `dataConns` and `tcpStreams` what the client knows.
Pieces are numbered; 0 stands for a `TCPClose`.

- `Accept`, `Ask`, `Proceed`, `Expire`, `Connect`, `StartUpload`, `Subscribe`: the
  handler; `WriteMu` is kept from `Ask` to `Proceed` or `Expire`;
- `Upload`, `UploadEnds`: the upload loop, which starts before the registrations;
- `ServerReads`: the monitor's read loop, which needs `WriteMu` to answer a ping;
- `Upgrade`, `Register`, `SetDataChannel`, `DataRead`, `DataEnds`: the data
  channel on the server;
- `ClientReads`, `Opened`, `DialFails`: the client's monitor loop, dials included;
- `DialUpstream`, `RelaySends`, `RelayEnds`: the forwarder; `DataIn`, `GiveUp`,
  `ChannelEnds`: the client's data loop, where a piece waits for its stream;
- `Leave`, `UpstreamEnds`, `Break`, `Ping`, `Lose`, `ClientLoses`, `Destroy`: the
  rest of the world.

| Run | Bounds | Shows |
|---|---|---|
| `tcp_tunnel` | 2 users, of which one sends 1 piece and the other is sent 2; 1 event | `UploadKept`, `DownloadContiguous`, `EndedIsGone`, `HolderWaits` |

`MaxEvents` bounds what is out of the ordinary: pings, departures, refused pieces,
failed dials, losses. One such event at any point, with two users, is enough for
each of the properties to be broken by its variant, and two answers are enough
for a hole between them. No liveness is stated here: a half-closed relay may
stay for good (below).

### Proofs (`TcpTunnelProofs`)

For any users, numbers of pieces and events: `Kept` (`UploadKept`), `Contiguous`
(`DownloadContiguous`), `Ended` (`EndedIsGone`), `Holder` (`HolderWaits`), `TypeCorrect`. `Lock` says that a
handler is waiting for its data channel exactly when it has `WriteMu`. `Stream`
follows the two messages a handler sends to the client: the request for a channel
is sent once, and it is read, and its dial over, before `tcp:connect` is read, so
that nothing that is still under way can bring the stream's entry back once a
forwarder has come and gone. `Forwarder` ties the entry in the stream map and the
connection to the upstream service to the forwarder's progress: a read loop that
finds no entry has a forwarder that is done. `Upward` is about the pieces:
what the upstream service got and what is on the channel are two sorted
sequences, one above the other, with nothing missing in between but what was
dropped on purpose, and together they reach the last piece taken from the user
while the channel and both ends last. `SendPiece`, `SkipPiece`, `DeliverPiece`,
`DropPiece` and `ClearPieces` are the five things that can happen to them.
`Downward` is about the other direction. The pieces on the channel are numbered
without a gap and, while the channel lasts, end with the last one read from the
service (`Numbered`); what the user got lies below them, and every piece in between
was dropped with an event (`Ordered`, `Ahead`). A relay does not start before its
`tcp:connect`, so nothing comes before the first piece but a close notification
of a dial that failed, which is alone on the channel.

## RequestPath

A request from the server's handler to the upstream service, in the three ways
the code has: one message, chunks under a send window, or a head and pieces of a
body. `wire` is the monitor channel, `loop` the frame the client's read loop
deals with, `httpStreamSess` the client's map of half-sent requests, `conn` and
`got` the connection to the upstream service and what it was given.

- `Begin`, `SendDirect`, `SendPart`, `BodyCut`, `SendChunk`, `GiveUp`: the sender;
  `Destroy` clears the windows under whoever waits; `Lose`, `Cut`: the network;
- `ClientReads`, `HeadDone`, `BodyDone`: the client's read loop; `Forward`,
  `ReadResponse`: the goroutine for what is left.

| Run | Bounds | Shows |
|---|---|---|
| `request_path` | 2 requests of up to 3 parts, window of 2, every set of capabilities | `UpstreamGetsWhole`, `RepliesOnce`, `OneOwner`, `SendReturns`, `SentIsAnswered` |

Three parts are a first, a middle and a last; with a window of two the third
waits. Two requests share the read loop and the map. Fairness: `SendDirect`,
`SendChunk`, `GiveUp` (a wait with a deadline), the client's read loop and its
goroutines run. A browser owes nothing, so that sending a body may never end, and
`SendReturns` is not stated for it.

### Proofs (`RequestPathProofs`)

For any requests, parts and window: `Whole` (`UpstreamGetsWhole`), `Once`
(`RepliesOnce`) and `Owned` (`OneOwner`). For each request there is a number `e`
such that the client has taken in `e` of its parts, and the frames of it on the
wire are `e`, `e + 1`, ... in this order, up to the last that was sent while the
session lasts (`Run`, `Full`). `Taking` says what `e` tells of the client: which
of map, read loop and goroutine has the connection, how much the upstream
service got, whether an answer was sent. Frames of other requests in between do
not matter, so that a step of one request leaves the `e` of the others alone.

## Limiter

Token buckets, one per client with a limit and one for all, each behind its mutex
and the table behind another. A check takes up to nine steps (of `Begin`,
`CheckAlone`, `ConsumeAlone`, `ReadLimit`, `GetBucket`, `CanOwn`, `CanAll`,
`AskAll`, `TakeAll`, `GiveAll`, `TakeOwn`), among which other checks, the passing
of time (`Refill`) and `UpdateLimits` come. A bucket is named by the update that
made it and its owner; a check from before an update may hold an old one.

The field of the shared bucket is read under no mutex. `CheckAlone`, `CanAll` and
`TakeAll` are the three places that ask whether it is nil, `ConsumeAlone`, `AskAll`
and `GiveAll` the calls behind them: these are of a bucket the field has held at
some moment since (`Found`), because the compiler may read it once or twice, and
where an update has left none they panic.

| Run | Bounds | Shows |
|---|---|---|
| `limiter` | 2 checks at a time, 2 clients, messages of 1 and 2 bytes, 3 sets of limits, 1 update, 1 byte gained per bucket: 7.3 million states | `OwnRateKept`, `TotalRateKept`, `LimitsFollow` |

Checks begin anew when they have ended, so that the number of messages is not
bounded. In the sets of limits the first client's own limit is the smaller one, or
the shared one is, or only the second client has one and nothing is shared, so
that the update may take the shared bucket away. Safety only.

`OwnRateKept` and `TotalRateKept` count the checks that began since the last update
against the buckets that update made. They bound no stretch of time across an
update: in one, a full old bucket and a full new one may pass.

### Proofs (`LimiterProofs`)

`TypeCorrect` (no bucket is overdrawn, though what `CanConsume` has seen may be
gone when `Consume` comes), `RateKept` (`OwnRateKept`), `SharedRateKept`
(`TotalRateKept`) and `Follows` (`LimitsFollow`), for any checks, clients, sizes, limits and updates. The
invariant that carries `OwnRateKept` is a conservation law (`Conserved`): what
the bucket has left and what was admitted add up to no more than it had and
gained. It rests on `Places` (what a check of the last update has read) and
`Current` (the clients' buckets are those of the limits in force), which are what
`LimitsFollow` says of the checks. That none of them panics follows from where a
check has last seen the shared bucket: not before it began.

For the shared bucket such a law would need a sum: a check takes from it at `GiveAll`
and is counted, or refused, at `TakeOwn`, and any number of checks may be in between.
`Reserved` avoids the sum, which only induction over a set could handle: it lays what
these checks have taken side by side, each in a stretch of its own, in the first `r`
bytes of the bucket, and `r`, what is left and what was counted fit into what the
bucket had and gained. `GiveAll` puts a stretch at the end; `TakeOwn` turns one into
counted bytes and moves those above it down. A refused check leaves room that nobody
uses.

## Configuration

The configuration file as inodes, the goroutines that reload it (SIGHUP, the
watcher's timer, requests to the console) and the console a reload restarts.
`path` and `tmp` are names, `watched` is the inode the watch is on; `mu` is `Manager.mu`, `ref` and `limits` what is in force;
`adminServer`, `Admin` and `live` are which console the server has, where it
believes it to be, and which listen.

`os.WriteFile` truncates when it opens the file and writes from offset 0, and nothing
keeps two saves apart that have opened the same inode. `content` is therefore the set
of the texts an inode has bytes of: none (cut off), one (that text, whole) or several,
a shorter text followed by the end of a longer one, which nobody has written. `Size`
tells the lengths, `Over` what a write leaves of what is there. Whether a mixed file is
valid is `AdminOf`'s domain, as for any other; what is in force is therefore a content,
not a text.

- `Put`, `Restore`, `Reload`: what the console is asked; `OpenTmp`, `WriteTmp`,
  `Rename`, `Rewrite`, `RemoveTmp`: `writeFileAtomic` with its way out for a file
  that is a mount point of its own;
- `TimerFires`, `Hangup`, `Load`, `UpdateConfig`: `Manager.Reload`;
- `ReconcileAdmin`, `Stopped`, `Start`: stopping waits for the console's own
  requests, five seconds at most;
- `Edit`: an editor that writes in place, or renames over the file and so takes
  the watch away.

| Run | Bounds | Shows |
|---|---|---|
| `configuration` | 2 requests, 3 valid texts (console here, there, nowhere) of 2 lengths, 1 mixed text that is valid and 1 that is not, 1 edit, 5 inodes, 4 consoles, mounted or not | `TypeOK`, `SettledInForce`, `LoggedFirst`, `WholeOrInWork`, `OneConsole`, `RequestsReturn` |
| `config_console` | the same | `ConsoleListens` violated: finding, below |

Two requests share `path.tmp`, and one of them may stop the console of the other.
`WholeOrInWork` says when the file may be something nobody has written. Cut off: only
while a save that will write it has it open, and only if the file is mounted or a
second request has come. Mixed: only while a save has yet to rename or truncate, unless
the run is `Crowded`, by an edit, by two requests on a mounted file, or by three
requests; then a mixed file may stay, and be put in force. A lone edit and two requests
on a mounted file occur within the bounds, three requests only in the proof.
`LoggedFirst` says of a mixed file that each of its texts is a revision (it is none
itself), and `SettledInForce` holds of mixed files as of others.
The numbers of inodes and consoles are such that there is always a fresh one.
Fairness: requests and reloads go on, timers fire and `Shutdown`'s context runs
out; `Manager.mu`, which others take again and again, is given to a waiter in the
end (`SF`), as `sync.Mutex` does. A full disk is left out, and so is a reload that
reads the file between an editor's truncation and its write.

### Proofs (`ConfigurationProofs`)

`TypeCorrect`, `InForce` (`SettledInForce`), `Logged` (`LoggedFirst`), `FileInWork`
(`WholeOrInWork`), `Console` (`OneConsole`), for any requests, documents, inodes,
consoles and edits. `ToReload` is the heart of `SettledInForce`: whoever changed
the file leaves somebody who will reload it, be it the request itself, the
watcher's timer or the operator who knows that no event came. `UnderMu` and
`OneListens` say what the holder of the mutex has done and left to do, `Recorded`
that the text of a save is in the revision table wherever it has got to,
`OpenFiles` who has a file open that is cut off. `Shared` is what two saves may do to
each other while it is not crowded: a save that finds `path.tmp` gone has somebody to
thank for it who is past it, so that the fallback has nobody beside it, and a mixed
`path.tmp` has two savers who both wait to rename: the first puts it in place, the
second finds it gone and writes the file anew. `CrowdStays` lets the proof of a step
assume that it is not crowded after it either, and so before.

## Findings

1. **Streaming with flow control locks a read loop out** (`reassembly_self_lock`).
   Completing a stream resumes it under its own mutex. Both features must be
   agreed; the stock client does not announce HTTP streaming.
2. **One sub-domain, two sessions** (`monitor_names`). `Has` and `BindWSWithMetadata`
   are two critical sections; two clients that ask at once are both given the
   name, the second gets the first one's requests, and the disconnect of either
   unmaps the other.
3. **A console that disables itself does not come back** (`config_console`).
   `ReconcileAdmin` returns when `Shutdown` runs out of time, which it does if the
   reload is the console's own request, and leaves `adminServer` and
   `options.Admin` as they were. The next document with a console at that address
   changes nothing, and nothing listens: until a document puts the console at another
   address, or takes it away once more (there is no request to wait for now) before one
   brings it back, or the process is restarted.

Behaviours of the models that no run states as violations, worth knowing when the
code is changed:

- a streamed response whose session breaks after its first frame leaves the
  browser without an end: the first frame stopped the timer (`BufferedAnswered` is
  stated for buffered requests);
- a browser that asks for `Connection: close` may get no answer, because the
  handler leaves its loop when the request is sent and its clean-up drops the
  callback; and the timer's `finish()` can let an upgrade's handler go under a
  relay that has just been taken;
- a TCP connection that ends on one side may stay open on the other: the client's
  clean-up sends no `TCPClose`, the server's sends nothing, and a `TCPClose` that
  comes before `Subscribe` is lost, as are pieces for the user that do
  (`DownloadContiguous` lets the beginning be missing);
- the client exits instead of reconnecting when its session is refused because the
  server still holds the name (`Answer`), or when it was not yet authenticated;
- an entry of `httpStreamSess` whose body is cut off, or whose session is lost, is
  never removed;
- nothing outside the tests acknowledges chunks, so that a chunked message longer
  than the send window always ends by its deadline (`GiveUp`);
- a refused check keeps what it took from the shared bucket (`TakeOwn`), and a check
  during which a reload removes the shared bucket may call it all the same: a nil
  pointer, which ends the process if the check is a relay's (`Panics`);
- saves that overlap may leave a file of the shorter text and the end of the longer
  one, which stays, and is put in force if it is valid, where the file is mounted, a
  third save comes or an edit does (`Crowded`), although
  `docs/features/ADMIN_CONFIG_VISUALIZATION.md:85` has the file written atomically;
- an editor that renames over the configuration file ends the watch for good, and
  a revision whose save failed stays in the table.

## What is proved, and what is checked only

Every theorem holds for all values of the constants, under the named assumption of
its module (`...Assumption`: constants are of their kinds, ids of different kinds
differ). Assumptions are evaluated by every run.

Every safety invariant the passing runs check is a theorem too, as is the
refinement of `WholeDelivery`. Left to TLC are the properties under fairness
(`BufferedAnswered`, `UpgradeReleased`, `PortFreed`, `CutOff`, `LossEnds`,
`RequestsReturn`, `SendReturns`, `SentIsAnswered`), which the prover cannot handle,
and the three findings, which are counterexamples.

## Not modelled

Legacy channels (the old protocol's variant of the monitor and data channels), the
forwarder (a copy loop without shared state), notifications, the command line and
the admin front end (I/O). The start and stop of the server's listeners and its
PID file. Of the limiter, `SetClientLimit` and `RemoveClientLimit`, which nothing
calls; the counters of traffic statistics. Of the admin API, handlers that only
read, the audit log, the diff and the trimming of old revisions. Child clients
for the tunnels a server lists. Inside what is modelled: contents of messages,
the bytes of a frame, header rewriting, compression, logging, durations.
