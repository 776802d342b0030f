------------------------------ MODULE HttpTunnel ------------------------------
(***************************************************************************)
(* The HTTP side of the inlets server (internal/server/tunnel/http.go with *)
(* container/callback.go and handleResponse of channels/monitor/auth.go).  *)
(*                                                                         *)
(* A browser connection is hijacked and served by one goroutine            *)
(* (handleConnection).  For each request it registers a response callback, *)
(* a streaming session when the response may be streamed, arms a           *)
(* requestResponseTimeout timer and forwards the request to the tunnel     *)
(* client over the monitor WebSocket.  It does not wait for the answer:    *)
(* the read loop of the monitor connection, or the timer's goroutine,      *)
(* writes it to the browser's connection.                                  *)
(*                                                                         *)
(* Four kinds of goroutine meet here: the connection handlers, the timers, *)
(* the monitor read loops (one per monitor session) and the tunnel client. *)
(* Payloads are abstracted to the kind of thing the browser reads.         *)
(***************************************************************************)
EXTENDS Naturals, Sequences

CONSTANTS
    Conns,      \* browser connections (tcpID)
    Reqs,       \* requests (requestID)
    Links,      \* bound: monitor sessions of the tunnel client
    MaxBody,    \* bound: body frames of one streamed response
    None        \* "no request", "no connection", "no frame"

\* How a request is forwarded.  A "lapsed" upgrade is one whose handler saw a
\* domain mapping that can relay it and waits, while processRequest, which looks
\* the mapping up again, saw one that cannot.
Modes == {"buffered", "stream", "upgrade", "lapsed"}

\* What one write puts on the browser's connection.
StreamKinds == {"head", "headfin", "body", "bodyfin"}
WholeKinds  == {"full", "101", "504", "502"}
WireKinds   == StreamKinds \cup WholeKinds \cup {"401", "404"}

\* What the tunnel client sends up the monitor connection.
FrameKinds == StreamKinds \cup {"full", "101"}
Frames     == [req : Reqs, kind : FrameKinds]

\* The read loop is between frames, holds a frame it has looked up, or waits
\* for the data channel of a WebSocket upgrade.
Holding == [req : Reqs, kind : FrameKinds \cup {"ensure"}]

Sessions == 1 .. Links

ASSUME HttpAssumption ==
    /\ None \notin Reqs
    /\ None \notin Conns
    /\ None \notin Holding
    /\ Links \in Nat
    /\ MaxBody \in Nat

VARIABLES
    conn,     \* Conns -> "open", "closed" by the server, "gone": by the browser
    handler,  \* Conns -> where its handleConnection goroutine is
    cur,      \* Conns -> the request that goroutine is processing
    at,       \* Reqs  -> the connection the request came in on
    via,      \* Reqs  -> the monitor session whose adapter it is sent with
    mode,     \* Reqs  -> how it is forwarded
    lastReq,  \* Reqs  -> req.Close: no further request on the connection
    callback, \* the keys of CallbackContainer
    session,  \* the keys of HTTPTunnel.streamResp
    timer,    \* Reqs  -> its time.AfterFunc timer
    released, \* requests whose blockUntilDone has run
    relay,    \* upgrades whose raw relay is running
    wire,     \* Conns -> what has been written to the browser, in order
    live,     \* the current monitor session, 0 when there is none
    used,     \* monitor sessions so far
    uplink,   \* Sessions -> frames on their way to the server
    reader,   \* Sessions -> what its read loop holds
    client,   \* Reqs  -> the tunnel client's work on the request
    bodies    \* Reqs  -> body frames the tunnel client has sent

serverVars == <<conn, handler, cur, at, via, mode, lastReq, callback, session,
                timer, released, relay, wire>>
linkVars   == <<live, used, uplink, reader>>
clientVars == <<client, bodies>>
vars == <<serverVars, linkVars, clientVars>>

Init ==
    /\ conn = [c \in Conns |-> "open"]
    /\ handler = [c \in Conns |-> "read"]
    /\ cur = [c \in Conns |-> None]
    /\ at = [r \in Reqs |-> None]
    /\ via = [r \in Reqs |-> 0]
    /\ mode = [r \in Reqs |-> "buffered"]
    /\ lastReq = [r \in Reqs |-> FALSE]
    /\ callback = {}
    /\ session = {}
    /\ timer = [r \in Reqs |-> "unset"]
    /\ released = {}
    /\ relay = {}
    /\ wire = [c \in Conns |-> <<>>]
    /\ live = 0
    /\ used = 0
    /\ uplink = [l \in Sessions |-> <<>>]
    /\ reader = [l \in Sessions |-> None]
    /\ client = [r \in Reqs |-> "none"]
    /\ bodies = [r \in Reqs |-> 0]

-----------------------------------------------------------------------------
(* Writing to the browser, and the helpers the handlers share.  The operators
   SetUnderNoKey, TakeIsGet, NotArmed, FinishForgotten, RemoveForgotten,
   RemoveOfAll and MidStream are faulty variants of the ones that follow them;
   nothing uses them but the tests of the properties. *)

Piece(r, k) == [req |-> r, kind |-> k]

\* destroyConnection: a 404 is written and the connection closed; on a
\* connection already closed both do nothing.
Destroy(c, r) ==
    IF conn[c] = "open"
      THEN /\ wire' = [wire EXCEPT ![c] = Append(@, Piece(r, "404"))]
           /\ conn' = [conn EXCEPT ![c] = "closed"]
      ELSE UNCHANGED <<wire, conn>>

\* tcpConn.Write of one piece.  On a closed connection it fails and the code
\* calls destroyConnection, which changes nothing more.
Put(c, r, k) ==
    /\ wire' = IF conn[c] = "open"
                 THEN [wire EXCEPT ![c] = Append(@, Piece(r, k))]
                 ELSE wire
    /\ UNCHANGED conn

\* The tail every response path shares: CheckDownload may refuse the bytes, and
\* then the browser gets destroyConnection's 404 instead.
Deliver(c, r, k) == Put(c, r, k) \/ Destroy(c, r)

StopTimer(r) ==
    timer' = [timer EXCEPT ![r] = IF @ = "armed" THEN "stopped" ELSE @]

\* CallbackContainer.Set.
SetUnderNoKey(r) == callback \cup {None}
Set(r) == callback \cup {r}

\* CallbackContainer.Take: fetch and remove in one step.
TakeIsGet(r) == callback
Take(r) == callback \ {r}

\* time.AfterFunc(requestResponseTimeout, ...).
NotArmed(r) == timer
Arm(r) == [timer EXCEPT ![r] = "armed"]

\* finish(): an upgrade's blockUntilDone, once.
FinishForgotten(r) == released
Finish(r) == IF mode[r] = "upgrade" THEN released \cup {r} ELSE released

\* CallbackContainer.Remove(tcpID) and the same loop over streamResp.
RemoveForgotten(S, c) == S
RemoveOfAll(S, c) == {}
Others(S, c) == {r \in S : at[r] # c}

\* processOne returns false (the handler leaves its loop) after a request with
\* req.Close, and after an upgrade it waited for; otherwise the next is read.
NextRead(r) ==
    IF lastReq[r] \/ mode[r] \in {"upgrade", "lapsed"} THEN "exit" ELSE "read"

-----------------------------------------------------------------------------
(* The connection handler *)

\* A request the handler may read next from an open connection.
Readable(c, r) ==
    /\ handler[c] = "read"
    /\ conn[c] = "open"
    /\ at[r] = None

\* No domain mapping (the tunnel client is away), CheckUpload refuses, or the body
\* is too large (a 413, written here like the 404).
Refuse(c, r) ==
    /\ Readable(c, r)
    /\ at' = [at EXCEPT ![r] = c]
    /\ Destroy(c, r)
    /\ \E h \in {"read", "exit"} : handler' = [handler EXCEPT ![c] = h]
    /\ UNCHANGED <<cur, via, mode, lastReq, callback, session, timer, released, relay>>
    /\ UNCHANGED <<linkVars, clientVars>>

\* isHTTPRequestAuthorized fails: a 401 that leaves the connection open, and the
\* handler in its loop unless the request was the last.
Unauthorized(c, r) ==
    /\ Readable(c, r)
    /\ live # 0
    /\ at' = [at EXCEPT ![r] = c]
    /\ Put(c, r, "401")
    /\ \E h \in {"read", "exit"} : handler' = [handler EXCEPT ![c] = h]
    /\ UNCHANGED <<cur, via, mode, lastReq, callback, session, timer, released, relay>>
    /\ UNCHANGED <<linkVars, clientVars>>

\* The callback, the streaming session and the timer are in place before
\* anything is sent.
Register(c, r, m, last) ==
    /\ Readable(c, r)
    /\ live # 0
    /\ at' = [at EXCEPT ![r] = c]
    /\ via' = [via EXCEPT ![r] = live]
    /\ mode' = [mode EXCEPT ![r] = m]
    /\ lastReq' = [lastReq EXCEPT ![r] = last]
    /\ callback' = Set(r)
    /\ session' = IF m = "stream" THEN session \cup {r} ELSE session
    /\ timer' = Arm(r)
    /\ cur' = [cur EXCEPT ![c] = r]
    /\ handler' = [handler EXCEPT ![c] = "send"]
    /\ UNCHANGED <<conn, released, relay, wire, linkVars, clientVars>>

\* The request reaches the client when its monitor session still stands; a write
\* into a broken connection may go unnoticed.
Reaches(r, w) == client' = [client EXCEPT ![r] = IF live = via[r] THEN w ELSE @]

\* SendHTTPRequest, or SendHTTPRequestHead with FIN: the whole request is out.
SendAll(c) ==
    LET r == cur[c] IN
    /\ handler[c] = "send"
    /\ Reaches(r, "work")
    /\ handler' = [handler EXCEPT ![c] =
                      IF mode[r] \in {"upgrade", "lapsed"} THEN "wait"
                                                          ELSE NextRead(r)]
    /\ UNCHANGED <<conn, cur, at, via, mode, lastReq, callback, session, timer,
                   released, relay, wire, linkVars, bodies>>

\* SendHTTPRequestHead without FIN: the client dials the upstream at once, the
\* body is still to be read from the browser.
SendHead(c) ==
    LET r == cur[c] IN
    /\ handler[c] = "send"
    /\ mode[r] = "stream"
    /\ Reaches(r, "dialled")
    /\ handler' = [handler EXCEPT ![c] = "body"]
    /\ UNCHANGED <<conn, cur, at, via, mode, lastReq, callback, session, timer,
                   released, relay, wire, linkVars, bodies>>

\* The last SendHTTPRequestBody.  A client that has already answered with an
\* error no longer knows the stream.
SendBody(c) ==
    LET r == cur[c] IN
    /\ handler[c] = "body"
    /\ IF client[r] = "dialled" THEN Reaches(r, "work") ELSE UNCHANGED client
    /\ handler' = [handler EXCEPT ![c] = NextRead(r)]
    /\ UNCHANGED <<conn, cur, at, via, mode, lastReq, callback, session, timer,
                   released, relay, wire, linkVars, bodies>>

\* sendErr: the monitor write fails, or the browser's body ends early.  It runs
\* blockUntilDone, which only an upgrade has.
SendFail(c) ==
    LET r == cur[c] IN
    /\ handler[c] \in {"send", "body"}
    /\ StopTimer(r)
    /\ session' = session \ {r}
    /\ callback' = Take(r)
    /\ Destroy(c, r)
    /\ released' = released \cup {r}
    /\ handler' = [handler EXCEPT ![c] = NextRead(r)]
    /\ UNCHANGED <<cur, at, via, mode, lastReq, relay, linkVars, clientVars>>

\* An upgrade keeps the handler in "<-u" until blockUntilDone has run.
Unblock(c) ==
    /\ handler[c] = "wait"
    /\ cur[c] \in released
    /\ handler' = [handler EXCEPT ![c] = "exit"]
    /\ UNCHANGED <<conn, cur, at, via, mode, lastReq, callback, session, timer,
                   released, relay, wire, linkVars, clientVars>>

\* The deferred clean-up: the connection is closed, its callbacks and its
\* sessions are removed, and the timers of those sessions stopped.
Cleanup(c) ==
    /\ \/ handler[c] = "exit"
       \/ handler[c] = "read" /\ conn[c] # "open"
    /\ conn' = [conn EXCEPT ![c] = IF @ = "open" THEN "closed" ELSE @]
    /\ callback' = Others(callback, c)
    /\ session' = Others(session, c)
    /\ timer' = [r \in Reqs |->
                    IF r \in session /\ at[r] = c /\ timer[r] = "armed"
                      THEN "stopped" ELSE timer[r]]
    /\ handler' = [handler EXCEPT ![c] = "done"]
    /\ UNCHANGED <<cur, at, via, mode, lastReq, released, relay, wire, linkVars,
                   clientVars>>

BrowserLeaves(c) ==
    /\ conn[c] = "open"
    /\ conn' = [conn EXCEPT ![c] = "gone"]
    /\ UNCHANGED <<handler, cur, at, via, mode, lastReq, callback, session, timer,
                   released, relay, wire, linkVars, clientVars>>

-----------------------------------------------------------------------------
(* The timer *)

\* requestResponseTimeout elapses: from here on Stop comes too late.
TimerFire(r) ==
    /\ timer[r] = "armed"
    /\ timer' = [timer EXCEPT ![r] = "fired"]
    /\ UNCHANGED <<conn, handler, cur, at, via, mode, lastReq, callback, session,
                   released, relay, wire, linkVars, clientVars>>

\* Its goroutine drops the session and Takes the callback.  An upgrade's timer
\* runs blockUntilDone even when somebody else has taken the callback.
TimerTake(r) ==
    /\ timer[r] = "fired"
    /\ session' = session \ {r}
    /\ callback' = Take(r)
    /\ timer' = [timer EXCEPT ![r] = IF r \in callback THEN "taken" ELSE "off"]
    /\ released' = IF r \in callback THEN released ELSE Finish(r)
    /\ UNCHANGED <<conn, handler, cur, at, via, mode, lastReq, relay, wire,
                   linkVars, clientVars>>

\* The callback it took writes the 504; a bandwidth refusal makes it a 404.
TimerWrite(r) ==
    /\ timer[r] = "taken"
    /\ Deliver(at[r], r, "504")
    /\ timer' = [timer EXCEPT ![r] = "off"]
    /\ released' = Finish(r)
    /\ UNCHANGED <<handler, cur, at, via, mode, lastReq, callback, session, relay,
                   linkVars, clientVars>>

-----------------------------------------------------------------------------
(* The monitor read loop: handleResponse *)

\* A whole response: Take the callback; a frame of a streamed response: look up
\* its session and stop its timer.  What is unknown is dropped.
Receive(l) ==
    LET f == Head(uplink[l]) IN
    /\ reader[l] = None
    /\ uplink[l] # <<>>
    /\ uplink' = [uplink EXCEPT ![l] = Tail(@)]
    /\ IF f.kind \in StreamKinds
         THEN /\ UNCHANGED callback
              /\ reader' = [reader EXCEPT ![l] =
                               IF f.req \in session THEN f ELSE None]
              /\ IF f.req \in session THEN StopTimer(f.req)
                                      ELSE UNCHANGED timer
         ELSE /\ callback' = Take(f.req)
              /\ reader' = [reader EXCEPT ![l] =
                               IF f.req \in callback THEN f ELSE None]
              /\ UNCHANGED timer
    /\ UNCHANGED <<conn, handler, cur, at, via, mode, lastReq, session, released,
                   relay, wire, live, used, clientVars>>

\* wrappedCallback with a whole response that opens no relay.
Answer(l) ==
    LET r == reader[l].req IN
    /\ reader[l] # None
    /\ reader[l].kind = "full"
    /\ StopTimer(r)
    /\ Deliver(at[r], r, "full")
    /\ released' = Finish(r)
    /\ reader' = [reader EXCEPT ![l] = None]
    /\ UNCHANGED <<handler, cur, at, via, mode, lastReq, callback, session, relay,
                   live, used, uplink, clientVars>>

\* wrappedCallback with a 101: either the bytes are refused, or the read loop
\* itself waits in ensureDataChannelForStream.
Switching(l) ==
    LET r == reader[l].req IN
    /\ reader[l] # None
    /\ reader[l].kind = "101"
    /\ StopTimer(r)
    /\ \/ /\ reader' = [reader EXCEPT ![l].kind = "ensure"]
          /\ UNCHANGED <<conn, wire, released>>
       \/ /\ Destroy(at[r], r)
          /\ released' = released \cup {r}
          /\ reader' = [reader EXCEPT ![l] = None]
    /\ UNCHANGED <<handler, cur, at, via, mode, lastReq, callback, session, relay,
                   live, used, uplink, clientVars>>

\* The data channel came up: the 101 is written and the relay starts, unless
\* the browser's connection is closed by now.
DataChannelUp(l) ==
    LET r == reader[l].req IN
    /\ reader[l] # None
    /\ reader[l].kind = "ensure"
    /\ Put(at[r], r, "101")
    /\ IF conn[at[r]] = "open"
         THEN relay' = relay \cup {r} /\ UNCHANGED released
         ELSE released' = released \cup {r} /\ UNCHANGED relay
    /\ reader' = [reader EXCEPT ![l] = None]
    /\ UNCHANGED <<handler, cur, at, via, mode, lastReq, callback, session, timer,
                   live, used, uplink, clientVars>>

\* No container, no adapter, or no data channel in time: 502, then close.
DataChannelFails(l) ==
    LET r == reader[l].req
        c == at[r] IN
    /\ reader[l] # None
    /\ reader[l].kind = "ensure"
    /\ IF conn[c] = "open"
         THEN /\ wire' = [wire EXCEPT ![c] =
                           Append(Append(@, Piece(r, "502")), Piece(r, "404"))]
              /\ conn' = [conn EXCEPT ![c] = "closed"]
         ELSE UNCHANGED <<wire, conn>>
    /\ released' = released \cup {r}
    /\ reader' = [reader EXCEPT ![l] = None]
    /\ UNCHANGED <<handler, cur, at, via, mode, lastReq, callback, session, timer,
                   relay, live, used, uplink, clientVars>>

\* The relay's close path runs onConnClosed, which is blockUntilDone.
RelayEnds(r) ==
    /\ r \in relay
    /\ relay' = relay \ {r}
    /\ released' = released \cup {r}
    /\ conn' = [conn EXCEPT ![at[r]] = IF @ = "open" THEN "closed" ELSE @]
    /\ UNCHANGED <<handler, cur, at, via, mode, lastReq, callback, session, timer,
                   wire, linkVars, clientVars>>

\* dispatchSemanticClientResponse with the session it looked up: a refused or
\* failed write, and the frame with FIN, end the session and its callback.
Dispatch(l) ==
    LET r == reader[l].req
        k == reader[l].kind
        c == at[r] IN
    /\ reader[l] # None
    /\ k \in StreamKinds
    /\ \/ /\ conn[c] = "open"
          /\ Put(c, r, k)
          /\ session' = IF k \in {"headfin", "bodyfin"} THEN session \ {r} ELSE session
          /\ callback' = IF k \in {"headfin", "bodyfin"} THEN Take(r) ELSE callback
       \/ /\ Destroy(c, r)
          /\ session' = session \ {r}
          /\ callback' = Take(r)
    /\ reader' = [reader EXCEPT ![l] = None]
    /\ UNCHANGED <<handler, cur, at, via, mode, lastReq, timer, released, relay,
                   live, used, uplink, clientVars>>

-----------------------------------------------------------------------------
(* The tunnel client and its monitor sessions *)

\* sendMonitorMessage: without a monitor session the frame is lost.
ClientSends(r, k) ==
    uplink' = IF live = 0 THEN uplink
              ELSE [uplink EXCEPT ![live] = Append(@, Piece(r, k))]

\* A buffered answer, or an error page, which only comes before any head.
MidStream(r) == client[r] \in {"dialled", "work", "body"}
Unanswered(r) == client[r] \in {"dialled", "work"}

ClientAnswers(r, k) ==
    /\ Unanswered(r)
    /\ k = "full" \/ (k = "101" /\ mode[r] = "upgrade")
    /\ ClientSends(r, k)
    /\ client' = [client EXCEPT ![r] = "done"]
    /\ UNCHANGED <<serverVars, live, used, reader, bodies>>

\* readUpstreamAndStreamHTTPResponse: a failed send ends the response.
ClientStreams(r, k) ==
    /\ mode[r] = "stream"
    /\ \/ client[r] = "work" /\ k \in {"head", "headfin"}
       \/ client[r] = "body" /\ bodies[r] < MaxBody /\ k \in {"body", "bodyfin"}
       \/ client[r] = "body" /\ bodies[r] = MaxBody /\ k = "bodyfin"
    /\ ClientSends(r, k)
    /\ bodies' = [bodies EXCEPT ![r] = IF k = "body" THEN @ + 1 ELSE @]
    /\ client' = [client EXCEPT ![r] =
                     IF live = 0 \/ k \in {"headfin", "bodyfin"}
                       THEN "done" ELSE "body"]
    /\ UNCHANGED <<serverVars, live, used, reader>>

\* The tunnel client authenticates on a new monitor connection.
LinkUp ==
    /\ live = 0
    /\ used < Links
    /\ used' = used + 1
    /\ live' = used + 1
    /\ UNCHANGED <<serverVars, uplink, reader, clientVars>>

\* The monitor connection breaks; what had reached the server is still read.
LinkDown ==
    /\ live # 0
    /\ live' = 0
    /\ \E n \in 0 .. Len(uplink[live]) :
          uplink' = [uplink EXCEPT ![live] = SubSeq(@, 1, n)]
    /\ UNCHANGED <<serverVars, used, reader, clientVars>>

-----------------------------------------------------------------------------
Handler(c) ==
    \/ \E r \in Reqs : Refuse(c, r) \/ Unauthorized(c, r)
    \/ \E r \in Reqs, m \in Modes, last \in BOOLEAN : Register(c, r, m, last)
    \/ SendAll(c)
    \/ SendHead(c)
    \/ SendBody(c)
    \/ SendFail(c)
    \/ Unblock(c)
    \/ Cleanup(c)

Timer(r) == TimerFire(r) \/ TimerTake(r) \/ TimerWrite(r)

ReadLoop(l) ==
    \/ Receive(l)
    \/ Answer(l)
    \/ Switching(l)
    \/ DataChannelUp(l)
    \/ DataChannelFails(l)
    \/ Dispatch(l)

Client(r) ==
    \/ \E k \in {"full", "101"} : ClientAnswers(r, k)
    \/ \E k \in StreamKinds : ClientStreams(r, k)

Next ==
    \/ \E c \in Conns : Handler(c) \/ BrowserLeaves(c)
    \/ \E r \in Reqs : Timer(r) \/ RelayEnds(r) \/ Client(r)
    \/ \E l \in Sessions : ReadLoop(l)
    \/ LinkUp
    \/ LinkDown

Spec == Init /\ [][Next]_vars

\* The scheduler runs every goroutine of the server that can take a step, and
\* armed timers expire.  Nothing is assumed of the browser (whose body a handler
\* may wait for without end), the tunnel client or the monitor connection.
Fairness ==
    /\ \A c \in Conns : WF_vars(SendAll(c) \/ SendHead(c))
    /\ \A c \in Conns : WF_vars(Unblock(c) \/ Cleanup(c))
    /\ \A r \in Reqs : WF_vars(Timer(r))
    /\ \A l \in Sessions : WF_vars(ReadLoop(l))

FairSpec == Spec /\ Fairness
-----------------------------------------------------------------------------
(* What must hold *)

\* Every variable keeps to its range, and a request that is registered, timed
\* or held by a read loop came in on a connection.
TypeOK ==
    /\ conn \in [Conns -> {"open", "closed", "gone"}]
    /\ handler \in [Conns -> {"read", "send", "body", "wait", "exit", "done"}]
    /\ cur \in [Conns -> Reqs \cup {None}]
    /\ at \in [Reqs -> Conns \cup {None}]
    /\ via \in [Reqs -> 0 .. Links]
    /\ mode \in [Reqs -> Modes]
    /\ lastReq \in [Reqs -> BOOLEAN]
    /\ callback \subseteq Reqs
    /\ session \subseteq Reqs
    /\ timer \in [Reqs -> {"unset", "armed", "fired", "taken", "stopped", "off"}]
    /\ released \subseteq Reqs
    /\ relay \subseteq Reqs
    /\ wire \in [Conns -> Seq([req : Reqs, kind : WireKinds])]
    /\ live \in 0 .. Links
    /\ used \in 0 .. Links
    /\ uplink \in [Sessions -> Seq(Frames)]
    /\ reader \in [Sessions -> Holding \cup {None}]
    /\ client \in [Reqs -> {"none", "dialled", "work", "body", "done"}]
    /\ bodies \in [Reqs -> 0 .. MaxBody]

\* Take-once (callback.go Take; http.go "Ensure timeout response is sent at most
\* once"): whichever of the read loops, the timer and the clean-up get to a
\* request, at most one whole response is written for it.
AnswerOnce ==
    \A c \in Conns : \A i, j \in 1 .. Len(wire[c]) :
        /\ wire[c][i].kind \in WholeKinds
        /\ wire[c][j].kind \in WholeKinds
        /\ wire[c][i].req = wire[c][j].req
        => i = j

\* The timeout guard of http.go: a registered callback can be abandoned only
\* when its response has begun to stream; otherwise its timer still runs.
PendingIsGuarded ==
    \A r \in callback :
        \/ timer[r] \in {"armed", "fired"}
        \/ /\ mode[r] = "stream"
           /\ timer[r] = "stopped"
           /\ \/ \E i \in 1 .. Len(wire[at[r]]) :
                    wire[at[r]][i] \in {Piece(r, "head"), Piece(r, "body")}
              \/ \E l \in Sessions : reader[l] # None /\ reader[l].req = r

\* The deferred clean-up of handleConnection is complete: a connection that is
\* done leaves no callback and no streaming session behind.
DoneIsClean ==
    \A r \in callback \cup session : at[r] # None /\ handler[at[r]] # "done"

\* Dispatch order (dispatchSemanticClientResponse, finishStreamResponseSession):
\* while the client stays on its first monitor session, the browser reads a
\* streamed response head first, nothing between its frames and nothing after
\* the last, but for the timer's 504 and the 404 of a refused write.  (Frames
\* carry no session: after a reconnection a second read loop serves the same
\* response and the order is lost.)
StreamInOrder ==
    used <= 1 =>
        \A c \in Conns : \A i, j \in 1 .. Len(wire[c]) :
            /\ i < j
            /\ wire[c][i].req = wire[c][j].req
            /\ {"504", "404"} \cap {wire[c][i].kind, wire[c][j].kind} = {}
            => /\ wire[c][i].kind \in StreamKinds =>
                     /\ wire[c][i].kind \in {"head", "body"}
                     /\ wire[c][j].kind \in {"body", "bodyfin"}
               /\ wire[c][j].kind \in StreamKinds => wire[c][i].kind \in StreamKinds

\* README.md "Callback race fix": an answer finds the callback of its request.
\* A request that has reached the client has lost its callback only to an answer
\* (written, or in the hands of a read loop) or to its timer, as long as its
\* connection is open.
NothingLost ==
    \A r \in Reqs :
        (client[r] # "none" /\ conn[at[r]] = "open" /\ r \notin callback) =>
            \/ timer[r] \in {"taken", "off"}
            \/ \E l \in Sessions : reader[l] # None /\ reader[l].req = r
            \/ \E i \in 1 .. Len(wire[at[r]]) :
                  /\ wire[at[r]][i].req = r
                  /\ wire[at[r]][i].kind \notin {"head", "body"}

\* The browser has what it accepts as the end of an answer, or its connection
\* has ended.
Settled(r) ==
    /\ at[r] # None
    /\ \/ conn[at[r]] # "open"
       \/ \E i \in 1 .. Len(wire[at[r]]) :
             /\ wire[at[r]][i].req = r
             /\ wire[at[r]][i].kind \notin {"head", "body"}

\* README.md "Request timeout fallback" for buffered requests and upgrades: one
\* that was registered is answered, or its browser connection ends.
BufferedAnswered ==
    \A r \in Reqs : (r \in callback /\ mode[r] # "stream") ~> Settled(r)

\* blockUntilDone is never forgotten: a handler that waits for its upgrade is
\* let go, unless the relay is running by then (wrapWSCallbackWithDone, the
\* timer's finish and sendErr share the one release).
UpgradeReleased ==
    \A c \in Conns :
        (handler[c] = "wait" /\ mode[cur[c]] = "upgrade")
            ~> (handler[c] # "wait" \/ cur[c] \in relay)
=============================================================================
