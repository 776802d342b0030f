------------------------------ MODULE RequestPath ------------------------------
(***************************************************************************)
(* A tunneled request on its way to the upstream service: the handlers of  *)
(* the server that send it over the monitor channel (processRequest and    *)
(* processRequestStream of internal/server/tunnel/http.go, the sending     *)
(* half of internal/server/protocol/binary.go, TrySend of                  *)
(* flow_controller.go), and the client that takes it in and passes it on   *)
(* (internal/client/handlers.go).                                          *)
(*                                                                         *)
(* A request is sent in one of three ways: as one message; in chunks, if   *)
(* HTTP streaming was agreed, admitted by a send window if flow control    *)
(* was; or as a head and the pieces of its body.  Its parts are numbered.  *)
(* On the server each request has a goroutine, on the client the read loop *)
(* of the monitor channel deals with heads and bodies itself, dials        *)
(* included, and starts a goroutine for what is left.                      *)
(*                                                                         *)
(* One session: the parts that were written before it broke may still be   *)
(* read, whatever comes after is lost.  HttpTunnel has what the server     *)
(* does with the answers.  Left out: compression, the contents, and the    *)
(* relay of an upgraded connection.                                        *)
(***************************************************************************)
EXTENDS Naturals, Sequences

CONSTANTS
    Requests,
    MaxPart,  \* bound: the number of a request's last part
    Window,   \* parts the send window holds
    None

Frames == [id : Requests, type : {"direct", "chunked", "head", "body"},
           part : 0 .. MaxPart, fin : BOOLEAN]

ASSUME PathAssumption ==
    /\ MaxPart \in Nat
    /\ Window \in Nat \ {0}
    /\ None \notin Nat \cup Frames

Kinds == {"direct", "chunked", "stream"}

VARIABLES
    caps,       \* what the session has agreed on
    link,       \* of the session
    destroyed,  \* has the server cleaned the session up
    srv,        \* Requests -> where the goroutine that sends it is
    kind,       \* Requests -> how it is sent
    last,       \* Requests -> the number of its last part
    next,       \* Requests -> the part to send next
    SendWindow, \* Requests -> parts sent and not acknowledged, None for no window
    wire,       \* frames on the monitor channel that are not read yet
    loop,       \* the frame the client's read loop deals with
    httpStreamSess, \* requests with an entry, and the upstream connection in it
    stored,     \* Requests -> chunks the client has taken in
    conn,       \* Requests -> state of its upstream connection
    got,        \* Requests -> parts the upstream service was given
    fwd,        \* Requests -> the client's goroutine for it
    replies     \* Requests -> answers the client has tried to send

session  == <<caps, link, destroyed>>
sender   == <<srv, kind, last, next, SendWindow>>
upstream == <<conn, got>>
client   == <<loop, httpStreamSess, stored, fwd, replies>>
vars     == <<session, sender, wire, client, upstream>>

Init ==
    /\ caps \in SUBSET {"HTTPStreaming", "FlowControl", "HTTPBodyStream"}
    /\ link = "up" /\ destroyed = FALSE
    /\ srv = [r \in Requests |-> "idle"]
    /\ kind = [r \in Requests |-> "direct"]
    /\ last = [r \in Requests |-> 0] /\ next = [r \in Requests |-> 0]
    /\ SendWindow = [r \in Requests |-> None]
    /\ wire = <<>> /\ loop = None
    /\ httpStreamSess = {}
    /\ stored = [r \in Requests |-> 0]
    /\ conn = [r \in Requests |-> "none"]
    /\ got = [r \in Requests |-> <<>>]
    /\ fwd = [r \in Requests |-> "none"]
    /\ replies = [r \in Requests |-> 0]

-----------------------------------------------------------------------------
(* The server *)

\* shouldStreamHTTPRequest, and shouldUseStreaming for what it leaves.
Ways == (IF "HTTPStreaming" \in caps THEN {"chunked"} ELSE {"direct"})
            \cup (IF "HTTPBodyStream" \in caps THEN {"stream"} ELSE {})

\* InitializeStream gives a request in chunks a window of its own.
InitializeStream(r, k) ==
    SendWindow' = IF k = "chunked" /\ "FlowControl" \in caps
                  THEN [SendWindow EXCEPT ![r] = 0] ELSE SendWindow

Begin(r) ==
    /\ srv[r] = "idle"
    /\ srv' = [srv EXCEPT ![r] = "send"]
    /\ \E k \in Ways : kind' = [kind EXCEPT ![r] = k] /\ InitializeStream(r, k)
    /\ \E n \in 0 .. MaxPart : last' = [last EXCEPT ![r] = n]
    /\ UNCHANGED <<session, next, wire, client, upstream>>

\* BuildBinaryMessage: who it is for, what it is, and FIN.  Faulty variants (OnePartEarly,
\* NoDeadline, Peeked, LeftOpen, Silent) come just before what they vary; nothing uses
\* them but the tests of the properties.
OnePartEarly(r) == next[r] + 1 >= last[r]
Fin(r)  == next[r] = last[r]
Type(r) == IF kind[r] # "stream" THEN kind[r] ELSE IF next[r] = 0 THEN "head" ELSE "body"
Frame(r) == [id |-> r, type |-> Type(r), part |-> next[r], fin |-> Fin(r)]

\* writeMonitorText: on a connection that is lost it may succeed or fail.
Write(r) ==
    /\ wire' = IF link = "up" THEN Append(wire, Frame(r)) ELSE wire
    /\ next' = [next EXCEPT ![r] = @ + 1]
    /\ srv' = IF Fin(r) \/ kind[r] = "direct" THEN [srv EXCEPT ![r] = "sent"] ELSE srv
Fails(r) ==
    /\ srv' = [srv EXCEPT ![r] = "failed"]
    /\ UNCHANGED <<wire, next>>
Attempt(r) == Write(r) \/ (link # "up" /\ Fails(r))

\* sendDirect.
SendDirect(r) ==
    /\ srv[r] = "send" /\ kind[r] = "direct"
    /\ Attempt(r)
    /\ UNCHANGED <<session, kind, last, SendWindow, client, upstream>>

\* sendSemanticHTTPMonitor: the head, then what the browser sends of the body.
SendPart(r) ==
    /\ srv[r] = "send" /\ kind[r] = "stream"
    /\ Attempt(r)
    /\ UNCHANGED <<session, kind, last, SendWindow, client, upstream>>

\* The browser's connection ends before the body does.  The client is not told.
BodyCut(r) ==
    /\ srv[r] = "send" /\ kind[r] = "stream" /\ next[r] > 0
    /\ Fails(r)
    /\ UNCHANGED <<session, kind, last, SendWindow, client, upstream>>

\* TrySend creates the window that is not there; nothing acknowledges what it admits.
Used(r)  == IF SendWindow[r] = None THEN 0 ELSE SendWindow[r]
Admits(r) == Used(r) + 1 <= Window
TrySend(r) ==
    IF "FlowControl" \in caps
    THEN Admits(r) /\ SendWindow' = [SendWindow EXCEPT ![r] = Used(r) + 1]
    ELSE UNCHANGED SendWindow

\* sendStreaming, one chunk.
SendChunk(r) ==
    /\ srv[r] = "send" /\ kind[r] = "chunked"
    /\ TrySend(r)
    /\ Attempt(r)
    /\ UNCHANGED <<session, kind, last, client, upstream>>

\* waitFlowSendSlot: 60 seconds without room.
NoDeadline == FALSE
Deadline   == TRUE
GiveUp(r) ==
    /\ srv[r] = "send" /\ kind[r] = "chunked"
    /\ "FlowControl" \in caps /\ ~Admits(r) /\ Deadline
    /\ Fails(r)
    /\ UNCHANGED <<session, kind, last, SendWindow, client, upstream>>

\* Destroy of the session's adapter clears the windows, under whoever waits for one.
Destroy ==
    /\ link # "up" /\ ~destroyed
    /\ destroyed' = TRUE
    /\ SendWindow' = [r \in Requests |-> None]
    /\ UNCHANGED <<caps, link, srv, kind, last, next, wire, client, upstream>>

-----------------------------------------------------------------------------
(* The network *)

Lose ==
    /\ link = "up"
    /\ link' = "lost"
    /\ UNCHANGED <<caps, destroyed, sender, wire, client, upstream>>

\* The client's read fails: the rest of what was sent is lost.
Cut ==
    /\ link # "up" /\ wire # <<>>
    /\ wire' = <<>>
    /\ UNCHANGED <<session, sender, client, upstream>>

-----------------------------------------------------------------------------
(* The client *)

\* handleHTTPRequest.  A chunk is taken in by an adapter (Reassembly): a client that
\* agrees to HTTP streaming has one.
Peeked(r) == httpStreamSess
Taken(r)  == httpStreamSess \ {r}
ClientReads ==
    /\ loop = None /\ wire # <<>>
    /\ wire' = Tail(wire)
    /\ LET m == Head(wire)
           r == m.id
       IN  \/ /\ m.type = "direct"
              /\ fwd' = [fwd EXCEPT ![r] = "dial"]
              /\ UNCHANGED <<loop, httpStreamSess, stored>>
           \/ /\ m.type = "chunked"
              /\ stored' = [stored EXCEPT ![r] = @ + 1]
              /\ fwd' = IF m.fin THEN [fwd EXCEPT ![r] = "dial"] ELSE fwd
              /\ UNCHANGED <<loop, httpStreamSess>>
           \/ /\ \/ m.type = "head" /\ r \notin httpStreamSess
                 \/ m.type = "body" /\ r \in httpStreamSess
              /\ loop' = m
              /\ httpStreamSess' = Taken(r)
              /\ UNCHANGED <<stored, fwd>>
           \/ /\ \/ m.type = "head" /\ r \in httpStreamSess
                 \/ m.type = "body" /\ r \notin httpStreamSess
              /\ UNCHANGED <<loop, httpStreamSess, stored, fwd>>
    /\ UNCHANGED <<session, sender, replies, upstream>>

\* sendTunneledHTTPErrorResponse and the answer itself; a failed send is only logged.
Silent(r)   == replies
Answered(r) == [replies EXCEPT ![r] = @ + 1]
Refused(r)  == Answered(r)

\* The upstream connection broke, or its deadline is over.
LeftOpen == "open"
Closed   == "closed"
WriteFails(r) ==
    /\ conn' = [conn EXCEPT ![r] = Closed]
    /\ replies' = Refused(r)
    /\ UNCHANGED got

\* The part is written: the connection goes back into the map, or to a goroutine that
\* reads the response.
PassOn(m) ==
    /\ conn' = [conn EXCEPT ![m.id] = "open"]
    /\ got' = [got EXCEPT ![m.id] = Append(@, m.part)]
    /\ httpStreamSess' = IF m.fin THEN httpStreamSess ELSE httpStreamSess \cup {m.id}
    /\ fwd' = IF m.fin THEN [fwd EXCEPT ![m.id] = "read"] ELSE fwd
    /\ UNCHANGED replies

\* handleHTTPRequestStreamHead dials first; handleHTTPRequestStreamBody has a connection.
HeadDone ==
    /\ loop # None /\ loop.type = "head"
    /\ loop' = None
    /\ \/ PassOn(loop)
       \/ WriteFails(loop.id) /\ UNCHANGED <<httpStreamSess, fwd>>
       \/ replies' = Refused(loop.id) /\ UNCHANGED <<httpStreamSess, fwd, upstream>>
    /\ UNCHANGED <<session, sender, wire, stored>>

BodyDone ==
    /\ loop # None /\ loop.type = "body"
    /\ loop' = None
    /\ \/ PassOn(loop)
       \/ WriteFails(loop.id) /\ UNCHANGED <<httpStreamSess, fwd>>
    /\ UNCHANGED <<session, sender, wire, stored>>

\* forwardHTTPRequest: a message that is there as a whole.
Forward(r) ==
    /\ fwd[r] = "dial"
    /\ \/ /\ fwd' = [fwd EXCEPT ![r] = "done"]
          /\ replies' = Refused(r)
          /\ UNCHANGED upstream
       \/ fwd' = [fwd EXCEPT ![r] = "done"] /\ WriteFails(r)
       \/ /\ fwd' = [fwd EXCEPT ![r] = "read"]
          /\ conn' = [conn EXCEPT ![r] = "open"]
          /\ got' = [got EXCEPT ![r] =
                        IF kind[r] = "direct" THEN [i \in 1 .. last[r] + 1 |-> i - 1]
                                              ELSE [i \in 1 .. stored[r] |-> i - 1]]
          /\ UNCHANGED replies
    /\ UNCHANGED <<session, sender, wire, loop, httpStreamSess, stored>>

\* The upstream service answers, or the deadline of the connection is over.
ReadResponse(r) ==
    /\ fwd[r] = "read"
    /\ fwd' = [fwd EXCEPT ![r] = "done"]
    /\ conn' = [conn EXCEPT ![r] = "closed"]
    /\ replies' = Answered(r)
    /\ UNCHANGED <<session, sender, wire, loop, httpStreamSess, stored, got>>

-----------------------------------------------------------------------------
Sending(r)    == SendDirect(r) \/ SendPart(r) \/ BodyCut(r) \/ SendChunk(r) \/ GiveUp(r)
Reading       == ClientReads \/ HeadDone \/ BodyDone
Forwarding(r) == Forward(r) \/ ReadResponse(r)

Next ==
    \/ \E r \in Requests : Begin(r) \/ Sending(r) \/ Forwarding(r)
    \/ Reading \/ Destroy \/ Lose \/ Cut

Spec == Init /\ [][Next]_vars

\* Goroutines run, a wait that has a deadline ends.  A browser owes nothing.
FairSpec ==
    /\ Spec
    /\ \A r \in Requests :
          /\ WF_vars(SendDirect(r)) /\ WF_vars(SendChunk(r)) /\ WF_vars(GiveUp(r))
          /\ WF_vars(Forwarding(r))
    /\ WF_vars(Reading)

-----------------------------------------------------------------------------
TypeOK ==
    /\ caps \subseteq {"HTTPStreaming", "FlowControl", "HTTPBodyStream"}
    /\ link \in {"up", "lost"}
    /\ destroyed \in BOOLEAN
    /\ srv \in [Requests -> {"idle", "send", "sent", "failed"}]
    /\ kind \in [Requests -> Kinds]
    /\ last \in [Requests -> 0 .. MaxPart]
    /\ next \in [Requests -> 0 .. MaxPart + 1]
    /\ SendWindow \in [Requests -> 0 .. Window \cup {None}]
    /\ wire \in Seq(Frames)
    /\ loop \in Frames \cup {None}
    /\ httpStreamSess \subseteq Requests
    /\ stored \in [Requests -> 0 .. MaxPart + 1]
    /\ conn \in [Requests -> {"none", "open", "closed"}]
    /\ got \in [Requests -> Seq(0 .. MaxPart)]
    /\ fwd \in [Requests -> {"none", "dial", "read", "done"}]
    /\ replies \in [Requests -> Nat]

\* What an upstream service is given of a request is its beginning, in order and once;
\* and it is asked for an answer only to a request that is whole, whose handler on the
\* server has sent the last part: not after a body that was cut off, a window that ran
\* full or a session that broke (processRequestStream, sendStreaming, handleHTTPRequest).
UpstreamGetsWhole ==
    \A r \in Requests :
        /\ \A i \in 1 .. Len(got[r]) : got[r][i] = i - 1
        /\ fwd[r] = "read" => srv[r] = "sent" /\ Len(got[r]) = last[r] + 1

\* A request is answered by one goroutine: by the read loop that could not pass a part
\* on, or by the one that read the response, and then nobody has its connection any more
\* (handleHTTPRequestStreamHead, handleHTTPRequestStreamBody, forwardHTTPRequest).
RepliesOnce ==
    \A r \in Requests :
        /\ replies[r] <= 1
        /\ replies[r] = 1 => r \notin httpStreamSess /\ fwd[r] \in {"none", "done"}

\* An upstream connection that is open is in exactly one place: the map, the read loop
\* that took it out to write, or the goroutine that reads the response and closes it.
OneOwner ==
    \A r \in Requests :
        LET owners == {o \in {"map", "loop", "goroutine"} :
                          \/ o = "map" /\ r \in httpStreamSess
                          \/ o = "loop" /\ loop # None /\ loop.id = r /\ loop.type = "body"
                          \/ o = "goroutine" /\ fwd[r] = "read"}
        IN  IF conn[r] = "open" THEN \E o \in owners : owners = {o} ELSE owners = {}

\* binary.go:337: "avoids infinite hang when ACKs never arrive".  The goroutine that
\* sends a request comes to an end even if its window is full for good.
SendReturns ==
    \A r \in Requests :
        (srv[r] = "send" /\ kind[r] # "stream") ~> srv[r] \in {"sent", "failed"}

\* handlers.go:534-535: an error is answered, or "the server tunnel waits until TCP
\* timeout with no bytes".  While the session lasts, the client answers what was sent.
SentIsAnswered ==
    \A r \in Requests : srv[r] = "sent" ~> (replies[r] = 1 \/ link # "up")

=============================================================================
