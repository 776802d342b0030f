----------------------------- MODULE ClientSession -----------------------------
(***************************************************************************)
(* The tunnel client's session with the server (internal/client/client.go  *)
(* and heartbeat.go): connecting, authenticating, the read loop of the     *)
(* monitor channel, the heartbeat, the loss of the connection and the      *)
(* reconnection.                                                           *)
(*                                                                         *)
(* Thread 0 is the goroutine of Run, thread s the read loop of the s-th    *)
(* connection.  Beside them run the callbacks of pingTimer and             *)
(* pingTimeoutTimer, at most one of each at a time.  All of them share the *)
(* client's fields, most of them without a lock; what one statement does   *)
(* to a timer (stop the old one, arm the new) is one step.                 *)
(*                                                                         *)
(* The server is what it looks like from here: it answers authenticate and *)
(* ping, asks for data channels, and keeps the name of a session until it  *)
(* finds the connection gone (MonitorSession models it).  The separated    *)
(* protocol only; it never sends "disconnect" or "@@CONFIG".               *)
(***************************************************************************)
EXTENDS Naturals, Sequences

CONSTANTS
    MaxSessions, \* bound: connections the client manages to make
    Streams,     \* streams the server wants a data channel for
    None         \* "still running"

Sessions == 1 .. MaxSessions
Threads  == 0 .. MaxSessions
Events   == {"authenticated", "refused", "fatal", "pong"}
Causes   == {"dial", "unready", "refused", "fatal", "public", "unauthenticated",
             "auth timeout", "reconnect timeout"}

ASSUME ClientAssumption ==
    /\ MaxSessions \in Nat \ {0}
    /\ None \notin Causes
    /\ Streams \cap Events = {}

VARIABLES
    exited,     \* why the process has exited
    pc,         \* Threads -> where the goroutine is
    session,    \* connections made so far
    wire,       \* Sessions -> state of the WebSocket
    inbox,      \* Sessions -> events sent to the client, not read yet
    asked,      \* Sessions -> authenticate is on its way to the server
    held,       \* Sessions -> the server has a session for it, and its name
    wanted,     \* streams whose data channel the server has asked for
    monitorConn,\* the connection in use, 0 for nil
    monitorAuthOK,
    containerId,\* the session whose container id the client has, 0 for ""
    closing,
    heartbeatActive,
    pingTimer, pingTimeoutTimer, reconnectTimeout, authTimeout, \* is it armed
    ping,       \* where the callback of pingTimer is
    late,       \* where the callback of pingTimeoutTimer is
    dataConns   \* Streams -> session its data channel was opened under, or 0

server == <<inbox, asked, held, wanted>>
beat   == <<heartbeatActive, pingTimer, pingTimeoutTimer>>
exits  == <<reconnectTimeout, authTimeout>>
auth   == <<monitorAuthOK, containerId>>
calls  == <<ping, late>>
vars   == <<exited, pc, session, wire, server, monitorConn, auth, closing, beat, exits,
            calls, dataConns>>

Init ==
    /\ exited = None
    /\ pc = [t \in Threads |-> IF t = 0 THEN "dial" ELSE "off"]
    /\ session = 0
    /\ wire = [s \in Sessions |-> "none"]
    /\ inbox = [s \in Sessions |-> <<>>]
    /\ asked = [s \in Sessions |-> FALSE]
    /\ held = [s \in Sessions |-> FALSE]
    /\ wanted = {}
    /\ monitorConn = 0
    /\ monitorAuthOK = FALSE
    /\ containerId = 0
    /\ closing = FALSE
    /\ heartbeatActive = FALSE
    /\ pingTimer = FALSE
    /\ pingTimeoutTimer = FALSE
    /\ reconnectTimeout = FALSE
    /\ authTimeout = FALSE
    /\ ping = "idle"
    /\ late = "idle"
    /\ dataConns = [x \in Streams |-> 0]

-----------------------------------------------------------------------------
Running  == exited = None
At(t, l) == Running /\ pc[t] = l
Go(t, l) == pc' = [pc EXCEPT ![t] = l]

\* os.Exit, or Run returns its error: the process is over.
Exit(cause) ==
    /\ exited' = cause
    /\ UNCHANGED <<pc, session, wire, server, monitorConn, auth, closing, beat, exits, calls,
                   dataConns>>

\* sendMonitorMessage refuses when there is no connection or it is being closed; a
\* write on a connection that is lost may succeed all the same.
CanSend  == monitorConn # 0 /\ ~closing /\ wire[monitorConn] # "closed"
CanFail  == ~(CanSend /\ wire[monitorConn] = "open")
Reaches(s) == wire[s] = "open"

-----------------------------------------------------------------------------
(* Run, and the second half of reconnect: a new connection *)

\* establishMonitor, connectMonitorChannel: up to 1024 attempts.
Dial(t) ==
    /\ At(t, "dial")
    /\ \/ /\ session < MaxSessions
          /\ session' = session + 1
          /\ monitorConn' = session + 1
          /\ wire' = [wire EXCEPT ![session + 1] = "open"]
          /\ Go(t, "begin")
          /\ UNCHANGED <<exited, server, auth, closing, beat, exits, calls, dataConns>>
       \/ Exit("dial")

\* startHeartbeat (which stops the last one, and pings at once), startAuthTimeout.
Begin(t) ==
    /\ At(t, "begin")
    /\ heartbeatActive' = TRUE
    /\ pingTimer' = TRUE
    /\ pingTimeoutTimer' = FALSE
    /\ authTimeout' = TRUE
    /\ Go(t, "authenticate")
    /\ UNCHANGED <<exited, session, wire, server, monitorConn, auth, closing,
                   reconnectTimeout, calls, dataConns>>

\* Run stops reconnectTimeout before it starts the read loop, reconnect after.
Authenticate(t) ==
    /\ At(t, "authenticate")
    /\ \/ /\ CanSend
          /\ asked' = [asked EXCEPT ![monitorConn] = Reaches(monitorConn)]
          /\ Go(t, IF t = 0 THEN "settle" ELSE "spawn")
          /\ UNCHANGED <<exited, session, wire, inbox, held, wanted, monitorConn, auth,
                         closing, beat, exits, calls, dataConns>>
       \/ CanFail /\ Exit("unready")

Spawn(t) ==
    /\ At(t, "spawn")
    /\ pc' = [pc EXCEPT ![session] = "read", ![t] = IF t = 0 THEN "done" ELSE "settle"]
    /\ UNCHANGED <<exited, session, wire, server, monitorConn, auth, closing, beat, exits,
                   calls, dataConns>>

\* Faulty variants (StaysReading, OwnClose, KeptAuth, Kept) come just
\* before what they vary; nothing uses them but the tests of the properties.
StaysReading == "read"
Returns      == "done"
Settle(t) ==
    /\ At(t, "settle")
    /\ reconnectTimeout' = FALSE
    /\ Go(t, IF t = 0 THEN "spawn" ELSE Returns)
    /\ UNCHANGED <<exited, session, wire, server, monitorConn, auth, closing, beat,
                   authTimeout, calls, dataConns>>

-----------------------------------------------------------------------------
(* handleMonitorMessages: every read is from the monitorConn of the moment *)

\* The next event in the connection's buffer.  What is left of it can be read after
\* the peer is gone, not after the client closed it.
Reads(t, e) ==
    /\ At(t, "read")
    /\ wire[monitorConn] # "closed"
    /\ inbox[monitorConn] # <<>>
    /\ Head(inbox[monitorConn]) = e
Taken == inbox' = [inbox EXCEPT ![monitorConn] = Tail(@)]

\* handleAuthenticateResponse.
Authenticated(t) ==
    /\ Reads(t, "authenticated")
    /\ Taken
    /\ reconnectTimeout' = FALSE
    /\ authTimeout' = FALSE
    /\ monitorAuthOK' = TRUE
    /\ containerId' = monitorConn
    /\ UNCHANGED <<exited, pc, session, wire, asked, held, wanted, monitorConn, closing,
                   beat, calls, dataConns>>

\* An authentication that failed, or a fatal error, ends the process.
Rejected(t) == \E e \in {"refused", "fatal"} : Reads(t, e) /\ Exit(e)

\* handlePong: the timeout is off, the next ping is due.
Pong(t) ==
    /\ Reads(t, "pong")
    /\ Taken
    /\ IF heartbeatActive
       THEN pingTimeoutTimer' = FALSE /\ pingTimer' = TRUE
       ELSE UNCHANGED <<pingTimer, pingTimeoutTimer>>
    /\ UNCHANGED <<exited, pc, session, wire, asked, held, wanted, monitorConn, auth,
                   closing, heartbeatActive, exits, calls, dataConns>>

\* data:channel:open: the read loop itself dials, up to three times; meanwhile no
\* pong is read.
OpenChannel(t) ==
    /\ \E x \in Streams : Reads(t, x)
    /\ Go(t, "open")
    /\ UNCHANGED <<exited, session, wire, server, monitorConn, auth, closing, beat, exits,
                   calls, dataConns>>

\* connectDataChannel returns: with a connection, registered for the stream, or none.
Opened(t) ==
    /\ At(t, "open")
    /\ Taken
    /\ \E id \in {0, containerId} :
          dataConns' = [dataConns EXCEPT ![Head(inbox[monitorConn])] = id]
    /\ Go(t, "read")
    /\ UNCHANGED <<exited, session, wire, asked, held, wanted, monitorConn, auth, closing,
                   beat, exits, calls>>

\* The read fails.  After a ping timeout the callback sees to the rest; a close, a
\* reset or an EOF is a disconnection; any other error is logged, and the loop ends.
OwnClose   == {"closed"}
Recognised == {"closed", "dropped"}
ReadFails(t) ==
    /\ At(t, "read")
    /\ wire[monitorConn] # "open"
    /\ \/ wire[monitorConn] = "expired" /\ Exit("public")
       \/ /\ wire[monitorConn] # "expired"
          /\ Go(t, IF closing THEN "retry"
                   ELSE IF wire[monitorConn] \in Recognised THEN "disconnect" ELSE "deaf")
          /\ UNCHANGED <<exited, session, wire, server, monitorConn, auth, closing, beat,
                         exits, calls, dataConns>>

\* handleDisconnect: no heartbeat, no data channels, and 51 minutes to come back.
HandleDisconnect ==
    /\ heartbeatActive' = FALSE
    /\ pingTimer' = FALSE
    /\ pingTimeoutTimer' = FALSE
    /\ dataConns' = [x \in Streams |-> 0]
    /\ reconnectTimeout' = TRUE

Disconnect(t) ==
    /\ At(t, "disconnect")
    /\ HandleDisconnect
    /\ Go(t, "retry")
    /\ UNCHANGED <<exited, session, wire, server, monitorConn, auth, closing, authTimeout,
                   calls>>

\* tryReconnectMonitor: only a session that was authenticated is renewed.
Retry(t) ==
    /\ At(t, "retry")
    /\ \/ ~monitorAuthOK /\ Exit("unauthenticated")
       \/ /\ monitorAuthOK
          /\ Go(t, "reset")
          /\ UNCHANGED <<exited, session, wire, server, monitorConn, auth, closing, beat,
                         exits, calls, dataConns>>

\* reconnect, as far as the timers; then the connections; then Dial.
KeptAuth == monitorAuthOK
Reauth   == FALSE
Reset(t) ==
    /\ At(t, "reset")
    /\ closing' = FALSE
    /\ monitorAuthOK' = Reauth
    /\ heartbeatActive' = FALSE
    /\ pingTimer' = FALSE
    /\ pingTimeoutTimer' = FALSE
    /\ reconnectTimeout' = FALSE
    /\ Go(t, "close")
    /\ UNCHANGED <<exited, session, wire, server, monitorConn, containerId, authTimeout,
                   calls, dataConns>>

Kept    == dataConns
Cleared == [x \in Streams |-> 0]
Close(t) ==
    /\ At(t, "close")
    /\ wire' = [wire EXCEPT ![monitorConn] = "closed"]
    /\ monitorConn' = 0
    /\ dataConns' = Cleared
    /\ Go(t, "dial")
    /\ UNCHANGED <<exited, session, server, auth, closing, beat, exits, calls>>

-----------------------------------------------------------------------------
(* The callbacks of the timers *)

PingFires ==
    /\ Running /\ pingTimer /\ ping = "idle"
    /\ pingTimer' = FALSE
    /\ ping' = IF heartbeatActive THEN "send" ELSE "idle"
    /\ UNCHANGED <<exited, pc, session, wire, server, monitorConn, auth, closing,
                   heartbeatActive, pingTimeoutTimer, exits, late, dataConns>>

\* sendPing: a ping that cannot be sent is not tried again.
SendPing ==
    /\ Running /\ ping = "send"
    /\ \/ /\ heartbeatActive /\ CanSend
          /\ ping' = "arm"
          /\ inbox' = [inbox EXCEPT ![monitorConn] =
                          IF Reaches(monitorConn) THEN Append(@, "pong") ELSE @]
       \/ /\ ~heartbeatActive \/ CanFail
          /\ ping' = "idle"
          /\ UNCHANGED inbox
    /\ UNCHANGED <<exited, pc, session, wire, asked, held, wanted, monitorConn, auth,
                   closing, beat, exits, late, dataConns>>

\* The timeout is armed after the ping was written.
ArmTimeout ==
    /\ Running /\ ping = "arm"
    /\ pingTimeoutTimer' = TRUE
    /\ ping' = "idle"
    /\ UNCHANGED <<exited, pc, session, wire, server, monitorConn, auth, closing,
                   heartbeatActive, pingTimer, exits, late, dataConns>>

TimeoutFires ==
    /\ Running /\ pingTimeoutTimer /\ late = "idle"
    /\ pingTimeoutTimer' = FALSE
    /\ late' = IF heartbeatActive THEN "mark" ELSE "idle"
    /\ UNCHANGED <<exited, pc, session, wire, server, monitorConn, auth, closing,
                   heartbeatActive, pingTimer, exits, ping, dataConns>>

Mark ==
    /\ Running /\ late = "mark"
    /\ closing' = TRUE
    /\ late' = IF closing THEN "idle" ELSE "stop"
    /\ UNCHANGED <<exited, pc, session, wire, server, monitorConn, auth, beat, exits, ping,
                   dataConns>>

StopHeartbeat ==
    /\ Running /\ late = "stop"
    /\ heartbeatActive' = FALSE
    /\ pingTimer' = FALSE
    /\ pingTimeoutTimer' = FALSE
    /\ late' = "close"
    /\ UNCHANGED <<exited, pc, session, wire, server, monitorConn, auth, closing, exits,
                   ping, dataConns>>

\* Whichever connection is in use by now is closed.
CloseConn ==
    /\ Running /\ late = "close"
    /\ wire' = [s \in Sessions |-> IF s = monitorConn THEN "closed" ELSE wire[s]]
    /\ late' = "disconnect"
    /\ UNCHANGED <<exited, pc, session, server, monitorConn, auth, closing, beat, exits,
                   ping, dataConns>>

LateDisconnect ==
    /\ Running /\ late = "disconnect"
    /\ HandleDisconnect
    /\ late' = "idle"
    /\ UNCHANGED <<exited, pc, session, wire, server, monitorConn, auth, closing,
                   authTimeout, ping>>

\* The long timers, 30 seconds and 51 minutes, run out while the goroutines wait for
\* the network, not between two of their steps.
Waiting == \A t \in Threads : pc[t] \in {"off", "dial", "read", "open", "deaf", "done"}
AuthExpires      == Running /\ Waiting /\ authTimeout /\ Exit("auth timeout")
ReconnectExpires == Running /\ Waiting /\ reconnectTimeout /\ Exit("reconnect timeout")

-----------------------------------------------------------------------------
(* A data channel's own end, the network and the server *)

ChannelEnds(x) ==
    /\ Running /\ dataConns[x] # 0
    /\ dataConns' = [dataConns EXCEPT ![x] = 0]
    /\ UNCHANGED <<exited, pc, session, wire, server, monitorConn, auth, closing, beat,
                   exits, calls>>

\* The connection is lost: as a close, reset or EOF, as some other error, or because
\* the server ends a public session.
Break(s) ==
    /\ Running /\ Reaches(s)
    /\ \E how \in {"dropped", "odd", "expired"} : wire' = [wire EXCEPT ![s] = how]
    /\ UNCHANGED <<exited, pc, session, server, monitorConn, auth, closing, beat, exits,
                   calls, dataConns>>

\* A session is accepted, unless an earlier one still has its name: then the HTTP
\* tunnel is refused, and the TCP tunnel is told that its port cannot be opened.
Answer(s) ==
    /\ Running /\ asked[s] /\ Reaches(s)
    /\ asked' = [asked EXCEPT ![s] = FALSE]
    /\ \/ /\ \A r \in Sessions : ~held[r]
          /\ held' = [held EXCEPT ![s] = TRUE]
          /\ inbox' = [inbox EXCEPT ![s] = Append(@, "authenticated")]
       \/ /\ \E r \in Sessions : held[r]
          /\ \E told \in {<<"refused">>, <<"authenticated", "fatal">>} :
                inbox' = [inbox EXCEPT ![s] = @ \o told]
          /\ UNCHANGED held
    /\ UNCHANGED <<exited, pc, session, wire, wanted, monitorConn, auth, closing, beat,
                   exits, calls, dataConns>>

\* The server finds the connection gone.
Notice(s) ==
    /\ Running /\ held[s] /\ ~Reaches(s)
    /\ held' = [held EXCEPT ![s] = FALSE]
    /\ UNCHANGED <<exited, pc, session, wire, inbox, asked, wanted, monitorConn, auth,
                   closing, beat, exits, calls, dataConns>>

Want(s, x) ==
    /\ Running /\ held[s] /\ Reaches(s) /\ x \notin wanted
    /\ wanted' = wanted \cup {x}
    /\ inbox' = [inbox EXCEPT ![s] = Append(@, x)]
    /\ UNCHANGED <<exited, pc, session, wire, asked, held, monitorConn, auth, closing, beat,
                   exits, calls, dataConns>>

Connecting(t) == Dial(t) \/ Begin(t) \/ Authenticate(t) \/ Spawn(t) \/ Settle(t)
Reading(t)    == \/ Authenticated(t) \/ Rejected(t) \/ Pong(t) \/ OpenChannel(t)
                 \/ Opened(t) \/ ReadFails(t)
Losing(t)     == Disconnect(t) \/ Retry(t) \/ Reset(t) \/ Close(t)
Beating       == PingFires \/ SendPing \/ ArmTimeout
TimingOut     == TimeoutFires \/ Mark \/ StopHeartbeat \/ CloseConn \/ LateDisconnect

Next ==
    \/ \E t \in Threads : Connecting(t)
    \/ \E t \in Sessions : Reading(t) \/ Losing(t)
    \/ Beating \/ TimingOut \/ AuthExpires \/ ReconnectExpires
    \/ \E x \in Streams : ChannelEnds(x)
    \/ \E s \in Sessions : Break(s) \/ Answer(s) \/ Notice(s) \/ \E x \in Streams : Want(s, x)

Spec == Init /\ [][Next]_vars

\* Goroutines and timers run; the server answers and finds out.
FairSpec ==
    /\ Spec
    /\ \A t \in Threads : WF_vars(Connecting(t))
    /\ \A t \in Sessions : WF_vars(Reading(t)) /\ WF_vars(Losing(t))
    /\ WF_vars(Beating) /\ WF_vars(TimingOut)
    /\ WF_vars(AuthExpires) /\ WF_vars(ReconnectExpires)
    /\ \A s \in Sessions : WF_vars(Answer(s)) /\ WF_vars(Notice(s))

-----------------------------------------------------------------------------
TypeOK ==
    /\ exited \in Causes \cup {None}
    /\ pc \in [Threads -> {"off", "dial", "begin", "authenticate", "settle", "spawn", "read",
                           "open", "disconnect", "retry", "reset", "close", "deaf", "done"}]
    /\ session \in Threads
    /\ wire \in [Sessions -> {"none", "open", "dropped", "odd", "expired", "closed"}]
    /\ inbox \in [Sessions -> Seq(Events \cup Streams)]
    /\ asked \in [Sessions -> BOOLEAN]
    /\ held \in [Sessions -> BOOLEAN]
    /\ wanted \in SUBSET Streams
    /\ monitorConn \in Threads
    /\ monitorAuthOK \in BOOLEAN
    /\ containerId \in Threads
    /\ closing \in BOOLEAN
    /\ heartbeatActive \in BOOLEAN
    /\ pingTimer \in BOOLEAN
    /\ pingTimeoutTimer \in BOOLEAN
    /\ reconnectTimeout \in BOOLEAN
    /\ authTimeout \in BOOLEAN
    /\ ping \in {"idle", "send", "arm"}
    /\ late \in {"idle", "mark", "stop", "close", "disconnect"}
    /\ dataConns \in [Streams -> Threads]

\* One goroutine at a time connects, reads or reconnects, and a read loop reads its
\* own connection although it reads whatever the shared field holds
\* (handleMonitorMessages, reconnect).
Busy(t) == pc[t] \notin {"off", "done", "deaf", "settle"}
ReadsItsOwn ==
    /\ \A t, u \in Threads : Busy(t) /\ Busy(u) => t = u
    /\ \A t \in Sessions : pc[t] \in {"read", "open", "disconnect", "retry", "reset", "close"}
                              => t = monitorConn

\* monitorAuthOK is about the connection in use: a session is renewed only when the
\* server accepted this connection, and data channels are dialled with its container
\* (tryReconnectMonitor, reconnect).
AuthOfThis == monitorAuthOK => containerId = monitorConn

\* While an authenticated session is read, its data channels are its own: those of an
\* earlier session are gone, also the one that was dialled while the ping timeout
\* closed the others (reconnect, closeAllDataChannels, data:channel:open).
ChannelsOfThis ==
    \A x \in Streams :
        monitorAuthOK /\ (\E t \in Threads : pc[t] = "read") /\ dataConns[x] # 0
            => dataConns[x] = monitorConn

\* A connection that was lost as such, or by the ping timeout, is replaced by one that
\* is authenticated, or the process ends: no race of the callbacks with the read loop
\* leaves the client waiting (handleMonitorMessages, sendPing, reconnect).
LossEnds ==
    \A s \in Sessions :
        (monitorConn = s /\ wire[s] \in {"dropped", "closed"} /\ pc[s] # "deaf")
            ~> (exited # None \/ (monitorConn > s /\ monitorAuthOK))

=============================================================================
