---------------------------- MODULE MonitorSession ----------------------------
(***************************************************************************)
(* The server's monitor channel (internal/server/channels/monitor), with   *)
(* the containers and sub-domains (internal/server/container) its sessions *)
(* register and the public TCP listeners (internal/server/tunnel/tcp.go)   *)
(* that are opened for them.                                               *)
(*                                                                         *)
(* Each connection has a read loop; its authentication timer, the timer of *)
(* a public session, and the goroutine that serves a tunnel's listener run *)
(* beside it.  The maps are behind mutexes of their own, each held for one *)
(* operation: a goroutine takes its steps between them.                    *)
(*                                                                         *)
(* A session <<c, n>> is what the n-th authentication on connection c      *)
(* creates.  It stands for its container id, and for the sub-domain that   *)
(* is generated when it asks for none.                                     *)
(***************************************************************************)
EXTENDS Naturals

CONSTANTS
    Conns,      \* monitor connections
    SubDomains, \* sub-domains a client may ask for
    Ports,      \* public TCP ports
    Any,        \* "no sub-domain", "port 0"
    MaxAuths,   \* bound: authenticate messages on one connection
    None        \* "no sub-domain yet", "no session", "not listening"

Sessions == Conns \X (1 .. MaxAuths)
Hosts    == SubDomains \cup Sessions

\* What a client may authenticate for.  A coordinator has no tunnel of its own.
Requests ==
    [type : {"http"}, want : SubDomains \cup {Any}, public : BOOLEAN]
        \cup [type : {"tcp"}, want : Ports \cup {Any}, public : BOOLEAN]
        \cup [type : {"coordinator", "unknown"}, want : {Any}, public : BOOLEAN]

ASSUME MonitorAssumption ==
    /\ MaxAuths \in Nat \ {0}
    /\ Any \notin SubDomains \cup Ports
    /\ None \notin Hosts \cup Ports
    /\ SubDomains \cap Sessions = {}

VARIABLES
    open,      \* Conns -> is the WebSocket open
    pc,        \* Conns -> where its read loop is
    timer,     \* Conns -> is authTimeout running
    ttl,       \* Conns -> is the timer of a public session running
    auths,     \* Conns -> authenticate messages so far
    req,       \* Sessions -> what was asked for
    known,     \* Conns -> isAuthenticated
    sub,       \* Conns -> subDomain
    own,       \* Conns -> the session whose ContainerID the connection has
    adapter,   \* Conns -> the session whose adapter the connection has
    adapters,  \* sessions whose adapter is alive
    containers,\* sessions in the tunnel container
    hosts,     \* Hosts -> the session it is mapped to
    port,      \* Sessions -> SourcePort
    server,    \* sessions whose SourceServer is set
    sv,        \* Sessions -> where the goroutine of its listener is
    listening  \* Sessions -> the port its listener has

conn     == <<open, timer, ttl, auths, req, known, sub, own, adapter>>
tunnels  == <<port, server, sv, listening>>
vars     == <<conn, pc, adapters, containers, hosts, tunnels>>

Init ==
    /\ open = [c \in Conns |-> FALSE]
    /\ pc = [c \in Conns |-> "off"]
    /\ timer = [c \in Conns |-> FALSE]
    /\ ttl = [c \in Conns |-> FALSE]
    /\ auths = [c \in Conns |-> 0]
    /\ req = [k \in Sessions |-> None]
    /\ known = [c \in Conns |-> FALSE]
    /\ sub = [c \in Conns |-> None]
    /\ own = [c \in Conns |-> None]
    /\ adapter = [c \in Conns |-> None]
    /\ adapters = {}
    /\ containers = {}
    /\ hosts = [h \in Hosts |-> None]
    /\ port = [k \in Sessions |-> None]
    /\ server = {}
    /\ sv = [k \in Sessions |-> "none"]
    /\ listening = [k \in Sessions |-> None]

-----------------------------------------------------------------------------
At(c, l)   == pc' = [pc EXCEPT ![c] = l]

\* Faulty variants (NotArmed, Asked, Mapped, Keeps, StillServed) come just before
\* what they vary; nothing uses them but the tests of the properties.
Session(c) == <<c, auths[c]>>
NotArmed(t, c) == t
Armed(t, c) == [t EXCEPT ![c] = TRUE]

\* HandleConnection: a WebSocket is upgraded, authTimeout and the read loop start.
Connect(c) ==
    /\ pc[c] = "off"
    /\ open' = [open EXCEPT ![c] = TRUE]
    /\ timer' = Armed(timer, c)
    /\ At(c, "read")
    /\ UNCHANGED <<ttl, auths, req, known, sub, own, adapter, adapters, containers, hosts,
                   tunnels>>

\* The client goes away, or the network.
Break(c) ==
    /\ open[c]
    /\ open' = [open EXCEPT ![c] = FALSE]
    /\ UNCHANGED <<timer, ttl, auths, req, known, sub, own, adapter, pc, adapters,
                   containers, hosts, tunnels>>

\* authTimeout: who has not authenticated by now is cut off.
AuthTimeout(c) ==
    /\ timer[c]
    /\ timer' = [timer EXCEPT ![c] = FALSE]
    /\ open' = [open EXCEPT ![c] = @ /\ known[c]]
    /\ UNCHANGED <<ttl, auths, req, known, sub, own, adapter, pc, adapters, containers,
                   hosts, tunnels>>

\* schedulePublicMonitorSessionTTL: the time of a public session is over.  Nothing
\* stops this timer.
Expire(c) ==
    /\ ttl[c]
    /\ ttl' = [ttl EXCEPT ![c] = FALSE]
    /\ open' = [open EXCEPT ![c] = FALSE]
    /\ UNCHANGED <<timer, auths, req, known, sub, own, adapter, pc, adapters, containers,
                   hosts, tunnels>>

-----------------------------------------------------------------------------
(* handleAuthenticate, on the connection's read loop *)

\* A failed authentication closes the connection and ends the read loop at once,
\* whatever it has registered: handleDisconnect is not called.
Fail(c) == open' = [open EXCEPT ![c] = FALSE] /\ At(c, "done")

\* The message is read; its token, version and signature are checked.  The timer is
\* stopped, but may have fired already (AuthTimeout).
Authenticate(c) ==
    /\ pc[c] = "read" /\ open[c]
    /\ auths[c] < MaxAuths
    /\ timer' = [timer EXCEPT ![c] = FALSE]
    /\ auths' = [auths EXCEPT ![c] = @ + 1]
    /\ \E r \in Requests : req' = [req EXCEPT ![<<c, auths[c] + 1>>] = r]
    /\ \/ At(c, "create") /\ UNCHANGED open
       \/ Fail(c)
    /\ UNCHANGED <<ttl, known, sub, own, adapter, adapters, containers, hosts, tunnels>>

\* The adapter is created, then the container, which is told of the adapter.
Create(c) ==
    LET k == Session(c) IN
    /\ pc[c] = "create"
    /\ adapter' = [adapter EXCEPT ![c] = k]
    /\ adapters' = adapters \cup {k}
    /\ IF req[k].type \in {"http", "tcp"} THEN containers' = containers \cup {k}
                                          ELSE UNCHANGED containers
    /\ \/ req[k].type = "unknown" /\ Fail(c)
       \/ /\ req[k].type # "unknown"
          /\ At(c, IF req[k].type # "http" THEN "reply"
                   ELSE IF req[k].want = Any THEN "bind" ELSE "has")
          /\ UNCHANGED open
    /\ UNCHANGED <<timer, ttl, auths, req, known, sub, own, hosts, tunnels>>

\* domainContainer.Has, under one lock: a sub-domain in use is refused.
Has(c) ==
    /\ pc[c] = "has"
    /\ \/ hosts[req[Session(c)].want] # None /\ Fail(c)
       \/ hosts[req[Session(c)].want] = None /\ At(c, "bind") /\ UNCHANGED open
    /\ UNCHANGED <<timer, ttl, auths, req, known, sub, own, adapter, adapters, containers,
                   hosts, tunnels>>

\* BindWSWithMetadata, under the next, maps it whoever has it by now.
Asked(c) == req[Session(c)].want
Uid(c) == IF req[Session(c)].want = Any THEN Session(c) ELSE req[Session(c)].want
Bind(c) ==
    /\ pc[c] = "bind"
    /\ hosts' = [hosts EXCEPT ![Uid(c)] = Session(c)]
    /\ sub' = [sub EXCEPT ![c] = Uid(c)]
    /\ At(c, "reply")
    /\ UNCHANGED <<open, timer, ttl, auths, req, known, own, adapter, adapters, containers,
                   tunnels>>

\* The rest: the connection learns its container, the client its URL; a public
\* session gets its timer; the listener of a TCP tunnel is opened by a goroutine
\* of its own (the "tunnel" event).
Reply(c) ==
    /\ pc[c] = "reply"
    /\ own' = [own EXCEPT ![c] = Session(c)]
    /\ known' = [known EXCEPT ![c] = TRUE]
    /\ ttl' = IF req[Session(c)].public THEN Armed(ttl, c) ELSE ttl
    /\ sv' = [sv EXCEPT ![Session(c)] = IF req[Session(c)].type = "tcp" THEN "event" ELSE @]
    /\ At(c, "read")
    /\ UNCHANGED <<open, timer, auths, req, sub, adapter, adapters, containers, hosts, port,
                   server, listening>>

-----------------------------------------------------------------------------
(* handleDisconnect, when the read loop finds its connection closed *)

Notice(c) ==
    /\ pc[c] = "read" /\ ~open[c]
    /\ timer' = [timer EXCEPT ![c] = FALSE]
    /\ At(c, IF known[c] THEN "unbind" ELSE "done")
    /\ UNCHANGED <<open, ttl, auths, req, known, sub, own, adapter, adapters, containers,
                   hosts, tunnels>>

\* UnbindWS deletes the mapping of its sub-domain, whoever's it is by now.
Mapped(h) == hosts
Unmapped(h) == [hosts EXCEPT ![h] = None]
Unbind(c) ==
    /\ pc[c] = "unbind"
    /\ hosts' = IF sub[c] # None THEN Unmapped(sub[c]) ELSE hosts
    /\ At(c, "destroy")
    /\ UNCHANGED <<conn, adapters, containers, tunnels>>

\* Adapter.Destroy and container.Destroy, which closes the listener it knows of
\* while it holds the containers' mutex.  Without a container (a coordinator's
\* session) it returns before, and the adapter stays.
Destroy(c) ==
    LET k == own[c] IN
    /\ pc[c] = "destroy"
    /\ At(c, "done")
    /\ \/ k \notin containers /\ UNCHANGED <<adapters, containers, listening, server>>
       \/ /\ k \in containers
          /\ adapters' = adapters \ {adapter[c]}
          /\ containers' = containers \ {k}
          /\ listening' = IF k \in server THEN [listening EXCEPT ![k] = None] ELSE listening
          /\ server' = server \ {k}
    /\ UNCHANGED <<conn, hosts, port, sv>>

-----------------------------------------------------------------------------
(* CreateServer and the accept loop of a TCP tunnel *)

Free(p) == \A k \in Sessions : listening[k] # p

\* The ports CreateServer may try: the client's, that of the listener before, or
\* one the system said was free, which another may have taken since.
Wanted(k) ==
    LET want == req[k].want IN
    IF want # Any THEN {want} ELSE IF port[k] # None THEN {port[k]} ELSE Ports

\* CreateServer up to net.Listen, which fails if another tunnel has the port or for a
\* reason outside.  The client is told that is fatal; an accept loop that tried to
\* open its listener anew gives up the old one then.
Listen(k) ==
    /\ sv[k] = "event"
    /\ \/ /\ k \in containers \ server
          /\ \E p \in Wanted(k) :
                /\ Free(p)
                /\ port' = [port EXCEPT ![k] = p]
                /\ listening' = [listening EXCEPT ![k] = p]
          /\ sv' = [sv EXCEPT ![k] = "bound"]
       \/ /\ IF k \in containers \ server
                THEN \E p \in Wanted(k) : port' = [port EXCEPT ![k] = p]
                ELSE UNCHANGED port
          /\ listening' = [listening EXCEPT ![k] = None]
          /\ sv' = [sv EXCEPT ![k] = "none"]
    /\ UNCHANGED <<conn, pc, adapters, containers, hosts, server>>

\* tcp:ready is sent and the container told.  Either may fail, the first only on a
\* broken connection, the second when the container is gone: the listener is closed.
Keeps(k) == [listening EXCEPT ![k] = @]
Closes(k) == [listening EXCEPT ![k] = None]
Attach(k) ==
    /\ sv[k] = "bound"
    /\ \/ /\ k \notin containers \/ ~open[k[1]]
          /\ sv' = [sv EXCEPT ![k] = "none"]
          /\ listening' = Closes(k)
          /\ UNCHANGED server
       \/ /\ k \in containers
          /\ server' = server \cup {k}
          /\ sv' = [sv EXCEPT ![k] = "accepting"]
          /\ UNCHANGED listening
    /\ UNCHANGED <<conn, pc, adapters, containers, hosts, port>>

\* Accept fails, because the listener was closed or for another reason.  The
\* container forgets the listener, and CreateServer is called again before the
\* deferred Close.
StillServed(k) == server
Unserved(k) == server \ {k}
AcceptFails(k) ==
    /\ sv[k] = "accepting"
    /\ server' = Unserved(k)
    /\ sv' = [sv EXCEPT ![k] = "event"]
    /\ UNCHANGED <<conn, pc, adapters, containers, hosts, port, listening>>
-----------------------------------------------------------------------------
ReadLoop(c) ==
    \/ Create(c) \/ Has(c) \/ Bind(c) \/ Reply(c) \/ Notice(c) \/ Unbind(c) \/ Destroy(c)

Next ==
    \/ \E c \in Conns :
          \/ Connect(c) \/ Break(c) \/ AuthTimeout(c) \/ Expire(c) \/ Authenticate(c)
          \/ ReadLoop(c)
    \/ \E k \in Sessions : Listen(k) \/ Attach(k) \/ AcceptFails(k)

Spec == Init /\ [][Next]_vars

\* Goroutines run and timers fire; a listener that was closed wakes its accept loop.
\* Clients owe nothing.
FairSpec ==
    /\ Spec
    /\ \A c \in Conns :
          WF_vars(ReadLoop(c)) /\ WF_vars(AuthTimeout(c)) /\ WF_vars(Expire(c))
    /\ \A k \in Sessions :
          /\ WF_vars(Listen(k) \/ Attach(k))
          /\ WF_vars(listening[k] = None /\ AcceptFails(k))
-----------------------------------------------------------------------------
(* What must hold *)

\* Every variable keeps to its range.
TypeOK ==
    /\ open \in [Conns -> BOOLEAN]
    /\ pc \in [Conns -> {"off", "read", "create", "has", "bind", "reply", "unbind",
                         "destroy", "done"}]
    /\ timer \in [Conns -> BOOLEAN]
    /\ ttl \in [Conns -> BOOLEAN]
    /\ auths \in [Conns -> 0 .. MaxAuths]
    /\ req \in [Sessions -> Requests \cup {None}]
    /\ known \in [Conns -> BOOLEAN]
    /\ sub \in [Conns -> Hosts \cup {None}]
    /\ own \in [Conns -> Sessions \cup {None}]
    /\ adapter \in [Conns -> Sessions \cup {None}]
    /\ adapters \subseteq Sessions
    /\ containers \subseteq Sessions
    /\ hosts \in [Hosts -> Sessions \cup {None}]
    /\ port \in [Sessions -> Ports \cup {None}]
    /\ server \subseteq Sessions
    /\ sv \in [Sessions -> {"none", "event", "bound", "accepting"}]
    /\ listening \in [Sessions -> Ports \cup {None}]

\* domain.go and auth.go handleDisconnect: a sub-domain leads to a container that
\* exists, of a connection that still has its clean-up before it, whichever of two
\* sessions bound it last and whichever unbound it.
MappedIsLive ==
    \A h \in Hosts : hosts[h] # None =>
        hosts[h] \in containers /\ pc[hosts[h][1]] # "done"

\* tcp.go: the SourceServer of a container is a listener that is open; CreateServer
\* would skip the container otherwise and its port stay dead.
ServedIsOpen == \A k \in server : k \in containers /\ listening[k] # None

\* auth.go handleDisconnect, "this will close TCP server and release port": when a
\* session is over its port is free again, for good, even if its listener was being
\* opened at the time.
PortFreed == \A k \in Sessions : (pc[k[1]] = "done") ~> [](listening[k] = None)

\* new.go HandleConnection, auth.go schedulePublicMonitorSessionTTL: a connection that
\* never authenticates is cut off, and so is a public session, whatever a timer that
\* fires meets.
CutOff ==
    \A c \in Conns :
        /\ (pc[c] = "read") ~> (known[c] \/ pc[c] = "done")
        /\ (known[c] /\ req[Session(c)].public) ~> (pc[c] = "done")

\* auth.go: "domain id has been used, please use another": the sub-domain a client
\* was given leads to its own session as long as that goes on.
NameIsOwn ==
    \A c \in Conns : (known[c] /\ pc[c] = "read" /\ sub[c] # None) =>
        hosts[sub[c]] = own[c]
=============================================================================
