-------------------------- MODULE MonitorSessionProofs --------------------------
(***************************************************************************)
(* Proofs about MonitorSession, for every number of connections,           *)
(* sub-domains and ports.                                                  *)
(*                                                                         *)
(* Asking says what a read loop that is authenticating has asked for, and  *)
(* makes TypeOK inductive; Serving says what the goroutine of a listener   *)
(* knows, and makes ServedIsOpen inductive; Mapping follows the session a  *)
(* sub-domain leads to, and makes MappedIsLive inductive.                  *)
(***************************************************************************)
EXTENDS MonitorSession, TLAPS

Authenticating == {"create", "has", "bind", "reply"}

\* Who is authenticating has asked for something, who is binding for a sub-domain.
Asking ==
    \A c \in Conns :
        /\ pc[c] \in Authenticating => Session(c) \in Sessions /\ req[Session(c)] \in Requests
        /\ pc[c] \in {"has", "bind"} => req[Session(c)].type = "http"

\* A listener's goroutine is that of a TCP tunnel whose authentication is over; its
\* listener is open once bound, and what the container has is what it accepts from.
Serving ==
    \A k \in Sessions :
        /\ sv[k] # "none" =>
              /\ req[k] \in Requests
              /\ req[k].type = "tcp"
              /\ k[2] <= auths[k[1]]
              /\ k[2] = auths[k[1]] => pc[k[1]] \notin Authenticating
        /\ sv[k] = "bound" => listening[k] # None
        /\ k \in server => sv[k] = "accepting" /\ k \in containers /\ listening[k] # None

IInv == TypeOK /\ Asking /\ Serving

\* The session a sub-domain leads to has bound it last, and is not yet unbound.
Leads(h, k) ==
    /\ k \in containers
    /\ sub[k[1]] = h
    /\ pc[k[1]] \in {"reply", "read", "unbind"}
    /\ pc[k[1]] = "read" => known[k[1]]

Mapping ==
    /\ \A h \in Hosts : hosts[h] # None => Leads(h, hosts[h])
    /\ \A c \in Conns :
          /\ known[c] => auths[c] # 0
          /\ own[c] # None => own[c][1] = c
          /\ pc[c] \in {"has", "bind"} => Session(c) \in containers

-----------------------------------------------------------------------------
(* Sessions and requests *)

LEMMA SessionFacts ==
    /\ \A k \in Sessions : k = <<k[1], k[2]>> /\ k[1] \in Conns /\ k[2] \in 1 .. MaxAuths
    /\ \A c \in Conns : \A n \in 1 .. MaxAuths : <<c, n>> \in Sessions
    /\ Sessions \subseteq Hosts /\ SubDomains \subseteq Hosts
    /\ None \notin Hosts /\ None \notin Ports
    /\ MaxAuths \in Nat \ {0}
BY MonitorAssumption DEF Sessions, Hosts

\* What a request's type says of what it wants.
LEMMA RequestFacts ==
    ASSUME NEW r \in Requests
    PROVE  /\ r.type = "http" => r.want \in SubDomains \cup {Any}
           /\ r.type = "tcp" => r.want \in Ports \cup {Any}
BY DEF Requests

\* A sub-domain is bound under a name of the map.
LEMMA UidIsHost ==
    ASSUME NEW c \in Conns, Session(c) \in Sessions, req[Session(c)] \in Requests,
           req[Session(c)].type = "http"
    PROVE  Uid(c) \in Hosts
BY RequestFacts, SessionFacts DEF Uid

\* A listener is opened on a port.
LEMMA WantedArePorts ==
    ASSUME NEW k \in Sessions, req[k] \in Requests, req[k].type = "tcp",
           port \in [Sessions -> Ports \cup {None}]
    PROVE  Wanted(k) \subseteq Ports
BY RequestFacts DEF Wanted

-----------------------------------------------------------------------------
(* TypeOK and ServedIsOpen *)

LEMMA InitOK == Init => IInv
BY SessionFacts DEF Init, IInv, TypeOK, Asking, Serving, Authenticating

LEMMA ConnStep ==
    ASSUME IInv, NEW c \in Conns,
           Connect(c) \/ Break(c) \/ AuthTimeout(c) \/ Expire(c) \/ Notice(c) \/ Unbind(c)
    PROVE  IInv'
<1>. USE SessionFacts DEF IInv, TypeOK, At, Session
<1>1. TypeOK'
  <2>1. CASE Connect(c) BY <2>1 DEF Connect, Armed, conn, tunnels
  <2>2. CASE Break(c) BY <2>2 DEF Break, conn, tunnels
  <2>3. CASE AuthTimeout(c) BY <2>3 DEF AuthTimeout, conn, tunnels
  <2>4. CASE Expire(c) BY <2>4 DEF Expire, conn, tunnels
  <2>5. CASE Notice(c) BY <2>5 DEF Notice, conn, tunnels
  <2>6. CASE Unbind(c) BY <2>6 DEF Unbind, Unmapped, conn, tunnels
  <2>. QED BY <2>1, <2>2, <2>3, <2>4, <2>5, <2>6
<1>2. /\ UNCHANGED <<req, auths, containers, server, sv, listening>>
      /\ \A d \in Conns : pc'[d] # pc[d] => pc'[d] \notin Authenticating
  BY DEF Connect, Break, AuthTimeout, Expire, Notice, Unbind, conn, tunnels, Authenticating
<1>3. Asking'
  BY <1>2 DEF Asking, Authenticating
<1>4. Serving'
  BY <1>2 DEF Serving
<1>. QED BY <1>1, <1>3, <1>4

\* A message of an authentication is a new session's.
LEMMA AuthenticateStep ==
    ASSUME IInv, NEW c \in Conns, Authenticate(c)
    PROVE  IInv'
<1>. USE SessionFacts DEF IInv, TypeOK
<1>. DEFINE k == <<c, auths[c] + 1>>
<1>1. /\ auths[c] + 1 \in 1 .. MaxAuths
      /\ k \in Sessions
      /\ auths' = [auths EXCEPT ![c] = auths[c] + 1]
  BY DEF Authenticate
<1>2. PICK r \in Requests : req' = [req EXCEPT ![k] = r]
  BY DEF Authenticate
<1>3. \/ pc' = [pc EXCEPT ![c] = "create"] /\ open' = open
      \/ pc' = [pc EXCEPT ![c] = "done"] /\ open' = [open EXCEPT ![c] = FALSE]
  BY DEF Authenticate, Fail, At
<1>4. /\ timer' = [timer EXCEPT ![c] = FALSE]
      /\ UNCHANGED <<ttl, known, sub, own, adapter, adapters, containers, hosts, port,
                     server, sv, listening>>
  BY DEF Authenticate, tunnels
<1>5. TypeOK'
  <2>1. auths' \in [Conns -> 0 .. MaxAuths]
    BY <1>1
  <2>2. req' \in [Sessions -> Requests \cup {None}]
    BY <1>1, <1>2
  <2>. QED BY <2>1, <2>2, <1>3, <1>4
<1>6. Asking'
  <2>. SUFFICES ASSUME NEW d \in Conns
                PROVE  /\ pc'[d] \in Authenticating =>
                              <<d, auths'[d]>> \in Sessions /\ req'[<<d, auths'[d]>>] \in Requests
                       /\ pc'[d] \in {"has", "bind"} => req'[<<d, auths'[d]>>].type = "http"
    BY DEF Asking, Session
  <2>1. CASE d = c
    <3>1. <<d, auths'[d]>> = k /\ req'[k] = r
      BY <1>1, <1>2, <2>1
    <3>2. pc'[d] \notin {"has", "bind"}
      BY <1>3, <2>1
    <3>. QED BY <3>1, <3>2, <1>1
  <2>2. CASE d # c
    <3>1. pc'[d] = pc[d] /\ auths'[d] = auths[d]
      BY <1>1, <1>3, <2>2
    <3>2. <<d, auths[d]>> \in Sessions => req'[<<d, auths[d]>>] = req[<<d, auths[d]>>]
      BY <1>2, <2>2
    <3>. QED BY <3>1, <3>2 DEF Asking, Session, Authenticating
  <2>. QED BY <2>1, <2>2
<1>7. Serving'
  <2>. SUFFICES ASSUME NEW j \in Sessions
                PROVE  sv[j] # "none" =>
                          /\ req'[j] = req[j]
                          /\ j[2] <= auths'[j[1]]
                          /\ j[2] = auths'[j[1]] => pc'[j[1]] \notin Authenticating
    BY <1>4 DEF Serving
  <2>1. CASE j[1] = c
    BY <1>1, <1>2, <2>1 DEF Serving
  <2>2. CASE j[1] # c
    <3>1. auths'[j[1]] = auths[j[1]] /\ pc'[j[1]] = pc[j[1]] /\ req'[j] = req[j]
      BY <1>1, <1>2, <1>3, <2>2
    <3>. QED BY <3>1 DEF Serving
  <2>. QED BY <2>1, <2>2
<1>. QED BY <1>5, <1>6, <1>7

LEMMA CreateStep ==
    ASSUME IInv, NEW c \in Conns, Create(c)
    PROVE  IInv'
<1>. USE SessionFacts DEF IInv, TypeOK
<1>1. Session(c) \in Sessions /\ pc[c] = "create"
  BY DEF Create, Asking, Authenticating
<1>2. \/ pc' = [pc EXCEPT ![c] = "done"] /\ open' = [open EXCEPT ![c] = FALSE]
      \/ pc' = [pc EXCEPT ![c] = "reply"] /\ open' = open
      \/ /\ pc' = [pc EXCEPT ![c] = "bind"] \/ pc' = [pc EXCEPT ![c] = "has"]
         /\ open' = open
         /\ req[Session(c)].type = "http"
  <2>1. CASE req[Session(c)].type = "unknown"
    BY <2>1 DEF Create, Fail, At
  <2>2. CASE req[Session(c)].type \notin {"unknown", "http"}
    BY <2>2 DEF Create, Fail, At
  <2>3. CASE req[Session(c)].type = "http"
    BY <2>3 DEF Create, Fail, At
  <2>. QED BY <2>1, <2>2, <2>3
<1>3. /\ adapter' = [adapter EXCEPT ![c] = Session(c)]
      /\ adapters' = adapters \cup {Session(c)}
      /\ containers' \in {containers, containers \cup {Session(c)}}
      /\ UNCHANGED <<timer, ttl, auths, req, known, sub, own, hosts, port, server, sv,
                     listening>>
  BY DEF Create, tunnels
<1>4. TypeOK'
  <2>1. pc' \in [Conns -> {"off", "read", "create", "has", "bind", "reply", "unbind",
                           "destroy", "done"}]
    BY <1>2
  <2>2. open' \in [Conns -> BOOLEAN]
    BY <1>2
  <2>3. /\ adapter' \in [Conns -> Sessions \cup {None}]
        /\ adapters' \subseteq Sessions
        /\ containers' \subseteq Sessions
    BY <1>1, <1>3
  <2>. QED BY <1>3, <2>1, <2>2, <2>3
<1>5. Asking'
  BY ZenonT(40), <1>1, <1>2, <1>3 DEF Asking, Session, Authenticating
<1>6. Serving'
  BY <1>1, <1>2, <1>3 DEF Serving, Authenticating
<1>. QED BY <1>4, <1>5, <1>6

LEMMA HasStep ==
    ASSUME IInv, NEW c \in Conns, Has(c)
    PROVE  IInv'
<1>. USE SessionFacts DEF IInv, TypeOK
<1>1. \/ pc' = [pc EXCEPT ![c] = "done"] /\ open' = [open EXCEPT ![c] = FALSE]
      \/ pc' = [pc EXCEPT ![c] = "bind"] /\ open' = open
  BY DEF Has, Fail, At
<1>2. /\ pc[c] = "has"
      /\ UNCHANGED <<timer, ttl, auths, req, known, sub, own, adapter, adapters, containers,
                     hosts, port, server, sv, listening>>
  BY DEF Has, tunnels
<1>3. TypeOK'
  BY <1>1, <1>2
<1>4. Asking'
  BY <1>1, <1>2 DEF Asking, Session, Authenticating
<1>5. Serving'
  BY <1>1, <1>2 DEF Serving, Authenticating
<1>. QED BY <1>3, <1>4, <1>5

LEMMA BindStep ==
    ASSUME IInv, NEW c \in Conns, Bind(c)
    PROVE  IInv'
<1>. USE SessionFacts DEF IInv, TypeOK
<1>1. Session(c) \in Sessions /\ Uid(c) \in Hosts
  BY UidIsHost DEF Bind, Asking, Authenticating
<1>2. /\ pc[c] = "bind"
      /\ hosts' = [hosts EXCEPT ![Uid(c)] = Session(c)]
      /\ sub' = [sub EXCEPT ![c] = Uid(c)]
      /\ pc' = [pc EXCEPT ![c] = "reply"]
      /\ UNCHANGED <<open, timer, ttl, auths, req, known, own, adapter, adapters, containers,
                     port, server, sv, listening>>
  BY DEF Bind, At, tunnels
<1>3. TypeOK'
  BY <1>1, <1>2
<1>4. Asking'
  BY <1>1, <1>2 DEF Asking, Session, Authenticating
<1>5. Serving'
  BY <1>1, <1>2 DEF Serving, Authenticating
<1>. QED BY <1>3, <1>4, <1>5

\* The goroutine of a listener starts for a session that had none.
LEMMA ReplyStep ==
    ASSUME IInv, NEW c \in Conns, Reply(c)
    PROVE  IInv'
<1>. USE SessionFacts DEF IInv, TypeOK
<1>1. /\ Session(c) \in Sessions
      /\ req[Session(c)] \in Requests
      /\ sv[Session(c)] = "none"
      /\ pc[c] = "reply"
  BY DEF Reply, Asking, Serving, Authenticating, Session
<1>2. /\ own' = [own EXCEPT ![c] = Session(c)]
      /\ known' = [known EXCEPT ![c] = TRUE]
      /\ ttl' \in {ttl, [ttl EXCEPT ![c] = TRUE]}
      /\ pc' = [pc EXCEPT ![c] = "read"]
      /\ UNCHANGED <<open, timer, auths, req, sub, adapter, adapters, containers, hosts, port,
                     server, listening>>
  BY DEF Reply, At, Armed
<1>3. \/ sv' = sv
      \/ /\ sv' = [sv EXCEPT ![Session(c)] = "event"]
         /\ req[Session(c)].type = "tcp"
  BY <1>1 DEF Reply
<1>4. TypeOK'
  <2>1. ttl' \in [Conns -> BOOLEAN]
    BY <1>2
  <2>2. sv' \in [Sessions -> {"none", "event", "bound", "accepting"}]
    BY <1>3
  <2>. QED BY <1>1, <1>2, <2>1, <2>2
<1>5. Asking'
  BY <1>2 DEF Asking, Session, Authenticating
<1>6. Serving'
  <2>. SUFFICES ASSUME NEW k \in Sessions
                PROVE  /\ sv'[k] # "none" =>
                              /\ req[k] \in Requests
                              /\ req[k].type = "tcp"
                              /\ k[2] <= auths[k[1]]
                              /\ k[2] = auths[k[1]] => pc'[k[1]] \notin Authenticating
                       /\ sv'[k] = "bound" => listening[k] # None
                       /\ k \in server =>
                             sv'[k] = "accepting" /\ k \in containers /\ listening[k] # None
    BY <1>2 DEF Serving
  <2>1. CASE sv'[k] = sv[k]
    BY <1>2, <2>1 DEF Serving, Authenticating
  <2>2. CASE sv'[k] # sv[k]
    <3>1. k = Session(c) /\ sv'[k] = "event" /\ req[k].type = "tcp"
      BY <1>3, <2>2
    <3>2. k[1] = c /\ k[2] = auths[c]
      BY <3>1 DEF Session
    <3>. QED BY <1>1, <1>2, <3>1, <3>2 DEF Serving, Authenticating
  <2>. QED BY <2>1, <2>2
<1>. QED BY <1>4, <1>5, <1>6

\* What is closed with the container is no longer the container's.
LEMMA DestroyStep ==
    ASSUME IInv, NEW c \in Conns, Destroy(c)
    PROVE  IInv'
<1>. USE SessionFacts DEF IInv, TypeOK
<1>. DEFINE k == own[c]
<1>1. /\ pc' = [pc EXCEPT ![c] = "done"]
      /\ UNCHANGED <<open, timer, ttl, auths, req, known, sub, own, adapter, hosts, port, sv>>
      /\ adapters' \subseteq adapters
  BY DEF Destroy, At, conn
<1>2. \/ UNCHANGED <<containers, listening, server>>
      \/ /\ containers' = containers \ {k}
         /\ server' = server \ {k}
         /\ listening' = IF k \in server THEN [listening EXCEPT ![k] = None] ELSE listening
  BY DEF Destroy
<1>3. TypeOK'
  BY <1>1, <1>2
<1>4. Asking'
  BY <1>1 DEF Asking, Session, Authenticating
<1>5. Serving'
  <2>1. \A j \in Sessions : sv[j] = "bound" => listening'[j] = listening[j]
    BY <1>2 DEF Serving
  <2>2. \A j \in server' : j \in server /\ listening'[j] = listening[j]
                            /\ (j \in containers => j \in containers')
    BY <1>2
  <2>. QED BY <1>1, <2>1, <2>2 DEF Serving, Authenticating
<1>. QED BY <1>3, <1>4, <1>5

LEMMA ListenerStep ==
    ASSUME IInv, NEW k \in Sessions, Listen(k) \/ Attach(k) \/ AcceptFails(k)
    PROVE  IInv'
<1>. USE SessionFacts DEF IInv, TypeOK
<1>1. /\ UNCHANGED <<open, timer, ttl, auths, req, known, sub, own, adapter, pc, adapters,
                     containers, hosts>>
      /\ sv[k] # "none"
  BY DEF Listen, Attach, AcceptFails, conn
<1>2. req[k] \in Requests /\ req[k].type = "tcp" /\ Wanted(k) \subseteq Ports
  BY <1>1, WantedArePorts DEF Serving
<1>3. TypeOK'
  <2>1. CASE Listen(k)
    <3>1. /\ port' = port \/ \E p \in Ports : port' = [port EXCEPT ![k] = p]
          /\ \E p \in Ports \cup {None} : listening' = [listening EXCEPT ![k] = p]
          /\ \E l \in {"bound", "none"} : sv' = [sv EXCEPT ![k] = l]
          /\ server' = server
      BY <1>2, <2>1 DEF Listen
    <3>2. port' \in [Sessions -> Ports \cup {None}]
      BY <3>1, SMTT(30)
    <3>3. listening' \in [Sessions -> Ports \cup {None}]
      BY <3>1
    <3>4. sv' \in [Sessions -> {"none", "event", "bound", "accepting"}]
      BY <3>1
    <3>. QED BY <1>1, <3>1, <3>2, <3>3, <3>4
  <2>2. CASE Attach(k) BY <1>1, <2>2, SMTT(30) DEF Attach, Closes
  <2>3. CASE AcceptFails(k) BY <1>1, <2>3 DEF AcceptFails, Unserved
  <2>. QED BY <2>1, <2>2, <2>3
<1>4. Asking'
  BY <1>1 DEF Asking, Session
<1>5. Serving'
  <2>1. CASE Listen(k) BY <1>1, <1>2, <2>1 DEF Listen, Serving
  <2>2. CASE Attach(k) BY <1>1, <2>2 DEF Attach, Closes, Serving
  <2>3. CASE AcceptFails(k) BY <1>1, <2>3 DEF AcceptFails, Unserved, Serving
  <2>. QED BY <2>1, <2>2, <2>3
<1>. QED BY <1>3, <1>4, <1>5

LEMMA Invariant == Spec => []IInv
<1>1. IInv /\ [Next]_vars => IInv'
  <2>. SUFFICES ASSUME IInv, [Next]_vars PROVE IInv'
    OBVIOUS
  <2>1. CASE UNCHANGED vars
    BY <2>1 DEF vars, conn, tunnels, IInv, TypeOK, Asking, Serving, Session
  <2>2. CASE Next
    BY <2>2, ConnStep, AuthenticateStep, CreateStep, HasStep, BindStep, ReplyStep,
       DestroyStep, ListenerStep DEF Next, ReadLoop
  <2>. QED BY <2>1, <2>2
<1>. QED BY InitOK, <1>1, PTL DEF Spec

\* Every variable of the monitor channel keeps to its range: a sub-domain is bound
\* under a name of the map, a listener opened on a port its client may have.
THEOREM TypeCorrect == Spec => []TypeOK
BY Invariant, PTL DEF IInv

\* tcp.go: the SourceServer of a container is a listener that is open, although the
\* listener, its goroutine and the container's destruction know of each other only
\* through the container.
THEOREM Served == Spec => []ServedIsOpen
<1>1. IInv => ServedIsOpen
  BY DEF IInv, TypeOK, Serving, ServedIsOpen
<1>. QED BY <1>1, Invariant, PTL

-----------------------------------------------------------------------------
(* MappedIsLive *)

LEMMA MappingInit == Init => Mapping
BY SessionFacts DEF Init, Mapping, Leads

\* What neither maps, unmaps nor moves a read loop on leaves the mapping alone.
LEMMA MappingStays ==
    ASSUME IInv, Mapping, UNCHANGED <<pc, known, auths, own, sub, hosts, containers>>
    PROVE  Mapping'
BY DEF Mapping, Leads, Session

\* A read loop that has nothing mapped, before its step and after, is no danger to
\* what the others have.
LEMMA MappingOthers ==
    ASSUME IInv, Mapping, NEW c \in Conns, hosts' = hosts,
           \A h \in Hosts : hosts[h] # None => hosts[h][1] # c,
           containers \subseteq containers',
           \A d \in Conns \ {c} : /\ pc'[d] = pc[d] /\ known'[d] = known[d]
                                  /\ auths'[d] = auths[d] /\ own'[d] = own[d]
                                  /\ sub'[d] = sub[d],
           known'[c] => auths'[c] # 0,
           own'[c] # None => own'[c][1] = c,
           pc'[c] \in {"has", "bind"} => Session(c)' \in containers'
    PROVE  Mapping'
<1>. USE SessionFacts DEF IInv, TypeOK
<1>1. ASSUME NEW h \in Hosts, hosts[h] # None
      PROVE  Leads(h, hosts[h])'
  <2>1. hosts[h][1] \in Conns \ {c}
    BY <1>1
  <2>. QED BY <1>1, <2>1 DEF Mapping, Leads
<1>2. ASSUME NEW d \in Conns
      PROVE  /\ known'[d] => auths'[d] # 0
             /\ own'[d] # None => own'[d][1] = d
             /\ pc'[d] \in {"has", "bind"} => Session(d)' \in containers'
  BY ZenonT(40), <1>2 DEF Mapping, Session
<1>. QED BY <1>1, <1>2 DEF Mapping

\* A read loop at one of the other places has nothing mapped.
LEMMA NothingMapped ==
    ASSUME IInv, Mapping, NEW c \in Conns,
           \/ pc[c] \notin {"reply", "read", "unbind"}
           \/ pc[c] = "read" /\ ~known[c]
    PROVE  \A h \in Hosts : hosts[h] # None => hosts[h][1] # c
BY SessionFacts DEF IInv, TypeOK, Mapping, Leads

LEMMA MappingStep ==
    ASSUME IInv, Mapping, MaxAuths = 1, Next
    PROVE  Mapping'
<1>. USE SessionFacts DEF IInv, TypeOK
<1>1. ASSUME NEW c \in Conns, Connect(c) PROVE Mapping'
  <2>1. \A h \in Hosts : hosts[h] # None => hosts[h][1] # c
    BY <1>1, NothingMapped DEF Connect
  <2>2. /\ pc' = [pc EXCEPT ![c] = "read"]
        /\ UNCHANGED <<known, auths, own, sub, hosts, containers>>
    BY <1>1 DEF Connect, At
  <2>. QED BY <2>1, <2>2, MappingOthers DEF Mapping
<1>2. ASSUME NEW c \in Conns, Break(c) \/ AuthTimeout(c) \/ Expire(c) PROVE Mapping'
  BY <1>2, MappingStays DEF Break, AuthTimeout, Expire
<1>3. ASSUME NEW c \in Conns, Authenticate(c) PROVE Mapping'
  <2>1. auths[c] = 0 /\ ~known[c] /\ pc[c] = "read"
    BY <1>3 DEF Authenticate, Mapping
  <2>2. \A h \in Hosts : hosts[h] # None => hosts[h][1] # c
    BY <2>1, NothingMapped
  <2>3. /\ pc' \in {[pc EXCEPT ![c] = "create"], [pc EXCEPT ![c] = "done"]}
        /\ auths' = [auths EXCEPT ![c] = auths[c] + 1]
        /\ UNCHANGED <<known, own, sub, hosts, containers>>
    BY <1>3 DEF Authenticate, Fail, At
  <2>4. /\ \A d \in Conns \ {c} : pc'[d] = pc[d] /\ auths'[d] = auths[d]
        /\ auths'[c] # 0
        /\ pc'[c] \notin {"has", "bind"}
    BY <2>1, <2>3
  <2>. QED BY <2>2, <2>3, <2>4, MappingOthers DEF Mapping
<1>4. ASSUME NEW c \in Conns, Create(c) PROVE Mapping'
  <2>1. pc[c] = "create" /\ Session(c) \in Sessions
    BY <1>4 DEF Create, Asking, Authenticating
  <2>2. \A h \in Hosts : hosts[h] # None => hosts[h][1] # c
    BY <2>1, NothingMapped
  <2>3. /\ \E l \in {"done", "reply", "bind", "has"} :
              /\ pc' = [pc EXCEPT ![c] = l]
              /\ l \in {"bind", "has"} => containers' = containers \cup {Session(c)}
        /\ containers \subseteq containers'
        /\ UNCHANGED <<known, auths, own, sub, hosts>>
    <3>1. CASE req[Session(c)].type = "unknown"
      BY <1>4, <3>1 DEF Create, Fail, At
    <3>2. CASE req[Session(c)].type \notin {"unknown", "http"}
      BY <1>4, <3>2 DEF Create, Fail, At
    <3>3. CASE req[Session(c)].type = "http"
      BY <1>4, <3>3 DEF Create, Fail, At
    <3>. QED BY <3>1, <3>2, <3>3
  <2>. QED BY <2>1, <2>2, <2>3, MappingOthers DEF Mapping, Session
<1>5. ASSUME NEW c \in Conns, Has(c) PROVE Mapping'
  <2>1. pc[c] = "has"
    BY <1>5 DEF Has
  <2>2. \A h \in Hosts : hosts[h] # None => hosts[h][1] # c
    BY <2>1, NothingMapped
  <2>3. /\ pc' \in {[pc EXCEPT ![c] = "bind"], [pc EXCEPT ![c] = "done"]}
        /\ UNCHANGED <<known, auths, own, sub, hosts, containers>>
    BY <1>5 DEF Has, Fail, At
  <2>. QED BY <2>1, <2>2, <2>3, MappingOthers DEF Mapping, Session
<1>6. ASSUME NEW c \in Conns, Bind(c) PROVE Mapping'
  <2>1. /\ pc[c] = "bind"
        /\ Session(c) \in Sessions
        /\ Session(c) \in containers
        /\ Session(c)[1] = c
        /\ Uid(c) \in Hosts
    BY <1>6, UidIsHost DEF Bind, Asking, Authenticating, Mapping, Session
  <2>2. \A h \in Hosts : hosts[h] # None => hosts[h][1] # c
    BY <2>1, NothingMapped
  <2>3. /\ hosts' = [hosts EXCEPT ![Uid(c)] = Session(c)]
        /\ sub' = [sub EXCEPT ![c] = Uid(c)]
        /\ pc' = [pc EXCEPT ![c] = "reply"]
        /\ UNCHANGED <<known, auths, own, containers>>
    BY <1>6 DEF Bind, At
  <2>4. ASSUME NEW h \in Hosts, hosts'[h] # None PROVE Leads(h, hosts[h])'
    <3>1. CASE h = Uid(c)
      BY <2>1, <2>3, <3>1 DEF Leads
    <3>2. CASE h # Uid(c)
      <4>1. hosts'[h] = hosts[h] /\ hosts[h][1] # c /\ hosts[h][1] \in Conns
        BY <2>1, <2>2, <2>3, <2>4, <3>2
      <4>. QED BY <2>3, <2>4, <4>1 DEF Mapping, Leads
    <3>. QED BY <3>1, <3>2
  <2>. QED BY <2>1, <2>3, <2>4 DEF Mapping, Session
<1>7. ASSUME NEW c \in Conns, Reply(c) PROVE Mapping'
  <2>1. /\ pc' = [pc EXCEPT ![c] = "read"]
        /\ known' = [known EXCEPT ![c] = TRUE]
        /\ own' = [own EXCEPT ![c] = Session(c)]
        /\ Session(c) \in Sessions
        /\ Session(c)[1] = c
        /\ auths[c] # 0
        /\ UNCHANGED <<auths, sub, hosts, containers>>
    BY <1>7 DEF Reply, At, Asking, Authenticating, Session
  <2>2. ASSUME NEW h \in Hosts, hosts[h] # None PROVE Leads(h, hosts[h])'
    BY <2>1, <2>2 DEF Mapping, Leads
  <2>. QED BY <2>1, <2>2 DEF Mapping, Session
<1>8. ASSUME NEW c \in Conns, Notice(c) PROVE Mapping'
  <2>1. /\ pc[c] = "read"
        /\ pc' = [pc EXCEPT ![c] = IF known[c] THEN "unbind" ELSE "done"]
        /\ UNCHANGED <<known, auths, own, sub, hosts, containers>>
    BY <1>8 DEF Notice, At
  <2>2. ASSUME NEW h \in Hosts, hosts[h] # None PROVE Leads(h, hosts[h])'
    BY <2>1, <2>2 DEF Mapping, Leads
  <2>. QED BY <2>1, <2>2 DEF Mapping, Session
<1>9. ASSUME NEW c \in Conns, Unbind(c) PROVE Mapping'
  <2>1. /\ pc' = [pc EXCEPT ![c] = "destroy"]
        /\ hosts' = IF sub[c] # None THEN [hosts EXCEPT ![sub[c]] = None] ELSE hosts
        /\ UNCHANGED <<known, auths, own, sub, containers>>
    BY <1>9 DEF Unbind, Unmapped, At, conn
  <2>2. ASSUME NEW h \in Hosts, hosts'[h] # None PROVE Leads(h, hosts[h])'
    <3>1. hosts'[h] = hosts[h] /\ h # sub[c] /\ hosts[h][1] \in Conns
      BY <2>1, <2>2
    <3>2. hosts[h][1] # c
      BY <2>2, <3>1 DEF Mapping, Leads
    <3>. QED BY <2>1, <2>2, <3>1, <3>2 DEF Mapping, Leads
  <2>. QED BY <2>1, <2>2 DEF Mapping, Session
<1>10. ASSUME NEW c \in Conns, Destroy(c) PROVE Mapping'
  <2>1. /\ pc[c] = "destroy"
        /\ pc' = [pc EXCEPT ![c] = "done"]
        /\ containers' \in {containers, containers \ {own[c]}}
        /\ UNCHANGED <<known, auths, own, sub, hosts>>
    BY <1>10 DEF Destroy, At, conn
  <2>2. \A k \in containers : k[1] # c => k \in containers'
    BY <2>1 DEF Mapping
  <2>3. ASSUME NEW h \in Hosts, hosts[h] # None PROVE Leads(h, hosts[h])'
    <3>1. hosts[h][1] # c /\ hosts[h][1] \in Conns
      BY <2>1, <2>3, NothingMapped
    <3>. QED BY <2>1, <2>2, <2>3, <3>1 DEF Mapping, Leads
  <2>4. ASSUME NEW d \in Conns, pc'[d] \in {"has", "bind"} PROVE Session(d) \in containers'
    <3>1. d # c /\ Session(d)[1] = d /\ Session(d) \in containers
      BY <2>1, <2>4 DEF Mapping, Session
    <3>. QED BY <2>2, <3>1
  <2>. QED BY <2>1, <2>3, <2>4 DEF Mapping, Session
<1>11. ASSUME NEW k \in Sessions, Listen(k) \/ Attach(k) \/ AcceptFails(k) PROVE Mapping'
  BY <1>11, MappingStays DEF Listen, Attach, AcceptFails, conn
<1>. QED
  BY <1>1, <1>2, <1>3, <1>4, <1>5, <1>6, <1>7, <1>8, <1>9, <1>10, <1>11 DEF Next, ReadLoop

\* auth.go and domain.go: if clients authenticate once per connection, a sub-domain
\* leads to a container that exists and to a connection that still has its clean-up
\* before it, whoever else is given the name, binds and unbinds it.
THEOREM MappedLive == Spec => [](MaxAuths = 1 => MappedIsLive)
<1>. DEFINE M == MaxAuths = 1 => Mapping
<1>1. Init => M
  BY MappingInit
<1>2. IInv /\ M /\ [Next]_vars => M'
  <2>. SUFFICES ASSUME IInv, Mapping, MaxAuths = 1, [Next]_vars PROVE Mapping'
    OBVIOUS
  <2>1. CASE UNCHANGED vars
    BY <2>1, MappingStays DEF vars, conn
  <2>2. CASE Next
    BY <2>2, MappingStep
  <2>. QED BY <2>1, <2>2
<1>3. IInv /\ M => (MaxAuths = 1 => MappedIsLive)
  BY DEF Mapping, Leads, MappedIsLive
<1>4. QED
  <2>. HIDE DEF M
  <2>. QED BY <1>1, <1>2, <1>3, Invariant, PTL DEF Spec
=============================================================================
