-------------------------- MODULE ClientSessionProofs --------------------------
(***************************************************************************)
(* Proofs about ClientSession, for every number of sessions and every set  *)
(* of streams.                                                             *)
(*                                                                         *)
(* Turn says whose turn it is: the goroutine of the last connection while  *)
(* it is read and lost, and the goroutine that made it until its read loop *)
(* is started.  From it follows that nobody interferes with a goroutine    *)
(* that replaces the connection, other than the timers' callbacks, which   *)
(* leave monitorConn and monitorAuthOK alone.  Asked says why a data       *)
(* channel is dialled with the right container id: the server asks for one *)
(* only after it has accepted the session.                                 *)
(***************************************************************************)
EXTENDS ClientSession, TLAPS

-----------------------------------------------------------------------------
(* The inductive invariant *)

\* A read loop, from its first read to the moment it has no connection any more.
OwnPoints == {"read", "open", "disconnect", "retry", "reset", "close"}
Connects(t) == pc[t] \in {"begin", "authenticate", "spawn"} \/ (t = 0 /\ pc[t] = "settle")

Turn ==
    /\ monitorConn \in {0, session} /\ session \in Threads
    /\ \A t \in Threads : t > session => pc[t] = "off"
    /\ pc[0] \notin OwnPoints
    /\ \A t \in Threads :
          /\ pc[t] \in OwnPoints => t = session /\ t = monitorConn
          /\ pc[t] = "dial" => t = session /\ monitorConn = 0
          /\ Connects(t) => /\ session = t + 1 /\ monitorConn = session
                            /\ pc[session] = "off"

AuthOf ==
    /\ monitorAuthOK => containerId = monitorConn /\ monitorConn # 0
    /\ \A t \in Threads : pc[t] \in {"close", "dial"} => ~monitorAuthOK

\* The server accepted s: the client knows it, or is about to read it, before the i-th event.
Accepted(s, i) ==
    \/ containerId = s
    \/ \E j \in 1 .. Len(inbox[s]) : j < i /\ inbox[s][j] = "authenticated"

Asked ==
    \A s \in Sessions :
        /\ s > session => inbox[s] = <<>> /\ ~held[s] /\ wire[s] = "none"
        /\ monitorConn = s =>
              /\ held[s] => Accepted(s, Len(inbox[s]) + 1)
              /\ \A i \in 1 .. Len(inbox[s]) : inbox[s][i] \in Streams => Accepted(s, i)
              /\ pc[s] = "open" => inbox[s] # <<>> /\ Head(inbox[s]) \in Streams

Opens == \A x \in Streams : dataConns[x] # 0 => dataConns[x] = containerId
                                               /\ containerId = monitorConn

IInv == TypeOK /\ Turn /\ AuthOf /\ Asked /\ Opens

-----------------------------------------------------------------------------
LEMMA Constants ==
    /\ MaxSessions \in Nat /\ MaxSessions > 0
    /\ Sessions \subseteq Threads /\ 0 \in Threads /\ Threads \subseteq Nat
    /\ \A t \in Threads : t # 0 => t \in Sessions
    /\ \A s \in Sessions : s > 0
    /\ Streams \cap Events = {}
BY ClientAssumption DEF Sessions, Threads

LEMMA InitOK == Init => IInv
<1>. SUFFICES ASSUME Init PROVE IInv
  OBVIOUS
<1>. USE Constants DEF Init
<1>1. TypeOK
  <2>1. \A s \in Sessions : <<>> \in Seq(Events \cup Streams)
    OBVIOUS
  <2>. QED BY <2>1 DEF TypeOK
<1>2. Turn
  BY DEF Turn, OwnPoints, Connects
<1>3. AuthOf /\ Opens
  BY DEF AuthOf, Opens
<1>4. Asked
  BY DEF Asked
<1>. QED BY <1>1, <1>2, <1>3, <1>4 DEF IInv

\* At most one goroutine connects, reads or reconnects.
LEMMA Alone ==
    ASSUME Turn, NEW t \in Threads, NEW u \in Threads, pc[t] \in OwnPoints,
           pc[u] \in OwnPoints \/ pc[u] = "dial" \/ Connects(u)
    PROVE  t = u
<1>. USE Constants
<1>1. t = session /\ t = monitorConn /\ t # 0
  BY DEF Turn
<1>2. CASE pc[u] \in OwnPoints
  BY <1>1, <1>2 DEF Turn
<1>3. CASE pc[u] = "dial"
  BY <1>1, <1>3 DEF Turn
<1>4. CASE Connects(u)
  BY <1>1, <1>4 DEF Turn, OwnPoints
<1>. QED BY <1>2, <1>3, <1>4

\* What leaves the goroutines and the connection alone.
LEMMA Quiet ==
    ASSUME Turn, AuthOf, Asked, Opens,
           UNCHANGED <<pc, session, monitorConn, auth, inbox, held>>,
           \A s \in Sessions : s > session /\ wire[s] = "none" => wire'[s] = "none",
           \A x \in Streams : dataConns'[x] \in {0, dataConns[x]}
    PROVE  (Turn /\ AuthOf /\ Asked /\ Opens)'
<1>. USE DEF auth
<1>1. Turn' /\ AuthOf'
  BY DEF Turn, AuthOf, Connects
<1>2. Asked'
  BY DEF Asked, Accepted
<1>3. Opens'
  BY DEF Opens
<1>. QED BY <1>1, <1>2, <1>3

\* A goroutine goes on, without a new connection and without an event.
LEMMA Move ==
    ASSUME TypeOK, Turn, AuthOf, Asked, Opens, NEW t \in Threads, NEW l,
           pc' = [pc EXCEPT ![t] = l],
           \/ /\ t # 0 /\ pc[t] \in OwnPoints /\ l \in OwnPoints \cup {"deaf"}
              /\ l = "open" => inbox[t] # <<>> /\ Head(inbox[t]) \in Streams
              /\ l = "close" => ~monitorAuthOK'
           \/ Connects(t) /\ \/ l \in {"begin", "authenticate", "spawn"}
                             \/ t = 0 /\ l = "settle"
           \/ t # 0 /\ pc[t] = "settle" /\ l = "done",
           UNCHANGED <<session, monitorConn, containerId, inbox, held>>,
           monitorAuthOK' => monitorAuthOK,
           \A s \in Sessions : s > session /\ wire[s] = "none" => wire'[s] = "none",
           \A x \in Streams : dataConns'[x] \in {0, dataConns[x]}
    PROVE  (Turn /\ AuthOf /\ Asked /\ Opens)'
<1>. USE Constants
<1>1. /\ pc'[t] = l /\ \A u \in Threads : u # t => pc'[u] = pc[u]
      /\ session \in Threads /\ session' = session /\ monitorConn' = monitorConn
  BY DEF TypeOK
<1>2. Turn'
  <2>1. t <= session /\ (pc[t] \in OwnPoints => t = session /\ t = monitorConn)
    BY DEF Turn, Connects, OwnPoints
  <2>2. \A u \in Threads : Connects(u)' =>
            session = u + 1 /\ monitorConn = session /\ pc'[session] = "off"
    <3>1. ASSUME NEW u \in Threads, Connects(u)'
          PROVE  Connects(u)
      BY <1>1, <3>1 DEF Connects, OwnPoints
    <3>. QED BY <1>1, <3>1 DEF Turn, Connects, OwnPoints
  <2>3. pc'[0] \notin OwnPoints
    BY <1>1, <2>1 DEF Turn, OwnPoints, Connects
  <2>4. \A u \in Threads : /\ u > session => pc'[u] = "off"
                           /\ pc'[u] \in OwnPoints => u = session /\ u = monitorConn
                           /\ pc'[u] = "dial" => u = session /\ monitorConn = 0
    BY <1>1, <2>1 DEF Turn, OwnPoints, Connects
  <2>. QED BY <1>1, <2>2, <2>3, <2>4 DEF Turn
<1>3. AuthOf'
  BY <1>1 DEF AuthOf, OwnPoints, Connects
<1>4. Asked'
  <2>1. ASSUME NEW s \in Sessions, monitorConn = s, pc'[s] = "open"
        PROVE  inbox[s] # <<>> /\ Head(inbox[s]) \in Streams
    BY <1>1, <2>1 DEF Asked, OwnPoints, Connects
  <2>. QED BY <1>1, <2>1 DEF Asked, Accepted
<1>5. Opens'
  BY DEF Opens
<1>. QED BY <1>2, <1>3, <1>4, <1>5

-----------------------------------------------------------------------------
(* Types *)

PcOK == pc \in [Threads -> {"off", "dial", "begin", "authenticate", "settle", "spawn", "read",
                            "open", "disconnect", "retry", "reset", "close", "deaf", "done"}]

LEMMA TakenType ==
    ASSUME TypeOK, Taken, monitorConn \in Sessions => inbox[monitorConn] # <<>>
    PROVE  inbox' \in [Sessions -> Seq(Events \cup Streams)]
<1>1. inbox \in [Sessions -> Seq(Events \cup Streams)]
  BY DEF TypeOK
<1>2. ASSUME monitorConn \in Sessions
      PROVE  Tail(inbox[monitorConn]) \in Seq(Events \cup Streams)
  BY <1>1, <1>2
<1>. QED BY <1>1, <1>2 DEF Taken

LEMMA GoType ==
    ASSUME TypeOK, NEW t \in Threads,
           NEW l \in {"off", "dial", "begin", "authenticate", "settle", "spawn", "read", "open",
                      "disconnect", "retry", "reset", "close", "deaf", "done"},
           Go(t, l)
    PROVE  PcOK'
BY DEF TypeOK, Go, PcOK

LEMMA ExitType ==
    ASSUME TypeOK, NEW c \in Causes, Exit(c)
    PROVE  TypeOK'
BY DEF TypeOK, Exit, server, auth, beat, exits, calls

LEMMA ConnectingType ==
    ASSUME TypeOK, NEW t \in Threads, Connecting(t)
    PROVE  TypeOK'
<1>. USE Constants DEF server, beat, exits, auth, calls, PcOK
<1>1. CASE Dial(t)
  <2>1. CASE Exit("dial")
    BY <2>1, ExitType DEF Causes
  <2>2. CASE ~Exit("dial")
    <3>1. session + 1 \in Sessions /\ session + 1 \in Threads
      BY <1>1, <2>2 DEF Dial, TypeOK, Sessions, Threads
    <3>2. PcOK'
      BY <1>1, <2>2, GoType DEF Dial
    <3>. QED BY <1>1, <2>2, <3>1, <3>2 DEF Dial, TypeOK
  <2>. QED BY <2>1, <2>2
<1>2. CASE Begin(t)
  <2>1. PcOK'
    BY <1>2, GoType DEF Begin
  <2>. QED BY <1>2, <2>1 DEF Begin, TypeOK
<1>3. CASE Authenticate(t)
  <2>1. CASE Exit("unready")
    BY <2>1, ExitType DEF Causes
  <2>2. CASE ~Exit("unready")
    <3>1. Go(t, IF t = 0 THEN "settle" ELSE "spawn")
      BY <1>3, <2>2 DEF Authenticate
    <3>2. PcOK'
      BY <3>1, GoType
    <3>3. asked' \in [Sessions -> BOOLEAN]
      BY <1>3, <2>2 DEF Authenticate, TypeOK, Reaches
    <3>. QED BY <1>3, <2>2, <3>2, <3>3 DEF Authenticate, TypeOK
  <2>. QED BY <2>1, <2>2
<1>4. CASE Spawn(t)
  BY <1>4 DEF Spawn, TypeOK
<1>5. CASE Settle(t)
  <2>1. Go(t, IF t = 0 THEN "spawn" ELSE "done")
    BY <1>5 DEF Settle, Returns
  <2>2. PcOK'
    BY <2>1, GoType
  <2>. QED BY <1>5, <2>2 DEF Settle, TypeOK
<1>. QED BY <1>1, <1>2, <1>3, <1>4, <1>5 DEF Connecting

LEMMA ReadingType ==
    ASSUME TypeOK, Turn, Asked, NEW t \in Sessions, Reading(t)
    PROVE  TypeOK'
<1>. USE Constants DEF server, beat, exits, auth, calls, PcOK
<1>1. CASE Authenticated(t)
  <2>1. inbox' \in [Sessions -> Seq(Events \cup Streams)]
    BY <1>1, TakenType DEF Authenticated, Reads
  <2>. QED BY <1>1, <2>1 DEF Authenticated, TypeOK
<1>2. CASE Rejected(t)
  BY <1>2, ExitType DEF Rejected, Causes
<1>3. CASE Pong(t)
  <2>1. inbox' \in [Sessions -> Seq(Events \cup Streams)]
    BY <1>3, TakenType DEF Pong, Reads
  <2>. QED BY ZenonT(40), <1>3, <2>1 DEF Pong, TypeOK
<1>4. CASE OpenChannel(t)
  <2>1. PcOK'
    BY <1>4, GoType DEF OpenChannel
  <2>. QED BY <1>4, <2>1 DEF OpenChannel, TypeOK
<1>5. CASE Opened(t)
  <2>1. t = monitorConn /\ inbox[t] # <<>>
    BY <1>5 DEF Opened, At, Turn, Asked, OwnPoints
  <2>2. inbox' \in [Sessions -> Seq(Events \cup Streams)]
    BY <1>5, <2>1, TakenType DEF Opened
  <2>3. PcOK'
    BY <1>5, GoType DEF Opened
  <2>4. dataConns' \in [Streams -> Threads]
    BY ZenonT(40), <1>5 DEF Opened, TypeOK
  <2>. QED BY <1>5, <2>2, <2>3, <2>4 DEF Opened, TypeOK
<1>6. CASE ReadFails(t)
  <2>1. CASE Exit("public")
    BY <2>1, ExitType DEF Causes
  <2>2. CASE ~Exit("public")
    <3>1. \E l \in {"retry", "disconnect", "deaf"} : Go(t, l)
      BY <1>6, <2>2 DEF ReadFails
    <3>2. PcOK'
      BY <3>1, GoType
    <3>. QED BY <1>6, <2>2, <3>2 DEF ReadFails, TypeOK
  <2>. QED BY <2>1, <2>2
<1>. QED BY <1>1, <1>2, <1>3, <1>4, <1>5, <1>6 DEF Reading

LEMMA LosingType ==
    ASSUME TypeOK, NEW t \in Sessions, Losing(t)
    PROVE  TypeOK'
<1>. USE Constants DEF server, beat, exits, auth, calls, PcOK
<1>1. CASE Disconnect(t)
  <2>1. PcOK'
    BY <1>1, GoType DEF Disconnect
  <2>. QED BY <1>1, <2>1 DEF Disconnect, HandleDisconnect, TypeOK
<1>2. CASE Retry(t)
  <2>1. CASE Exit("unauthenticated")
    BY <2>1, ExitType DEF Causes
  <2>2. CASE ~Exit("unauthenticated")
    <3>1. PcOK'
      BY <1>2, <2>2, GoType DEF Retry
    <3>. QED BY <1>2, <2>2, <3>1 DEF Retry, TypeOK
  <2>. QED BY <2>1, <2>2
<1>3. CASE Reset(t)
  <2>1. PcOK'
    BY <1>3, GoType DEF Reset
  <2>. QED BY <1>3, <2>1 DEF Reset, Reauth, TypeOK
<1>4. CASE Close(t)
  <2>1. PcOK'
    BY <1>4, GoType DEF Close
  <2>2. /\ UNCHANGED <<exited, session, inbox, asked, held, wanted, monitorAuthOK, containerId,
                        closing>>
        /\ UNCHANGED <<heartbeatActive, pingTimer, pingTimeoutTimer, reconnectTimeout, authTimeout,
                        ping, late>>
    BY <1>4 DEF Close
  <2>3. /\ wire' \in [Sessions -> {"none", "open", "dropped", "odd", "expired", "closed"}]
        /\ monitorConn' \in Threads /\ dataConns' \in [Streams -> Threads]
    BY <1>4 DEF Close, Cleared, TypeOK
  <2>. QED BY <2>1, <2>2, <2>3 DEF TypeOK
<1>. QED BY <1>1, <1>2, <1>3, <1>4 DEF Losing

LEMMA TimersType ==
    ASSUME TypeOK, Beating \/ TimingOut \/ AuthExpires \/ ReconnectExpires
    PROVE  TypeOK'
<1>. USE Constants DEF server, beat, exits, auth, calls
<1>1. CASE PingFires \/ ArmTimeout \/ TimeoutFires \/ Mark
  <2>1. CASE PingFires
    BY <2>1 DEF PingFires, TypeOK
  <2>2. CASE ArmTimeout
    BY <2>2 DEF ArmTimeout, TypeOK
  <2>3. CASE TimeoutFires
    BY <2>3 DEF TimeoutFires, TypeOK
  <2>4. CASE Mark
    BY <2>4 DEF Mark, TypeOK
  <2>. QED BY <1>1, <2>1, <2>2, <2>3, <2>4
<1>2. CASE SendPing
  <2>1. \A q \in Seq(Events \cup Streams) : Append(q, "pong") \in Seq(Events \cup Streams)
    BY DEF Events
  <2>2. CASE inbox' = inbox
    BY <1>2, <2>2 DEF SendPing, TypeOK
  <2>3. CASE inbox' = [inbox EXCEPT ![monitorConn] = Append(@, "pong")]
    <3>1. inbox' \in [Sessions -> Seq(Events \cup Streams)]
      BY <2>1, <2>3 DEF TypeOK
    <3>. QED BY <1>2, <3>1 DEF SendPing, TypeOK
  <2>4. inbox' = inbox \/ inbox' = [inbox EXCEPT ![monitorConn] = Append(@, "pong")]
    <3>1. CASE monitorConn \in Sessions
      BY <1>2, <3>1 DEF SendPing, TypeOK
    <3>2. CASE monitorConn \notin Sessions
      BY <1>2, <3>2 DEF SendPing, TypeOK
    <3>. QED BY <3>1, <3>2
  <2>. QED BY <2>2, <2>3, <2>4
<1>3. CASE StopHeartbeat \/ CloseConn \/ LateDisconnect
  <2>1. CASE StopHeartbeat
    BY <2>1 DEF StopHeartbeat, TypeOK
  <2>2. CASE CloseConn
    BY <2>2 DEF CloseConn, TypeOK
  <2>3. CASE LateDisconnect
    BY <2>3 DEF LateDisconnect, HandleDisconnect, TypeOK
  <2>. QED BY <1>3, <2>1, <2>2, <2>3
<1>4. CASE AuthExpires \/ ReconnectExpires
  BY <1>4, ExitType DEF AuthExpires, ReconnectExpires, Causes
<1>. QED BY <1>1, <1>2, <1>3, <1>4 DEF Beating, TimingOut

LEMMA WorldType ==
    ASSUME TypeOK,
           \/ \E x \in Streams : ChannelEnds(x)
           \/ \E s \in Sessions : \/ Break(s) \/ Answer(s) \/ Notice(s)
                                  \/ \E x \in Streams : Want(s, x)
    PROVE  TypeOK'
<1>. USE Constants DEF server, beat, exits, auth, calls
<1>1. CASE \E x \in Streams : ChannelEnds(x)
  BY <1>1 DEF ChannelEnds, TypeOK
<1>2. ASSUME NEW s \in Sessions, Break(s) \/ Notice(s)
      PROVE  TypeOK'
  <2>1. CASE Break(s)
    <3>1. wire' \in [Sessions -> {"none", "open", "dropped", "odd", "expired", "closed"}]
      BY <2>1 DEF Break, TypeOK
    <3>. QED BY <2>1, <3>1 DEF Break, TypeOK
  <2>2. CASE Notice(s)
    <3>1. held' \in [Sessions -> BOOLEAN]
      BY <2>2 DEF Notice, TypeOK
    <3>. QED BY <2>2, <3>1 DEF Notice, TypeOK
  <2>. QED BY <1>2, <2>1, <2>2
<1>3. ASSUME NEW s \in Sessions, Answer(s)
      PROVE  TypeOK'
  <2>1. PICK m \in {<<"authenticated">>, <<"refused">>, <<"authenticated", "fatal">>} :
            inbox' = [inbox EXCEPT ![s] = @ \o m]
    <3>1. inbox[s] \in Seq(Events \cup Streams)
      BY DEF TypeOK
    <3>2. Append(inbox[s], "authenticated") = inbox[s] \o <<"authenticated">>
      BY <3>1
    <3>. QED BY <1>3, <3>2 DEF Answer
  <2>2. \A q \in Seq(Events \cup Streams) : q \o m \in Seq(Events \cup Streams)
    <3>1. /\ <<"authenticated">> \in Seq(Events \cup Streams)
          /\ <<"refused">> \in Seq(Events \cup Streams)
          /\ <<"authenticated", "fatal">> \in Seq(Events \cup Streams)
      BY DEF Events
    <3>2. m \in Seq(Events \cup Streams)
      BY <3>1, Zenon
    <3>. QED BY <3>2
  <2>3. inbox' \in [Sessions -> Seq(Events \cup Streams)]
    BY <2>1, <2>2 DEF TypeOK
  <2>4. asked' \in [Sessions -> BOOLEAN] /\ held' \in [Sessions -> BOOLEAN]
    BY <1>3 DEF Answer, TypeOK
  <2>. QED BY <1>3, <2>3, <2>4 DEF Answer, TypeOK
<1>4. ASSUME NEW s \in Sessions, NEW x \in Streams, Want(s, x)
      PROVE  TypeOK'
  <2>1. inbox' \in [Sessions -> Seq(Events \cup Streams)]
    BY <1>4 DEF Want, TypeOK
  <2>. QED BY <1>4, <2>1 DEF Want, TypeOK
<1>. QED BY <1>1, <1>2, <1>3, <1>4

-----------------------------------------------------------------------------
(* The invariant is inductive *)

\* What reading an event leaves of Asked, when it is not the acceptance that is lost.
LEMMA TakenAsked ==
    ASSUME TypeOK, Turn, Asked, NEW t \in Sessions, monitorConn = t, inbox[t] # <<>>, Taken,
           Head(inbox[t]) # "authenticated" \/ containerId' = t,
           containerId' = containerId \/ containerId' = t,
           UNCHANGED <<session, monitorConn, held, wire>>, pc'[t] # "open"
    PROVE  Asked'
<1>. USE Constants
<1>. DEFINE q == inbox[t]
<1>1. /\ q \in Seq(Events \cup Streams) /\ Len(q) \in Nat /\ Len(q) > 0 /\ Head(q) = q[1]
      /\ Len(Tail(q)) = Len(q) - 1
      /\ \A i \in 1 .. Len(Tail(q)) : Tail(q)[i] = q[i + 1]
  BY DEF TypeOK
<1>2. inbox'[t] = Tail(q) /\ \A s \in Sessions : s # t => inbox'[s] = inbox[s]
  BY DEF Taken, TypeOK
<1>3. ASSUME NEW i \in 1 .. Len(Tail(q)) + 1, Accepted(t, i + 1)
      PROVE  Accepted(t, i)'
  <2>1. CASE containerId' = t
    BY <2>1 DEF Accepted
  <2>2. CASE containerId' # t
    <3>1. PICK j \in 1 .. Len(q) : j < i + 1 /\ q[j] = "authenticated"
      BY <1>3, <2>2 DEF Accepted
    <3>2. j # 1
      BY <1>1, <2>2, <3>1
    <3>3. j - 1 \in 1 .. Len(Tail(q)) /\ j - 1 < i /\ Tail(q)[j - 1] = "authenticated"
      BY <1>1, <3>1, <3>2
    <3>. QED BY <1>2, <3>3 DEF Accepted
  <2>. QED BY <2>1, <2>2
<1>4. held'[t] => Accepted(t, Len(inbox[t]) + 1)'
  <2>1. PICK n \in Nat : n = Len(q)
    BY <1>1
  <2>2. held[t] => Accepted(t, n + 1)
    BY <2>1 DEF Asked
  <2>3. n \in 1 .. Len(Tail(q)) + 1 /\ Len(inbox'[t]) + 1 = n
    BY <1>1, <1>2, <2>1
  <2>4. held[t] => Accepted(t, n)'
    BY <1>3, <2>2, <2>3
  <2>. QED BY <2>3, <2>4 DEF Accepted
<1>5. ASSUME NEW i \in 1 .. Len(Tail(q)), Tail(q)[i] \in Streams
      PROVE  Accepted(t, i)'
  BY <1>1, <1>3, <1>5 DEF Asked
<1>6. ~(t > session)
  BY DEF Turn
<1>7. \A i \in 1 .. Len(inbox'[t]) : inbox'[t][i] \in Streams => Accepted(t, i)'
  BY <1>2, <1>5
<1>8. \A s \in Sessions : s > session => inbox'[s] = <<>> /\ ~held'[s] /\ wire'[s] = "none"
  BY <1>2, <1>6 DEF Asked
<1>. QED BY <1>4, <1>7, <1>8 DEF Asked

\* What is added to the events of s leaves the acceptance before them.
LEMMA AppendAsked ==
    ASSUME TypeOK, Asked, NEW s \in Sessions, wire[s] = "open",
           NEW m \in Seq(Events \cup Streams), m # <<>>,
           inbox' = [inbox EXCEPT ![s] = @ \o m],
           UNCHANGED <<pc, session, monitorConn, containerId, wire>>,
           \A r \in Sessions : r # s => held'[r] = held[r],
           held'[s] => held[s] \/ m[1] = "authenticated",
           \A i \in 1 .. Len(m) : m[i] \in Streams => held[s]
    PROVE  Asked'
<1>. USE Constants
<1>1. /\ inbox[s] \in Seq(Events \cup Streams) /\ Len(inbox[s]) \in Nat /\ Len(m) \in Nat
      /\ Len(m) > 0 /\ inbox'[s] = inbox[s] \o m /\ \A r \in Sessions : r # s => inbox'[r] = inbox[r]
  BY DEF TypeOK
<1>2. /\ Len(inbox'[s]) = Len(inbox[s]) + Len(m)
      /\ \A i \in 1 .. Len(inbox[s]) : inbox'[s][i] = inbox[s][i]
      /\ \A i \in 1 .. Len(m) : inbox'[s][Len(inbox[s]) + i] = m[i]
  BY <1>1
<1>3. \A r \in Sessions : r > session => inbox'[r] = <<>> /\ ~held'[r] /\ wire'[r] = "none"
  BY <1>1 DEF Asked
<1>4. ASSUME NEW r \in Sessions, monitorConn = r, r # s
      PROVE  /\ held'[r] => Accepted(r, Len(inbox[r]) + 1)'
             /\ \A i \in 1 .. Len(inbox'[r]) : inbox'[r][i] \in Streams => Accepted(r, i)'
             /\ pc'[r] = "open" => inbox'[r] # <<>> /\ Head(inbox'[r]) \in Streams
  <2>1. inbox'[r] = inbox[r] /\ held'[r] = held[r] /\ pc'[r] = pc[r] /\ containerId' = containerId
    BY <1>1, <1>4
  <2>2. \A i \in Nat : Accepted(r, i) => Accepted(r, i)'
    BY <2>1 DEF Accepted
  <2>3. Len(inbox[r]) \in Nat
    BY DEF TypeOK
  <2>4. held[r] => Accepted(r, Len(inbox[r]) + 1)'
    <3>1. PICK n \in Nat : n = Len(inbox[r]) + 1
      BY <2>3
    <3>2. held[r] => Accepted(r, n)'
      BY <1>4, <2>2, <3>1 DEF Asked
    <3>. QED BY <2>1, <3>1, <3>2 DEF Accepted
  <2>5. \A i \in 1 .. Len(inbox[r]) : inbox[r][i] \in Streams => Accepted(r, i)'
    BY <1>4, <2>2, <2>3 DEF Asked
  <2>. QED BY <1>4, <2>1, <2>4, <2>5 DEF Asked
<1>5. ASSUME monitorConn = s
      PROVE  /\ held'[s] => Accepted(s, Len(inbox[s]) + 1)'
             /\ \A i \in 1 .. Len(inbox'[s]) : inbox'[s][i] \in Streams => Accepted(s, i)'
             /\ pc'[s] = "open" => inbox'[s] # <<>> /\ Head(inbox'[s]) \in Streams
  <2>1. ASSUME NEW i \in Nat, NEW k \in Nat, i <= k, i <= Len(inbox[s]) + 1, Accepted(s, i)
        PROVE  Accepted(s, k)'
    BY <1>2, <2>1 DEF Accepted
  <2>2. PICK n \in Nat : n = Len(inbox'[s]) + 1
    BY <1>1, <1>2
  <2>3. held[s] => Accepted(s, Len(inbox[s]) + 1)
    BY <1>5 DEF Asked
  <2>4. held'[s] => Accepted(s, n)'
    <3>1. CASE held[s]
      BY <1>1, <1>2, <2>1, <2>2, <2>3, <3>1
    <3>2. CASE m[1] = "authenticated"
      <4>1. Len(inbox[s]) + 1 \in 1 .. Len(inbox'[s]) /\ Len(inbox[s]) + 1 < n
        BY <1>1, <1>2, <2>2
      <4>2. inbox'[s][Len(inbox[s]) + 1] = "authenticated"
        BY <1>1, <1>2, <3>2
      <4>. QED BY <4>1, <4>2 DEF Accepted
    <3>. QED BY <3>1, <3>2
  <2>5. ASSUME NEW i \in 1 .. Len(inbox'[s]), inbox'[s][i] \in Streams
        PROVE  Accepted(s, i)'
    <3>1. CASE i <= Len(inbox[s])
      BY <1>1, <1>2, <1>5, <2>1, <2>5, <3>1 DEF Asked
    <3>2. CASE i > Len(inbox[s])
      <4>1. i - Len(inbox[s]) \in 1 .. Len(m) /\ inbox'[s][i] = m[i - Len(inbox[s])]
        BY <1>1, <1>2, <3>2
      <4>2. held[s]
        BY <2>5, <4>1
      <4>. QED BY <1>1, <2>1, <2>3, <3>2, <4>2
    <3>. QED BY <1>1, <3>1, <3>2
  <2>6. pc'[s] = "open" => inbox'[s] # <<>> /\ Head(inbox'[s]) \in Streams
    <3>1. ASSUME pc[s] = "open"
          PROVE  /\ inbox[s] # <<>> /\ Head(inbox[s]) \in Streams
                 /\ Head(inbox[s]) = inbox[s][1] /\ Len(inbox[s]) > 0
      BY <1>1, <1>5, <3>1 DEF Asked
    <3>2. ASSUME pc[s] = "open"
          PROVE  inbox'[s] # <<>> /\ Head(inbox'[s]) = inbox'[s][1] /\ inbox'[s][1] = inbox[s][1]
      BY <1>1, <1>2, <3>1, <3>2
    <3>. QED BY <3>1, <3>2
  <2>. QED BY <2>2, <2>4, <2>5, <2>6 DEF Accepted
<1>6. \A r \in Sessions : monitorConn' = r =>
          /\ held'[r] => Accepted(r, Len(inbox[r]) + 1)'
          /\ \A i \in 1 .. Len(inbox'[r]) : inbox'[r][i] \in Streams => Accepted(r, i)'
          /\ pc'[r] = "open" => inbox'[r] # <<>> /\ Head(inbox'[r]) \in Streams
  BY <1>4, <1>5
<1>. QED BY <1>3, <1>6 DEF Asked

LEMMA ConnectingStep ==
    ASSUME IInv, NEW t \in Threads, Connecting(t)
    PROVE  IInv'
<1>. USE Constants DEF IInv, server, auth
<1>1. TypeOK'
  BY ConnectingType
<1>2. CASE Dial(t)
  <2>1. CASE Exit("dial")
    BY <1>1, <2>1, Quiet DEF Exit
  <2>2. CASE ~Exit("dial")
    <3>1. /\ session = t /\ monitorConn = 0 /\ session < MaxSessions /\ ~monitorAuthOK
          /\ \A x \in Streams : dataConns[x] = 0
          /\ session \in Nat
      BY <1>2, <2>2 DEF Dial, At, Turn, AuthOf, Opens
    <3>2. PICK n \in Sessions : n = session + 1
      BY <3>1 DEF Sessions
    <3>3. /\ pc' = [pc EXCEPT ![t] = "begin"] /\ session' = n /\ monitorConn' = n
          /\ wire' = [wire EXCEPT ![n] = "open"] /\ inbox' = inbox /\ held' = held
          /\ monitorAuthOK' = monitorAuthOK /\ containerId' = containerId /\ dataConns' = dataConns
      BY <1>2, <2>2, <3>2 DEF Dial, Go
    <3>4. /\ pc'[t] = "begin" /\ \A u \in Threads : u # t => pc'[u] = pc[u]
          /\ t # n /\ pc[n] = "off"
          /\ \A s \in Sessions : s # n => wire'[s] = wire[s]
      BY <3>1, <3>2, <3>3 DEF TypeOK, Turn
    <3>5. Turn'
      <4>1. \A u \in Threads : u # t => pc[u] \notin OwnPoints /\ pc[u] # "dial" /\ ~Connects(u)
        BY <1>2, <3>1 DEF Turn, Dial, At, Connects
      <4>2. \A u \in Threads : u # t => (Connects(u)' <=> Connects(u))
        BY <3>4 DEF Connects
      <4>. QED BY <3>1, <3>2, <3>3, <3>4, <4>1, <4>2 DEF Turn, OwnPoints
    <3>6. AuthOf' /\ Opens'
      BY <3>1, <3>3, <3>4 DEF AuthOf, Opens
    <3>7. Asked'
      BY <3>1, <3>2, <3>3, <3>4 DEF Asked
    <3>. QED BY <1>1, <3>5, <3>6, <3>7
  <2>. QED BY <2>1, <2>2
<1>3. CASE Begin(t)
  BY <1>1, <1>3, Move DEF Begin, At, Go, Connects
<1>4. CASE Authenticate(t)
  <2>1. CASE Exit("unready")
    BY <1>1, <2>1, Quiet DEF Exit
  <2>2. CASE ~Exit("unready")
    BY <1>1, <1>4, <2>2, Move DEF Authenticate, At, Go, Connects
  <2>. QED BY <2>1, <2>2
<1>5. CASE Spawn(t)
  <2>1. PICK n \in Sessions : /\ n = session /\ session = t + 1 /\ monitorConn = session
                              /\ pc[n] = "off" /\ t # n
    BY <1>5 DEF Spawn, At, Turn, Connects
  <2>2. /\ pc'[n] = "read" /\ pc'[t] = (IF t = 0 THEN "done" ELSE "settle")
        /\ \A u \in Threads : u # t /\ u # n => pc'[u] = pc[u]
    BY <1>5, <2>1 DEF Spawn, TypeOK
  <2>3. UNCHANGED <<session, monitorConn, monitorAuthOK, containerId, inbox, held, wire, dataConns>>
    BY <1>5 DEF Spawn
  <2>4. Turn'
    <3>1. \A u \in Threads : u # t => pc[u] \notin OwnPoints /\ pc[u] # "dial" /\ ~Connects(u)
      BY <1>5, <2>1 DEF Turn, Spawn, At, Connects, OwnPoints
    <3>2. \A u \in Threads : u # t /\ u # n => (Connects(u)' <=> Connects(u))
      BY <2>2 DEF Connects
    <3>3. ~Connects(t)' /\ ~Connects(n)'
      BY <2>1, <2>2 DEF Connects
    <3>. QED BY <2>1, <2>2, <2>3, <3>1, <3>2, <3>3 DEF Turn, OwnPoints
  <2>5. AuthOf' /\ Opens'
    BY <2>1, <2>2, <2>3 DEF AuthOf, Opens
  <2>6. Asked'
    <3>1. \A s \in Sessions : monitorConn' = s => pc'[s] = "read"
      BY <2>1, <2>2, <2>3
    <3>2. \A s \in Sessions, i \in Nat : Accepted(s, i) => Accepted(s, i)'
      BY <2>3 DEF Accepted
    <3>3. \A s \in Sessions : monitorConn = s =>
              /\ held'[s] => Accepted(s, Len(inbox[s]) + 1)
              /\ \A i \in 1 .. Len(inbox'[s]) : inbox'[s][i] \in Streams => Accepted(s, i)
      BY <2>3 DEF Asked
    <3>4. \A s \in Sessions : Accepted(s, Len(inbox[s]) + 1) => Accepted(s, Len(inbox[s]) + 1)'
      BY <2>3 DEF Accepted
    <3>. QED BY <2>3, <3>1, <3>2, <3>3, <3>4 DEF Asked
  <2>. QED BY <1>1, <2>4, <2>5, <2>6
<1>6. CASE Settle(t)
  BY <1>1, <1>6, Move DEF Settle, Returns, At, Go, Connects
<1>. QED BY <1>2, <1>3, <1>4, <1>5, <1>6 DEF Connecting

\* Who reads is the goroutine of the connection in use.
LEMMA Reader ==
    ASSUME IInv, NEW t \in Sessions, pc[t] \in OwnPoints
    PROVE  /\ t = session /\ t = monitorConn /\ t # 0
           /\ \A u \in Threads : pc[u] # "dial" /\ (pc[u] = "close" => u = t)
BY Constants, Alone DEF IInv, Turn, OwnPoints

LEMMA ReadingStep ==
    ASSUME IInv, NEW t \in Sessions, Reading(t)
    PROVE  IInv'
<1>. USE Constants DEF IInv, server, auth
<1>1. TypeOK'
  BY ReadingType
<1>2. ASSUME pc[t] \in {"read", "open"}, inbox[t] # <<>>, Taken, Turn', AuthOf', Opens',
             Head(inbox[t]) # "authenticated" \/ containerId' = t,
             containerId' = containerId \/ containerId' = t,
             UNCHANGED <<session, monitorConn, held, wire>>, pc'[t] # "open"
      PROVE  IInv'
  BY <1>1, <1>2, Reader, TakenAsked DEF OwnPoints
<1>3. CASE Authenticated(t)
  <2>1. /\ pc[t] = "read" /\ t = session /\ t = monitorConn /\ t # 0 /\ inbox[t] # <<>>
        /\ \A u \in Threads : pc[u] # "dial" /\ pc[u] # "close"
    BY <1>3, Reader DEF Authenticated, Reads, At, OwnPoints
  <2>2. /\ Taken /\ containerId' = t /\ monitorAuthOK'
        /\ UNCHANGED <<pc, session, monitorConn, held, wire, dataConns>>
    BY <1>3, <2>1 DEF Authenticated
  <2>3. Turn'
    BY <2>2 DEF Turn, Connects
  <2>4. AuthOf' /\ Opens'
    BY <2>1, <2>2 DEF AuthOf, Opens
  <2>. QED BY <1>2, <2>1, <2>2, <2>3, <2>4
<1>4. CASE Rejected(t)
  BY <1>1, <1>4, Quiet DEF Rejected, Exit
<1>5. CASE Pong(t)
  <2>1. /\ pc[t] = "read" /\ inbox[t] # <<>> /\ Head(inbox[t]) = "pong" /\ Taken
        /\ UNCHANGED <<pc, session, monitorConn, monitorAuthOK, containerId, held, wire, dataConns>>
    BY <1>5, Reader DEF Pong, Reads, At, OwnPoints
  <2>2. Turn' /\ AuthOf' /\ Opens'
    BY <2>1 DEF Turn, Connects, AuthOf, Opens
  <2>. QED BY <1>2, <2>1, <2>2
<1>6. CASE OpenChannel(t)
  <2>1. pc[t] = "read" /\ inbox[t] # <<>> /\ Head(inbox[t]) \in Streams
    BY <1>6, Reader DEF OpenChannel, Reads, At, OwnPoints
  <2>2. /\ t \in Threads /\ t # 0 /\ pc[t] \in OwnPoints /\ pc' = [pc EXCEPT ![t] = "open"]
        /\ UNCHANGED <<session, monitorConn, containerId, inbox, held, wire>>
        /\ monitorAuthOK' => monitorAuthOK
        /\ \A x \in Streams : dataConns'[x] \in {0, dataConns[x]}
    BY <1>6, <2>1 DEF OpenChannel, Go, OwnPoints
  <2>. QED BY <1>1, <2>1, <2>2, Move DEF OwnPoints
<1>7. CASE Opened(t)
  <2>1. /\ pc[t] = "open" /\ t = session /\ t = monitorConn /\ t # 0
        /\ \A u \in Threads : pc[u] # "dial" /\ pc[u] # "close"
    BY <1>7, Reader DEF Opened, At, OwnPoints
  <2>2. inbox[t] # <<>> /\ Head(inbox[t]) \in Streams /\ Accepted(t, 1) /\ Head(inbox[t]) = inbox[t][1]
    <3>1. inbox[t] # <<>> /\ Head(inbox[t]) \in Streams
      BY <2>1 DEF Asked
    <3>2. Len(inbox[t]) \in Nat /\ Len(inbox[t]) > 0 /\ Head(inbox[t]) = inbox[t][1]
      BY <3>1 DEF TypeOK
    <3>. QED BY <2>1, <3>1, <3>2 DEF Asked
  <2>3. containerId = t /\ Head(inbox[t]) # "authenticated"
    BY <2>2 DEF Accepted, Events
  <2>4. /\ Taken /\ pc' = [pc EXCEPT ![t] = "read"]
        /\ UNCHANGED <<session, monitorConn, monitorAuthOK, containerId, held, wire>>
        /\ \A x \in Streams : dataConns'[x] \in {0, dataConns[x], containerId}
    BY <1>7 DEF Opened, Go, TypeOK
  <2>5. pc'[t] = "read" /\ \A u \in Threads : u # t => pc'[u] = pc[u]
    BY <2>4 DEF TypeOK
  <2>6. Turn'
    <3>1. \A u \in Threads : Connects(u)' => Connects(u)
      BY <2>5 DEF Connects
    <3>2. \A u \in Threads : ~Connects(u)
      BY <2>1, Alone DEF OwnPoints, Connects
    <3>. QED BY <2>1, <2>4, <2>5, <3>1, <3>2 DEF Turn, OwnPoints
  <2>7. AuthOf' /\ Opens'
    BY <2>1, <2>3, <2>4, <2>5 DEF AuthOf, Opens
  <2>. QED BY <1>2, <2>1, <2>2, <2>3, <2>4, <2>5, <2>6, <2>7
<1>8. CASE ReadFails(t)
  <2>1. CASE Exit("public")
    BY <1>1, <2>1, Quiet DEF Exit
  <2>2. CASE ~Exit("public")
    <3>1. PICK l \in {"retry", "disconnect", "deaf"} : Go(t, l)
      BY <1>8, <2>2 DEF ReadFails
    <3>2. /\ t \in Threads /\ t # 0 /\ pc[t] \in OwnPoints /\ pc' = [pc EXCEPT ![t] = l]
          /\ UNCHANGED <<session, monitorConn, containerId, inbox, held, wire>>
          /\ monitorAuthOK' => monitorAuthOK
          /\ \A x \in Streams : dataConns'[x] \in {0, dataConns[x]}
      BY <1>8, <2>2, <3>1 DEF ReadFails, At, Go, OwnPoints
    <3>. QED BY <1>1, <3>1, <3>2, Move DEF OwnPoints
  <2>. QED BY <2>1, <2>2
<1>. QED BY <1>3, <1>4, <1>5, <1>6, <1>7, <1>8 DEF Reading

LEMMA LosingStep ==
    ASSUME IInv, NEW t \in Sessions, Losing(t)
    PROVE  IInv'
<1>. USE Constants DEF IInv, server, auth
<1>1. TypeOK'
  BY LosingType
<1>2. CASE Disconnect(t)
  <2>1. /\ t \in Threads /\ t # 0 /\ pc[t] \in OwnPoints /\ pc' = [pc EXCEPT ![t] = "retry"]
        /\ UNCHANGED <<session, monitorConn, containerId, inbox, held, wire>>
        /\ monitorAuthOK' => monitorAuthOK
        /\ \A x \in Streams : dataConns'[x] \in {0, dataConns[x]}
    BY <1>2 DEF Disconnect, HandleDisconnect, At, Go, OwnPoints
  <2>. QED BY <1>1, <2>1, Move DEF OwnPoints
<1>3. CASE Retry(t)
  <2>1. CASE Exit("unauthenticated")
    BY <1>1, <2>1, Quiet DEF Exit
  <2>2. CASE ~Exit("unauthenticated")
    BY <1>1, <1>3, <2>2, Move DEF Retry, At, Go, OwnPoints
  <2>. QED BY <2>1, <2>2
<1>4. CASE Reset(t)
  <2>1. /\ t \in Threads /\ t # 0 /\ pc[t] \in OwnPoints /\ pc' = [pc EXCEPT ![t] = "close"]
        /\ UNCHANGED <<session, monitorConn, containerId, inbox, held, wire>>
        /\ monitorAuthOK' => monitorAuthOK
        /\ \A x \in Streams : dataConns'[x] \in {0, dataConns[x]}
    BY <1>4 DEF Reset, Reauth, At, Go, OwnPoints
  <2>2. ~monitorAuthOK'
    BY <1>4 DEF Reset, Reauth
  <2>. QED BY <1>1, <2>1, <2>2, Move DEF OwnPoints
<1>5. CASE Close(t)
  <2>1. pc[t] = "close" /\ t = session /\ t = monitorConn /\ t # 0 /\ ~monitorAuthOK
    BY <1>5, Reader DEF Close, At, OwnPoints, AuthOf
  <2>2. /\ pc' = [pc EXCEPT ![t] = "dial"] /\ monitorConn' = 0
        /\ UNCHANGED <<session, monitorAuthOK, containerId, inbox, held>>
        /\ wire' = [wire EXCEPT ![t] = "closed"]
        /\ \A x \in Streams : dataConns'[x] = 0
    BY <1>5, <2>1 DEF Close, Go, Cleared
  <2>3. pc'[t] = "dial" /\ \A u \in Threads : u # t => pc'[u] = pc[u]
    BY <2>2 DEF TypeOK
  <2>4. \A u \in Threads : u # t => pc[u] \notin OwnPoints /\ pc[u] # "dial" /\ ~Connects(u)
    BY <2>1, Alone DEF OwnPoints
  <2>5. Turn'
    <3>1. \A u \in Threads : ~Connects(u)'
      BY <2>1, <2>3, <2>4 DEF Connects
    <3>. QED BY <2>1, <2>2, <2>3, <2>4, <3>1 DEF Turn, OwnPoints
  <2>6. AuthOf' /\ Opens'
    BY <2>1, <2>2 DEF AuthOf, Opens
  <2>7. Asked'
    <3>1. \A s \in Sessions : s > session => wire'[s] = wire[s]
      BY <2>1, <2>2 DEF TypeOK
    <3>. QED BY <2>2, <3>1 DEF Asked
  <2>. QED BY <1>1, <2>5, <2>6, <2>7
<1>. QED BY <1>2, <1>3, <1>4, <1>5 DEF Losing

LEMMA TimersStep ==
    ASSUME IInv, Beating \/ TimingOut \/ AuthExpires \/ ReconnectExpires
    PROVE  IInv'
<1>. USE Constants DEF IInv, server, auth
<1>1. TypeOK'
  BY TimersType
<1>2. CASE PingFires \/ ArmTimeout
  BY <1>1, <1>2, Quiet DEF PingFires, ArmTimeout
<1>3. CASE SendPing
  <2>1. CASE inbox' = inbox
    BY <1>1, <1>3, <2>1, Quiet DEF SendPing
  <2>2. CASE inbox' # inbox
    <3>1. /\ monitorConn \in Sessions /\ wire[monitorConn] = "open"
          /\ inbox' = [inbox EXCEPT ![monitorConn] = Append(@, "pong")]
      BY <1>3, <2>2 DEF SendPing, CanSend, Reaches, TypeOK
    <3>2. PICK m \in Seq(Events \cup Streams) : m = <<"pong">>
      <4>1. <<"pong">> \in Seq(Events \cup Streams)
        BY DEF Events
      <4>. QED BY <4>1
    <3>3. Append(inbox[monitorConn], "pong") = inbox[monitorConn] \o m
      BY <3>1, <3>2 DEF TypeOK
    <3>4. /\ inbox' = [inbox EXCEPT ![monitorConn] = @ \o m]
          /\ UNCHANGED <<pc, session, monitorConn, auth, wire, held, dataConns>>
      BY <1>3, <3>1, <3>3 DEF SendPing
    <3>5. m # <<>> /\ \A i \in 1 .. Len(m) : m[i] \notin Streams
      BY <3>2 DEF Events
    <3>6. Asked'
      BY <3>1, <3>4, <3>5, AppendAsked
    <3>7. Turn' /\ AuthOf' /\ Opens'
      BY <3>4 DEF Turn, Connects, AuthOf, Opens
    <3>. QED BY <1>1, <3>6, <3>7
  <2>. QED BY <2>1, <2>2
<1>4. CASE TimeoutFires \/ Mark \/ StopHeartbeat
  BY <1>1, <1>4, Quiet DEF TimeoutFires, Mark, StopHeartbeat
<1>5. CASE CloseConn
  <2>1. \A s \in Sessions : s > session => wire'[s] = wire[s]
    BY <1>5 DEF CloseConn, Turn
  <2>. QED BY <1>1, <1>5, <2>1, Quiet DEF CloseConn
<1>6. CASE LateDisconnect
  BY <1>1, <1>6, Quiet DEF LateDisconnect, HandleDisconnect
<1>7. CASE AuthExpires \/ ReconnectExpires
  BY <1>1, <1>7, Quiet DEF AuthExpires, ReconnectExpires, Exit
<1>. QED BY <1>2, <1>3, <1>4, <1>5, <1>6, <1>7 DEF Beating, TimingOut

LEMMA WorldStep ==
    ASSUME IInv,
           \/ \E x \in Streams : ChannelEnds(x)
           \/ \E s \in Sessions : \/ Break(s) \/ Answer(s) \/ Notice(s)
                                  \/ \E x \in Streams : Want(s, x)
    PROVE  IInv'
<1>. USE Constants DEF IInv, server, auth
<1>1. TypeOK'
  BY WorldType
<1>2. CASE \E x \in Streams : ChannelEnds(x)
  BY <1>1, <1>2, Quiet DEF ChannelEnds, TypeOK
<1>3. ASSUME NEW s \in Sessions, Break(s)
      PROVE  IInv'
  <2>1. \A r \in Sessions : wire[r] = "none" => wire'[r] = "none"
    BY <1>3 DEF Break, Reaches, TypeOK
  <2>. QED BY <1>1, <1>3, <2>1, Quiet DEF Break
<1>4. ASSUME NEW s \in Sessions, NEW m \in Seq(Events \cup Streams), m # <<>>, wire[s] = "open",
             inbox' = [inbox EXCEPT ![s] = @ \o m],
             UNCHANGED <<pc, session, monitorConn, auth, wire, dataConns>>,
             \A r \in Sessions : r # s => held'[r] = held[r],
             held'[s] => held[s] \/ m[1] = "authenticated",
             \A i \in 1 .. Len(m) : m[i] \in Streams => held[s]
      PROVE  IInv'
  <2>1. Asked'
    BY <1>4, AppendAsked
  <2>2. Turn' /\ AuthOf' /\ Opens'
    BY <1>4 DEF Turn, Connects, AuthOf, Opens
  <2>. QED BY <1>1, <2>1, <2>2
<1>5. ASSUME NEW s \in Sessions, Answer(s)
      PROVE  IInv'
  <2>1. /\ wire[s] = "open"
        /\ UNCHANGED <<pc, session, monitorConn, auth, wire, dataConns>>
    BY <1>5 DEF Answer, Reaches
  <2>2. CASE /\ held' = [held EXCEPT ![s] = TRUE]
             /\ inbox' = [inbox EXCEPT ![s] = Append(@, "authenticated")]
    <3>1. PICK m \in Seq(Events \cup Streams) : m = <<"authenticated">>
      <4>1. <<"authenticated">> \in Seq(Events \cup Streams)
        BY DEF Events
      <4>. QED BY <4>1
    <3>2. Append(inbox[s], "authenticated") = inbox[s] \o m
      BY <3>1 DEF TypeOK
    <3>3. m # <<>> /\ m[1] = "authenticated" /\ \A i \in 1 .. Len(m) : m[i] \notin Streams
      BY <3>1 DEF Events
    <3>4. \A r \in Sessions : r # s => held'[r] = held[r]
      BY <2>2 DEF TypeOK
    <3>. QED BY <1>4, <2>1, <2>2, <3>2, <3>3, <3>4
  <2>3. ASSUME NEW told \in {<<"refused">>, <<"authenticated", "fatal">>},
               inbox' = [inbox EXCEPT ![s] = @ \o told], held' = held
        PROVE  IInv'
    <3>1. told \in Seq(Events \cup Streams)
      <4>1. /\ <<"refused">> \in Seq(Events \cup Streams)
            /\ <<"authenticated", "fatal">> \in Seq(Events \cup Streams)
        BY DEF Events
      <4>. QED BY <4>1, Zenon
    <3>2. told # <<>> /\ \A i \in 1 .. Len(told) : told[i] \notin Streams
      <4>1. CASE told = <<"refused">>
        BY <4>1 DEF Events
      <4>2. CASE told = <<"authenticated", "fatal">>
        BY <4>2 DEF Events
      <4>. QED BY <4>1, <4>2
    <3>. QED BY <1>4, <2>1, <2>3, <3>1, <3>2
  <2>. QED BY <1>5, <2>2, <2>3 DEF Answer
<1>6. ASSUME NEW s \in Sessions, Notice(s)
      PROVE  IInv'
  <2>1. /\ UNCHANGED <<pc, session, monitorConn, auth, wire, inbox, dataConns>>
        /\ \A r \in Sessions : held'[r] => held[r]
    BY <1>6 DEF Notice, TypeOK
  <2>2. Asked'
    BY <2>1 DEF Asked, Accepted
  <2>3. Turn' /\ AuthOf' /\ Opens'
    BY <2>1 DEF Turn, Connects, AuthOf, Opens
  <2>. QED BY <1>1, <2>2, <2>3
<1>7. ASSUME NEW s \in Sessions, NEW x \in Streams, Want(s, x)
      PROVE  IInv'
  <2>1. PICK m \in Seq(Events \cup Streams) : m = <<x>>
    <3>1. <<x>> \in Seq(Events \cup Streams)
      OBVIOUS
    <3>. QED BY <3>1
  <2>2. Append(inbox[s], x) = inbox[s] \o m /\ m # <<>>
    BY <2>1 DEF TypeOK
  <2>. QED BY <1>4, <1>7, <2>2 DEF Want, Reaches
<1>. QED BY <1>2, <1>3, <1>5, <1>6, <1>7

LEMMA Inductive == IInv /\ [Next]_vars => IInv'
<1>. SUFFICES ASSUME IInv, [Next]_vars PROVE IInv'
  OBVIOUS
<1>1. ASSUME NEW t \in Threads, Connecting(t)
      PROVE  IInv'
  BY <1>1, ConnectingStep
<1>2. ASSUME NEW t \in Sessions, Reading(t) \/ Losing(t)
      PROVE  IInv'
  BY <1>2, ReadingStep, LosingStep
<1>3. CASE Beating \/ TimingOut \/ AuthExpires \/ ReconnectExpires
  BY <1>3, TimersStep
<1>4. CASE \/ \E x \in Streams : ChannelEnds(x)
           \/ \E s \in Sessions : \/ Break(s) \/ Answer(s) \/ Notice(s)
                                  \/ \E x \in Streams : Want(s, x)
  BY <1>4, WorldStep
<1>5. CASE UNCHANGED vars
  <2>1. UNCHANGED <<exited, pc, session, wire, inbox, asked, held, wanted, monitorConn,
                    monitorAuthOK, containerId, closing, heartbeatActive, pingTimer,
                    pingTimeoutTimer, reconnectTimeout, authTimeout, ping, late, dataConns>>
    BY <1>5 DEF vars, server, auth, beat, exits, calls
  <2>2. TypeOK'
    BY <2>1 DEF IInv, TypeOK
  <2>. QED BY <2>1, <2>2, Quiet DEF IInv, auth
<1>. QED BY <1>1, <1>2, <1>3, <1>4, <1>5 DEF Next

\* Every variable keeps to its range (ClientSession).
THEOREM TypeCorrect == Spec => []TypeOK
<1>1. IInv => TypeOK
  BY DEF IInv
<1>. QED BY <1>1, InitOK, Inductive, PTL DEF Spec

\* One goroutine at a time connects, reads or reconnects, and what it reads from is the
\* connection it was started for (handleMonitorMessages, reconnect).
THEOREM Owns == Spec => []ReadsItsOwn
<1>1. IInv => ReadsItsOwn
  <2>. SUFFICES ASSUME IInv PROVE ReadsItsOwn
    OBVIOUS
  <2>. USE Constants
  <2>1. ASSUME NEW t \in Threads, NEW u \in Threads, Busy(t), Busy(u)
        PROVE  t = u
    <3>1. \A v \in {t, u} : pc[v] \in OwnPoints \/ pc[v] = "dial" \/ Connects(v)
      BY <2>1 DEF Busy, Connects, OwnPoints, IInv, TypeOK
    <3>2. CASE pc[t] \in OwnPoints \/ pc[u] \in OwnPoints
      BY <3>1, <3>2, Alone DEF IInv
    <3>3. CASE pc[t] \notin OwnPoints /\ pc[u] \notin OwnPoints
      BY <3>1, <3>3 DEF IInv, Turn, Connects
    <3>. QED BY <3>2, <3>3
  <2>2. \A t \in Sessions : pc[t] \in OwnPoints => t = monitorConn
    BY DEF IInv, Turn
  <2>. QED BY <2>1, <2>2 DEF ReadsItsOwn, OwnPoints
<1>. QED BY <1>1, InitOK, Inductive, PTL DEF Spec

\* The client takes itself for authenticated only on the connection the server accepted
\* (handleAuthenticateResponse, reconnect).
THEOREM Renewed == Spec => []AuthOfThis
<1>1. IInv => AuthOfThis
  BY DEF IInv, AuthOf, AuthOfThis
<1>. QED BY <1>1, InitOK, Inductive, PTL DEF Spec

\* No data channel outlives the session it was dialled for, not even one whose dial was
\* under way when the ping timeout closed the others (reconnect, closeAllDataChannels).
THEOREM Channels == Spec => []ChannelsOfThis
<1>1. IInv => ChannelsOfThis
  BY DEF IInv, Opens, ChannelsOfThis
<1>. QED BY <1>1, InitOK, Inductive, PTL DEF Spec

=============================================================================
