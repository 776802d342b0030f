---------------------------- MODULE HttpTunnelProofs ----------------------------
(***************************************************************************)
(* Proofs about HttpTunnel, for every number of browser connections,       *)
(* requests, monitor sessions and body frames.                             *)
(*                                                                         *)
(* Known says where requests come from and makes TypeOK inductive; Token   *)
(* says that the right to write a request's whole answer is in one place   *)
(* at a time, and makes AnswerOnce inductive.                              *)
(*                                                                         *)
(* Remains says of every registered request what is left of it that        *)
(* answers it; NothingLost is what it says of those that were sent.        *)
(* InOrder relates what of a response is on the uplink, in the hands of a  *)
(* read loop and on the wire, from which StreamInOrder follows.            *)
(***************************************************************************)
EXTENDS HttpTunnel, TLAPS, SequenceTheorems

Pieces == [req : Reqs, kind : WireKinds]

\* What a step may do to the wires: append pieces of r of the kinds K to c's.
Grows(c, r, K) ==
    /\ wire' \in [Conns -> Seq(Pieces)]
    /\ \A d \in Conns :
          /\ Len(wire[d]) <= Len(wire'[d])
          /\ \A i \in 1 .. Len(wire'[d]) :
                IF i <= Len(wire[d])
                  THEN wire'[d][i] = wire[d][i]
                  ELSE /\ d = c
                       /\ wire'[d][i].req = r
                       /\ wire'[d][i].kind \in K
                       /\ i = Len(wire[d]) + 1 \/ wire'[d][i].kind = "404"

\* Whatever is registered, timed, held, relayed or written came in on a
\* connection, and a handler that is sending holds a request of its own.
Known ==
    /\ \A r \in callback \cup session \cup relay : at[r] # None
    /\ \A r \in Reqs : timer[r] # "unset" => at[r] # None
    /\ \A l \in Sessions : reader[l] # None => at[reader[l].req] # None
    /\ \A c \in Conns :
          handler[c] \in {"send", "body", "wait"} =>
             cur[c] \in Reqs /\ at[cur[c]] = c
    /\ \A c \in Conns : \A i \in 1 .. Len(wire[c]) : at[wire[c][i].req] = c

\* A whole answer of r has been written.
Written(r) ==
    \E c \in Conns : \E i \in 1 .. Len(wire[c]) :
        wire[c][i].req = r /\ wire[c][i].kind \in WholeKinds

\* The read loop l is about to write a whole answer of r.
Holds(l, r) ==
    /\ reader[l] # None
    /\ reader[l].req = r
    /\ reader[l].kind \notin StreamKinds

\* The right to write a whole answer of r is with its callback, its timer, one
\* read loop or nobody, and is gone once the answer is written.
Token ==
    /\ \A r \in callback :
          timer[r] # "taken" /\ ~Written(r) /\ \A l \in Sessions : ~Holds(l, r)
    /\ \A r \in Reqs :
          timer[r] = "taken" => ~Written(r) /\ \A l \in Sessions : ~Holds(l, r)
    /\ \A l \in Sessions, r \in Reqs :
          Holds(l, r) => ~Written(r) /\ \A m \in Sessions : Holds(m, r) => m = l

-----------------------------------------------------------------------------
(* Writing *)

\* One Append to one wire (tcpConn.Write), or none.
LEMMA AppendGrows ==
    ASSUME wire \in [Conns -> Seq(Pieces)], NEW c \in Conns, NEW r \in Reqs,
           NEW k \in WireKinds, NEW K, k \in K,
           \/ wire' = [wire EXCEPT ![c] = Append(@, Piece(r, k))]
           \/ wire' = wire
    PROVE  Grows(c, r, K)
<1>1. CASE wire' = wire
  BY <1>1 DEF Grows
<1>2. CASE wire' = [wire EXCEPT ![c] = Append(@, Piece(r, k))]
  <2>1. /\ Piece(r, k) \in Pieces
        /\ Piece(r, k).req = r
        /\ Piece(r, k).kind = k
    BY DEF Piece, Pieces
  <2>2. wire' \in [Conns -> Seq(Pieces)]
    BY <1>2, <2>1
  <2>3. ASSUME NEW d \in Conns, d # c PROVE wire'[d] = wire[d]
    BY <1>2, <2>3
  <2>4. /\ Len(wire'[c]) = Len(wire[c]) + 1
        /\ wire'[c][Len(wire[c]) + 1] = Piece(r, k)
        /\ \A i \in 1 .. Len(wire[c]) : wire'[c][i] = wire[c][i]
        /\ Len(wire[c]) \in Nat
    BY <1>2, <2>1
  <2>5. \A i \in 1 .. Len(wire'[c]) :
           IF i <= Len(wire[c])
             THEN wire'[c][i] = wire[c][i]
             ELSE i = Len(wire[c]) + 1 /\ wire'[c][i] = Piece(r, k)
    BY <2>4
  <2>6. QED
    BY <2>1, <2>2, <2>3, <2>4, <2>5 DEF Grows
<1>3. QED
  BY <1>1, <1>2

\* The kinds the server writes.
LEMMA Kinds ==
    /\ {"401", "404", "full", "101", "504", "502"} \subseteq WireKinds
    /\ StreamKinds \subseteq WireKinds
BY DEF WireKinds, WholeKinds

\* Destroy appends at most a 404 (destroyConnection).
LEMMA DestroyGrows ==
    ASSUME TypeOK, NEW c \in Conns, NEW r \in Reqs, NEW K, "404" \in K, Destroy(c, r)
    PROVE  /\ Grows(c, r, K)
           /\ conn' \in [Conns -> {"open", "closed", "gone"}]
<1>1. /\ wire \in [Conns -> Seq(Pieces)]
      /\ conn \in [Conns -> {"open", "closed", "gone"}]
  BY DEF TypeOK, Pieces
<1>2. Grows(c, r, K)
  BY <1>1, AppendGrows, Kinds DEF Destroy
<1>3. QED
  BY <1>1, <1>2 DEF Destroy

\* Put appends at most the one piece (tcpConn.Write).
LEMMA PutGrows ==
    ASSUME TypeOK, NEW c \in Conns, NEW r \in Reqs, NEW k \in WireKinds,
           NEW K, k \in K, Put(c, r, k)
    PROVE  /\ Grows(c, r, K)
           /\ conn' \in [Conns -> {"open", "closed", "gone"}]
<1>1. /\ wire \in [Conns -> Seq(Pieces)]
      /\ conn \in [Conns -> {"open", "closed", "gone"}]
  BY DEF TypeOK, Pieces
<1>2. Grows(c, r, K)
  BY <1>1, AppendGrows DEF Put
<1>3. QED
  BY <1>1, <1>2 DEF Put

\* Deliver appends the piece, a 404 in its place, or nothing.
LEMMA DeliverGrows ==
    ASSUME TypeOK, NEW c \in Conns, NEW r \in Reqs, NEW k \in WireKinds, Deliver(c, r, k)
    PROVE  /\ Grows(c, r, {k, "404"})
           /\ conn' \in [Conns -> {"open", "closed", "gone"}]
BY DestroyGrows, PutGrows DEF Deliver

\* The 502 and the 404 of a data channel that did not come up.
LEMMA FailsGrows ==
    ASSUME TypeOK, NEW c \in Conns, NEW r \in Reqs,
           wire' = [wire EXCEPT ![c] =
                       Append(Append(@, Piece(r, "502")), Piece(r, "404"))]
    PROVE  Grows(c, r, {"502", "404"})
<1>1. /\ wire \in [Conns -> Seq(Pieces)]
      /\ Piece(r, "502") \in Pieces /\ Piece(r, "404") \in Pieces
      /\ Piece(r, "502").req = r /\ Piece(r, "502").kind = "502"
      /\ Piece(r, "404").req = r /\ Piece(r, "404").kind = "404"
  BY Kinds DEF TypeOK, Pieces, Piece
<1> DEFINE one == Append(wire[c], Piece(r, "502"))
<1>2. /\ one \in Seq(Pieces)
      /\ Len(one) = Len(wire[c]) + 1
      /\ one[Len(wire[c]) + 1] = Piece(r, "502")
      /\ \A i \in 1 .. Len(wire[c]) : one[i] = wire[c][i]
      /\ Len(wire[c]) \in Nat
  BY <1>1
<1>3. wire'[c] = Append(one, Piece(r, "404"))
  BY <1>1
<1> HIDE DEF one
<1>4. /\ wire'[c] \in Seq(Pieces)
      /\ Len(wire'[c]) = Len(one) + 1
      /\ wire'[c][Len(one) + 1] = Piece(r, "404")
      /\ \A i \in 1 .. Len(one) : wire'[c][i] = one[i]
  BY <1>1, <1>2, <1>3
<1>5. ASSUME NEW d \in Conns, d # c PROVE wire'[d] = wire[d]
  BY <1>1, <1>5
<1>6. wire' \in [Conns -> Seq(Pieces)]
  BY <1>1, <1>4
<1>7. \A i \in 1 .. Len(wire'[c]) :
         IF i <= Len(wire[c])
           THEN wire'[c][i] = wire[c][i]
           ELSE \/ i = Len(wire[c]) + 1 /\ wire'[c][i] = Piece(r, "502")
                \/ i = Len(wire[c]) + 2 /\ wire'[c][i] = Piece(r, "404")
  BY <1>2, <1>4
<1>8. \A d \in Conns : Len(wire[d]) <= Len(wire'[d])
  <2>1. \A d \in Conns : Len(wire[d]) \in Nat
    BY <1>1
  <2>2. QED
    BY <1>2, <1>4, <1>5, <2>1
<1>9. QED
  BY <1>1, <1>5, <1>6, <1>7, <1>8 DEF Grows

-----------------------------------------------------------------------------
(* Types *)

\* Init establishes TypeOK and Known.
LEMMA TypeInit == Init => TypeOK /\ Known
BY HttpAssumption DEF HttpAssumption, Init, TypeOK, Known, Modes, Sessions

\* Every action keeps TypeOK.
LEMMA TypeStep == TypeOK /\ Known /\ [Next]_vars => TypeOK'
<1> SUFFICES ASSUME TypeOK, Known, [Next]_vars PROVE TypeOK'
  OBVIOUS
<1> USE HttpAssumption DEF HttpAssumption, Set, Take, Arm, Others, Finish, linkVars, clientVars, serverVars
<1>w. ASSUME NEW c, NEW r, NEW K, Grows(c, r, K)
      PROVE  wire' \in [Conns -> Seq([req : Reqs, kind : WireKinds])]
  BY <1>w DEF Grows, Pieces
<1>c. ASSUME NEW r \in Reqs, at[r] # None PROVE at[r] \in Conns
  BY <1>c DEF TypeOK
<1>t. ASSUME NEW r \in Reqs, StopTimer(r)
      PROVE  timer' \in [Reqs -> {"unset", "armed", "fired", "taken", "stopped", "off"}]
  BY <1>t DEF StopTimer, TypeOK
<1>1. ASSUME NEW c \in Conns, NEW r \in Reqs, Refuse(c, r)
      PROVE  TypeOK'
  <2>1. wire' \in [Conns -> Seq([req : Reqs, kind : WireKinds])]
    BY <1>1, <1>w, DestroyGrows DEF Refuse, TypeOK
  <2>2. conn' \in [Conns -> {"open", "closed", "gone"}]
    BY ZenonT(40), <1>1 DEF Refuse, Destroy, TypeOK
  <2>3. handler' \in [Conns -> {"read", "send", "body", "wait", "exit", "done"}]
    BY <1>1 DEF Refuse, TypeOK
  <2>4. at' \in [Reqs -> Conns \cup {None}]
    BY <1>1 DEF Refuse, TypeOK
  <2>5. QED
    BY <1>1, <2>1, <2>2, <2>3, <2>4 DEF Refuse, TypeOK
<1>2. ASSUME NEW c \in Conns, NEW r \in Reqs, Unauthorized(c, r)
      PROVE  TypeOK'
  <2>1. wire' \in [Conns -> Seq([req : Reqs, kind : WireKinds])]
    BY <1>2, <1>w, PutGrows, Kinds DEF Unauthorized, TypeOK
  <2>2. handler' \in [Conns -> {"read", "send", "body", "wait", "exit", "done"}]
    BY <1>2 DEF Unauthorized, TypeOK
  <2>3. at' \in [Reqs -> Conns \cup {None}]
    BY <1>2 DEF Unauthorized, TypeOK
  <2>4. QED
    BY <1>2, <2>1, <2>2, <2>3 DEF Unauthorized, Put, TypeOK
<1>3. ASSUME NEW c \in Conns, NEW r \in Reqs, NEW m \in Modes, NEW last \in BOOLEAN,
             Register(c, r, m, last)
      PROVE  TypeOK'
  BY <1>3 DEF Register, TypeOK
<1>4. ASSUME NEW c \in Conns, SendAll(c) PROVE TypeOK'
  BY <1>4 DEF SendAll, TypeOK, Known, Reaches, NextRead
<1>5. ASSUME NEW c \in Conns, SendHead(c) PROVE TypeOK'
  BY <1>5 DEF SendHead, TypeOK, Known, Reaches
<1>6. ASSUME NEW c \in Conns, SendBody(c) PROVE TypeOK'
  BY ZenonT(40), <1>6 DEF SendBody, TypeOK, Known, Reaches, NextRead
<1>7. ASSUME NEW c \in Conns, SendFail(c) PROVE TypeOK'
  <2>1. cur[c] \in Reqs
    BY <1>7 DEF SendFail, Known
  <2>2. QED
    BY <1>7, <2>1, <1>w, DestroyGrows DEF SendFail, TypeOK, StopTimer, NextRead
<1>8. ASSUME NEW c \in Conns, Unblock(c) PROVE TypeOK'
  BY <1>8 DEF Unblock, TypeOK
<1>9. ASSUME NEW c \in Conns, Cleanup(c) PROVE TypeOK'
  BY <1>9 DEF Cleanup, TypeOK
<1>10. ASSUME NEW c \in Conns, BrowserLeaves(c) PROVE TypeOK'
  BY <1>10 DEF BrowserLeaves, TypeOK
<1>11. ASSUME NEW r \in Reqs, TimerFire(r) PROVE TypeOK'
  BY <1>11 DEF TimerFire, TypeOK
<1>12. ASSUME NEW r \in Reqs, TimerTake(r) PROVE TypeOK'
  BY <1>12 DEF TimerTake, TypeOK
<1>13. ASSUME NEW r \in Reqs, TimerWrite(r) PROVE TypeOK'
  <2>1. at[r] \in Conns
    BY <1>13, <1>c DEF TimerWrite, Known
  <2>2. QED
    BY <1>13, <2>1, <1>w, DeliverGrows, Kinds DEF TimerWrite, TypeOK
<1>14. ASSUME NEW r \in Reqs, RelayEnds(r) PROVE TypeOK'
  BY <1>14 DEF RelayEnds, TypeOK
<1>15. ASSUME NEW l \in Sessions, Receive(l) PROVE TypeOK'
  <2>1. /\ uplink[l] \in Seq(Frames) /\ uplink[l] # <<>>
        /\ Head(uplink[l]) \in Frames /\ Tail(uplink[l]) \in Seq(Frames)
    BY <1>15 DEF Receive, TypeOK
  <2>2. Head(uplink[l]) \in Holding /\ Head(uplink[l]).req \in Reqs
    BY <2>1 DEF Frames, Holding
  <2>3. uplink' \in [Sessions -> Seq(Frames)] /\ reader' \in [Sessions -> Holding \cup {None}]
    BY ZenonT(40), <1>15, <2>1, <2>2 DEF Receive, TypeOK
  <2>4. timer' \in [Reqs -> {"unset", "armed", "fired", "taken", "stopped", "off"}]
    BY <1>15, <1>t, <2>2 DEF Receive, TypeOK
  <2>5. callback' \subseteq Reqs
    BY <1>15 DEF Receive, TypeOK
  <2>6. QED
    BY <1>15, <2>3, <2>4, <2>5 DEF Receive, TypeOK
<1>h. ASSUME NEW l \in Sessions, reader[l] # None
      PROVE  reader[l] \in Holding /\ reader[l].req \in Reqs /\ at[reader[l].req] \in Conns
  BY <1>h DEF TypeOK, Known, Holding
<1>16. ASSUME NEW l \in Sessions, Answer(l) PROVE TypeOK'
  <2>1. reader[l].req \in Reqs /\ at[reader[l].req] \in Conns
    BY <1>16, <1>h DEF Answer
  <2>2. wire' \in [Conns -> Seq([req : Reqs, kind : WireKinds])]
    BY ZenonT(40), <1>16, <2>1, <1>w, DeliverGrows, Kinds DEF Answer, TypeOK
  <2>3. conn' \in [Conns -> {"open", "closed", "gone"}]
    <3>1. conn' = conn \/ conn' = [conn EXCEPT ![at[reader[l].req]] = "closed"]
      BY <1>16, Zenon DEF Answer, Deliver, Put, Destroy
    <3>2. conn \in [Conns -> {"open", "closed", "gone"}]
      BY DEF TypeOK
    <3>3. QED
      BY <3>1, <3>2
  <2>4. timer' \in [Reqs -> {"unset", "armed", "fired", "taken", "stopped", "off"}]
    BY <1>16, <2>1, <1>t DEF Answer, TypeOK
  <2>5. reader' \in [Sessions -> Holding \cup {None}]
    BY <1>16 DEF Answer, TypeOK
  <2>6. /\ UNCHANGED <<handler, cur, at, via, mode, lastReq, callback, session, relay,
                       live, used, uplink, client, bodies>>
        /\ released' \subseteq released \cup {reader[l].req}
    BY <1>16 DEF Answer
  <2>7. QED
    BY <2>1, <2>2, <2>3, <2>4, <2>5, <2>6 DEF TypeOK
<1>17. ASSUME NEW l \in Sessions, Switching(l) PROVE TypeOK'
  <2>1. reader[l] \in Holding /\ reader[l].req \in Reqs /\ at[reader[l].req] \in Conns
    BY <1>17, <1>h DEF Switching
  <2>2. [reader[l] EXCEPT !.kind = "ensure"] \in Holding
    BY <2>1 DEF Holding
  <2>3. reader' \in [Sessions -> Holding \cup {None}]
    BY <1>17, <2>2 DEF Switching, TypeOK
  <2>4. timer' \in [Reqs -> {"unset", "armed", "fired", "taken", "stopped", "off"}]
    BY <1>17, <1>t, <2>1 DEF Switching
  <2>5. /\ wire' \in [Conns -> Seq([req : Reqs, kind : WireKinds])]
        /\ conn' \in [Conns -> {"open", "closed", "gone"}]
        /\ released' \subseteq Reqs
    <3>1. CASE UNCHANGED <<conn, wire, released>>
      BY <3>1 DEF TypeOK
    <3>2. CASE Destroy(at[reader[l].req], reader[l].req) /\ released' = released \cup {reader[l].req}
      <4>1. /\ Grows(at[reader[l].req], reader[l].req, {"404"})
            /\ conn' \in [Conns -> {"open", "closed", "gone"}]
        BY <3>2, <2>1, DestroyGrows
      <4>2. QED
        BY <3>2, <4>1, <2>1, <1>w DEF TypeOK
    <3>3. QED
      BY <1>17, <3>1, <3>2 DEF Switching
  <2>6. QED
    BY <1>17, <2>3, <2>4, <2>5 DEF Switching, TypeOK
<1>18. ASSUME NEW l \in Sessions, DataChannelUp(l) PROVE TypeOK'
  <2>1. reader[l].req \in Reqs /\ at[reader[l].req] \in Conns
    BY <1>18, <1>h DEF DataChannelUp
  <2>2. /\ wire' \in [Conns -> Seq([req : Reqs, kind : WireKinds])]
        /\ conn' \in [Conns -> {"open", "closed", "gone"}]
    BY <1>18, <2>1, <1>w, PutGrows, Kinds DEF DataChannelUp
  <2>3. relay' \subseteq Reqs /\ released' \subseteq Reqs
    BY <1>18, <2>1 DEF DataChannelUp, TypeOK
  <2>4. reader' \in [Sessions -> Holding \cup {None}]
    BY <1>18 DEF DataChannelUp, TypeOK
  <2>5. QED
    BY <1>18, <2>2, <2>3, <2>4 DEF DataChannelUp, TypeOK
<1>19. ASSUME NEW l \in Sessions, DataChannelFails(l) PROVE TypeOK'
  <2>1. reader[l].req \in Reqs /\ at[reader[l].req] \in Conns
    BY <1>19, <1>h DEF DataChannelFails
  <2>2. QED
    BY <1>19, <2>1, <1>w, FailsGrows DEF DataChannelFails, TypeOK
<1>20. ASSUME NEW l \in Sessions, Dispatch(l) PROVE TypeOK'
  <2>1. reader[l].req \in Reqs /\ at[reader[l].req] \in Conns
    BY <1>20, <1>h DEF Dispatch
  <2>2. reader[l].kind \in WireKinds
    BY <1>20, Kinds DEF Dispatch
  <2>3. /\ wire' \in [Conns -> Seq([req : Reqs, kind : WireKinds])]
        /\ conn' \in [Conns -> {"open", "closed", "gone"}]
    BY <1>20, <2>1, <2>2, <1>w, PutGrows, DestroyGrows DEF Dispatch
  <2>4. session' \subseteq Reqs /\ callback' \subseteq Reqs
    BY <1>20 DEF Dispatch, TypeOK
  <2>5. reader' \in [Sessions -> Holding \cup {None}]
    BY <1>20 DEF Dispatch, TypeOK
  <2>6. QED
    BY <1>20, <2>3, <2>4, <2>5 DEF Dispatch, TypeOK
<1>s. ASSUME NEW r \in Reqs, NEW k \in FrameKinds, ClientSends(r, k)
      PROVE  uplink' \in [Sessions -> Seq(Frames)]
  <2>1. Piece(r, k) \in Frames
    BY DEF Piece, Frames
  <2>2. uplink \in [Sessions -> Seq(Frames)]
    BY DEF TypeOK
  <2>3. CASE live = 0
    BY <1>s, <2>2, <2>3 DEF ClientSends
  <2>4. CASE live # 0
    <3>1. live \in Sessions
      BY <2>4 DEF TypeOK, Sessions
    <3>2. Append(uplink[live], Piece(r, k)) \in Seq(Frames)
      BY <2>1, <2>2, <3>1
    <3>3. QED
      BY <1>s, <2>2, <2>4, <3>2 DEF ClientSends
  <2>5. QED
    BY <2>3, <2>4
<1>21. ASSUME NEW r \in Reqs, NEW k \in {"full", "101"}, ClientAnswers(r, k) PROVE TypeOK'
  BY <1>21, <1>s DEF ClientAnswers, TypeOK, FrameKinds
<1>22. ASSUME NEW r \in Reqs, NEW k \in StreamKinds, ClientStreams(r, k) PROVE TypeOK'
  <2>1. uplink' \in [Sessions -> Seq(Frames)]
    BY <1>22, <1>s DEF ClientStreams, FrameKinds
  <2>2. bodies' \in [Reqs -> 0 .. MaxBody]
    BY <1>22 DEF ClientStreams, TypeOK
  <2>3. QED
    BY <1>22, <2>1, <2>2 DEF ClientStreams, TypeOK
<1>23. ASSUME LinkUp PROVE TypeOK'
  <2>1. used + 1 \in 0 .. Links
    BY <1>23 DEF LinkUp, TypeOK
  <2>2. QED
    BY <1>23, <2>1 DEF LinkUp, TypeOK
<1>24. ASSUME LinkDown PROVE TypeOK'
  <2>1. live \in Sessions
    BY <1>24 DEF LinkDown, TypeOK, Sessions
  <2>2. PICK n \in 0 .. Len(uplink[live]) :
           uplink' = [uplink EXCEPT ![live] = SubSeq(@, 1, n)]
    BY <1>24 DEF LinkDown
  <2>3. uplink[live] \in Seq(Frames)
    BY <2>1 DEF TypeOK
  <2>4. SubSeq(uplink[live], 1, n) \in Seq(Frames)
    BY <2>3, SubSeqProperties
  <2>5. uplink' \in [Sessions -> Seq(Frames)]
    BY <2>2, <2>4 DEF TypeOK
  <2>6. 0 \in 0 .. Links
    OBVIOUS
  <2>7. QED
    BY <1>24, <2>5, <2>6 DEF LinkDown, TypeOK
<1>25. ASSUME UNCHANGED vars PROVE TypeOK'
  BY <1>25 DEF vars, TypeOK
<1>26. QED
  BY <1>1, <1>2, <1>3, <1>4, <1>5, <1>6, <1>7, <1>8, <1>9, <1>10, <1>11, <1>12,
     <1>13, <1>14, <1>15, <1>16, <1>17, <1>18, <1>19, <1>20, <1>21, <1>22, <1>23,
     <1>24, <1>25
     DEF Next, Handler, Timer, ReadLoop, Client

-----------------------------------------------------------------------------
(* Origins *)

\* The wires part of Known survives a step that appends pieces of a request to
\* the wire of the connection it came in on.
LEMMA WireKnown ==
    ASSUME TypeOK, Known, NEW c \in Conns, NEW r \in Reqs, NEW K, Grows(c, r, K),
           at'[r] = c, \A q \in Reqs : at[q] # None => at'[q] = at[q]
    PROVE  \A d \in Conns : \A i \in 1 .. Len(wire'[d]) : at'[wire'[d][i].req] = d
<1> SUFFICES ASSUME NEW d \in Conns, NEW i \in 1 .. Len(wire'[d])
             PROVE  at'[wire'[d][i].req] = d
  OBVIOUS
<1>0. wire \in [Conns -> Seq(Pieces)]
  BY DEF TypeOK, Pieces
<1>1. wire[d] \in Seq(Pieces) /\ Len(wire[d]) \in Nat
  BY <1>0
<1>2. CASE i <= Len(wire[d])
  <2>1. i \in 1 .. Len(wire[d])
    BY <1>1, <1>2
  <2>2. wire[d][i] \in Pieces /\ at[wire[d][i].req] = d
    BY <1>1, <2>1 DEF Known
  <2>3. wire[d][i].req \in Reqs
    BY <2>2 DEF Pieces
  <2>4. d # None
    BY HttpAssumption DEF HttpAssumption
  <2>5. wire'[d][i] = wire[d][i]
    BY <1>2 DEF Grows
  <2>6. QED
    BY <2>2, <2>3, <2>4, <2>5
<1>3. CASE ~ (i <= Len(wire[d]))
  BY <1>3 DEF Grows
<1>4. QED
  BY <1>2, <1>3

\* Every action keeps Known.
LEMMA KnownStep == TypeOK /\ Known /\ [Next]_vars => Known'
<1> SUFFICES ASSUME TypeOK, Known, [Next]_vars PROVE Known'
  OBVIOUS
<1> USE HttpAssumption DEF HttpAssumption, Set, Take, Arm, Others, Finish, linkVars, clientVars, serverVars
<1>a. ASSUME NEW r \in Reqs, at[r] # None PROVE at[r] \in Conns
  BY <1>a DEF TypeOK
<1>h. ASSUME NEW l \in Sessions, reader[l] # None
      PROVE  reader[l] \in Holding /\ reader[l].req \in Reqs /\ at[reader[l].req] \in Conns
  BY <1>h DEF TypeOK, Known, Holding
<1>r. ASSUME NEW c \in Conns, NEW r \in Reqs, Readable(c, r), at' = [at EXCEPT ![r] = c]
      PROVE  /\ at'[r] = c
             /\ \A q \in Reqs : at[q] # None => at'[q] = at[q]
             /\ r \notin callback \cup session \cup relay
             /\ timer[r] = "unset"
             /\ \A q \in callback \cup session \cup relay : at'[q] # None
             /\ \A q \in Reqs : timer[q] # "unset" => at'[q] # None
             /\ \A l \in Sessions : reader[l] # None => at'[reader[l].req] # None
             /\ \A d \in Conns :
                   handler[d] \in {"send", "body", "wait"} =>
                      cur[d] \in Reqs /\ at'[cur[d]] = d
  BY <1>r, <1>h DEF Readable, Known, TypeOK
<1>1. ASSUME NEW c \in Conns, NEW r \in Reqs, Refuse(c, r)
      PROVE  Known'
  <2>1. Readable(c, r) /\ at' = [at EXCEPT ![r] = c] /\ Grows(c, r, {"404"})
    BY <1>1, DestroyGrows DEF Refuse
  <2>2. \A d \in Conns : \A i \in 1 .. Len(wire'[d]) : at'[wire'[d][i].req] = d
    BY <2>1, <1>r, WireKnown
  <2>3. PICK h \in {"read", "exit"} : handler' = [handler EXCEPT ![c] = h]
    BY <1>1 DEF Refuse
  <2>4. \A d \in Conns : handler'[d] \in {"send", "body", "wait"} => handler'[d] = handler[d]
    BY <2>3 DEF TypeOK
  <2>5. /\ callback' = callback /\ session' = session /\ relay' = relay /\ timer' = timer
        /\ reader' = reader /\ cur' = cur
    BY <1>1 DEF Refuse
  <2>6. /\ \A q \in callback \cup session \cup relay : at'[q] # None
        /\ \A q \in Reqs : timer[q] # "unset" => at'[q] # None
        /\ \A l \in Sessions : reader[l] # None => at'[reader[l].req] # None
    BY <2>1, <1>r
  <2>7. \A d \in Conns :
           handler'[d] \in {"send", "body", "wait"} => cur[d] \in Reqs /\ at'[cur[d]] = d
    BY <2>1, <2>4, <1>r
  <2>8. QED
    BY ZenonT(40), <2>2, <2>5, <2>6, <2>7 DEF Known
<1>2. ASSUME NEW c \in Conns, NEW r \in Reqs, Unauthorized(c, r)
      PROVE  Known'
  <2>1. Readable(c, r) /\ at' = [at EXCEPT ![r] = c] /\ Grows(c, r, {"401"})
    BY <1>2, PutGrows, Kinds DEF Unauthorized
  <2>2. \A d \in Conns : \A i \in 1 .. Len(wire'[d]) : at'[wire'[d][i].req] = d
    BY <2>1, <1>r, WireKnown
  <2>3. PICK h \in {"read", "exit"} : handler' = [handler EXCEPT ![c] = h]
    BY <1>2 DEF Unauthorized
  <2>4. \A d \in Conns : handler'[d] \in {"send", "body", "wait"} => handler'[d] = handler[d]
    BY <2>3 DEF TypeOK
  <2>5. /\ callback' = callback /\ session' = session /\ relay' = relay /\ timer' = timer
        /\ reader' = reader /\ cur' = cur
    BY <1>2 DEF Unauthorized
  <2>6. QED
    BY ZenonT(40), <2>1, <2>2, <2>4, <2>5, <1>r DEF Known
<1>3. ASSUME NEW c \in Conns, NEW r \in Reqs, NEW m \in Modes, NEW last \in BOOLEAN,
             Register(c, r, m, last)
      PROVE  Known'
  <2>1. Readable(c, r) /\ at' = [at EXCEPT ![r] = c] /\ wire' = wire
    BY <1>3 DEF Register
  <2>2. Grows(c, r, {"404"})
    <3>1. wire \in [Conns -> Seq(Pieces)]
      BY DEF TypeOK, Pieces
    <3>2. QED
      BY <2>1, <3>1, AppendGrows, Kinds
  <2>3. \A d \in Conns : \A i \in 1 .. Len(wire'[d]) : at'[wire'[d][i].req] = d
    BY ZenonT(40), <2>1, <2>2, <1>r, WireKnown
  <2>4. /\ callback' = callback \cup {r} /\ session' \subseteq session \cup {r}
        /\ relay' = relay /\ timer' = [timer EXCEPT ![r] = "armed"] /\ reader' = reader
        /\ cur' = [cur EXCEPT ![c] = r] /\ handler' = [handler EXCEPT ![c] = "send"]
    BY <1>3 DEF Register
  <2>5. c # None
    OBVIOUS
  <2>6. /\ at'[r] = c
        /\ \A q \in callback \cup session \cup relay : at'[q] # None
        /\ \A q \in Reqs : timer[q] # "unset" => at'[q] # None
        /\ \A l \in Sessions : reader[l] # None => at'[reader[l].req] # None
        /\ \A d \in Conns :
              handler[d] \in {"send", "body", "wait"} => cur[d] \in Reqs /\ at'[cur[d]] = d
    BY <2>1, <1>r
  <2>7. \A q \in callback' \cup session' \cup relay' : at'[q] # None
    <3>1. \A q \in callback' \cup session' \cup relay' : q = r \/ q \in callback \cup session \cup relay
      BY <2>4
    <3>2. QED
      BY <2>5, <2>6, <3>1
  <2>8. \A q \in Reqs : timer'[q] # "unset" => at'[q] # None
    <3>1. \A q \in Reqs : q # r => timer'[q] = timer[q]
      BY <2>4 DEF TypeOK
    <3>2. QED
      BY <2>5, <2>6, <3>1
  <2>9. \A d \in Conns : handler'[d] \in {"send", "body", "wait"} =>
                          cur'[d] \in Reqs /\ at'[cur'[d]] = d
    <3>1. \A d \in Conns : d # c => handler'[d] = handler[d] /\ cur'[d] = cur[d]
      BY <2>4 DEF TypeOK
    <3>2. cur'[c] = r
      BY <2>4 DEF TypeOK
    <3>3. QED
      BY <2>6, <3>1, <3>2
  <2>10. QED
    BY <2>3, <2>4, <2>6, <2>7, <2>8, <2>9 DEF Known
<1>g. ASSUME NEW c \in Conns, NEW r \in Reqs, NEW K, Grows(c, r, K), at[r] = c, at' = at
      PROVE  \A d \in Conns : \A i \in 1 .. Len(wire'[d]) : at'[wire'[d][i].req] = d
  BY <1>g, WireKnown
<1>4. ASSUME NEW c \in Conns, SendAll(c) PROVE Known'
  BY <1>4 DEF SendAll, TypeOK, Known, NextRead
<1>5. ASSUME NEW c \in Conns, SendHead(c) PROVE Known'
  BY <1>5 DEF SendHead, TypeOK, Known
<1>6. ASSUME NEW c \in Conns, SendBody(c) PROVE Known'
  BY <1>6 DEF SendBody, TypeOK, Known, NextRead
<1>7. ASSUME NEW c \in Conns, SendFail(c) PROVE Known'
  <2>1. cur[c] \in Reqs /\ at[cur[c]] = c
    BY <1>7 DEF SendFail, Known
  <2>2. Grows(c, cur[c], {"404"})
    BY <1>7, <2>1, DestroyGrows DEF SendFail
  <2>3. \A d \in Conns : \A i \in 1 .. Len(wire'[d]) : at'[wire'[d][i].req] = d
    BY <1>7, <2>1, <2>2, <1>g DEF SendFail
  <2>4. QED
    BY <1>7, <2>1, <2>3 DEF SendFail, TypeOK, Known, StopTimer, NextRead
<1>8. ASSUME NEW c \in Conns, Unblock(c) PROVE Known'
  BY <1>8 DEF Unblock, TypeOK, Known
<1>9. ASSUME NEW c \in Conns, Cleanup(c) PROVE Known'
  BY <1>9 DEF Cleanup, TypeOK, Known
<1>10. ASSUME NEW c \in Conns, BrowserLeaves(c) PROVE Known'
  BY <1>10 DEF BrowserLeaves, TypeOK, Known
<1>11. ASSUME NEW r \in Reqs, TimerFire(r) PROVE Known'
  BY <1>11 DEF TimerFire, TypeOK, Known
<1>12. ASSUME NEW r \in Reqs, TimerTake(r) PROVE Known'
  BY <1>12 DEF TimerTake, TypeOK, Known
<1>13. ASSUME NEW r \in Reqs, TimerWrite(r) PROVE Known'
  <2>1. at[r] \in Conns
    BY <1>13, <1>a DEF TimerWrite, Known
  <2>2. Grows(at[r], r, {"504", "404"}) /\ at' = at
    BY <1>13, <2>1, DeliverGrows, Kinds DEF TimerWrite
  <2>3. \A d \in Conns : \A i \in 1 .. Len(wire'[d]) : at'[wire'[d][i].req] = d
    BY <2>1, <2>2, <1>g
  <2>4. QED
    BY <1>13, <2>1, <2>3 DEF TimerWrite, TypeOK, Known
<1>14. ASSUME NEW r \in Reqs, RelayEnds(r) PROVE Known'
  BY <1>14 DEF RelayEnds, TypeOK, Known
<1>15. ASSUME NEW l \in Sessions, Receive(l) PROVE Known'
  <2> DEFINE f == Head(uplink[l])
  <2>1. f \in Frames
    BY <1>15 DEF Receive, TypeOK
  <2>2. f.req \in Reqs
    BY <2>1 DEF Frames
  <2>3. reader' = [reader EXCEPT ![l] = reader'[l]] /\ reader'[l] \in {f, None}
    BY <1>15 DEF Receive, TypeOK
  <2>4. reader'[l] = f \/ f.req \in callback \cup session \/ reader'[l] = None
    BY <2>3
  <2>5. reader'[l] # None => f.req \in callback \cup session
    BY <1>15 DEF Receive, TypeOK
  <2>6. \A q \in Sessions : reader'[q] # None => at[reader'[q].req] # None
    BY ZenonT(40), <2>3, <2>5 DEF Known, TypeOK
  <2>7. \A r \in Reqs : timer'[r] # "unset" => timer[r] # "unset"
    BY <1>15, <2>2 DEF Receive, StopTimer, TypeOK
  <2>8. callback' \subseteq callback
    BY <1>15 DEF Receive
  <2> HIDE DEF f
  <2>9. QED
    BY <1>15, <2>6, <2>7, <2>8 DEF Receive, TypeOK, Known
<1>16. ASSUME NEW l \in Sessions, Answer(l) PROVE Known'
  <2>1. reader[l].req \in Reqs /\ at[reader[l].req] \in Conns
    BY <1>16, <1>h DEF Answer
  <2>2. Grows(at[reader[l].req], reader[l].req, {"full", "404"}) /\ at' = at
    BY <1>16, <2>1, DeliverGrows, Kinds DEF Answer
  <2>3. \A d \in Conns : \A i \in 1 .. Len(wire'[d]) : at'[wire'[d][i].req] = d
    BY <2>1, <2>2, <1>g
  <2>4. QED
    BY <1>16, <2>1, <2>3 DEF Answer, TypeOK, Known, StopTimer
<1>17. ASSUME NEW l \in Sessions, Switching(l) PROVE Known'
  <2>1. reader[l] \in Holding /\ reader[l].req \in Reqs /\ at[reader[l].req] \in Conns
    BY <1>17, <1>h DEF Switching
  <2>2. at' = at /\ (wire' = wire \/ Grows(at[reader[l].req], reader[l].req, {"404"}))
    BY <1>17, <2>1, DestroyGrows DEF Switching
  <2>3. \A d \in Conns : \A i \in 1 .. Len(wire'[d]) : at'[wire'[d][i].req] = d
    <3>1. CASE wire' = wire
      BY <3>1, <2>2 DEF Known
    <3>2. QED
      BY <3>1, <2>1, <2>2, <1>g
  <2>4. \A q \in Sessions : reader'[q] # None =>
           reader[q] # None /\ reader'[q].req = reader[q].req
    <3>1. \/ reader' = [reader EXCEPT ![l] = None]
          \/ reader' = [reader EXCEPT ![l] = [reader[l] EXCEPT !.kind = "ensure"]]
      BY <1>17 DEF Switching
    <3>2. [reader[l] EXCEPT !.kind = "ensure"].req = reader[l].req /\ reader[l] # None
      BY <1>17, <2>1 DEF Switching, Holding
    <3>3. reader \in [Sessions -> Holding \cup {None}]
      BY DEF TypeOK
    <3>4. QED
      BY <3>1, <3>2, <3>3
  <2>5. QED
    BY <1>17, <2>1, <2>3, <2>4 DEF Switching, TypeOK, Known, StopTimer
<1>18. ASSUME NEW l \in Sessions, DataChannelUp(l) PROVE Known'
  <2>1. reader[l].req \in Reqs /\ at[reader[l].req] \in Conns
    BY <1>18, <1>h DEF DataChannelUp
  <2>2. Grows(at[reader[l].req], reader[l].req, {"101"}) /\ at' = at
    BY <1>18, <2>1, PutGrows, Kinds DEF DataChannelUp
  <2>3. \A d \in Conns : \A i \in 1 .. Len(wire'[d]) : at'[wire'[d][i].req] = d
    BY <2>1, <2>2, <1>g
  <2>4. \A q \in relay' : q \in relay \/ q = reader[l].req
    BY <1>18 DEF DataChannelUp
  <2>5. \A q \in Sessions : reader'[q] # None => reader'[q] = reader[q]
    BY <1>18 DEF DataChannelUp, TypeOK
  <2>6. QED
    BY <1>18, <2>1, <2>3, <2>4, <2>5 DEF DataChannelUp, Known
<1>19. ASSUME NEW l \in Sessions, DataChannelFails(l) PROVE Known'
  <2>1. reader[l].req \in Reqs /\ at[reader[l].req] \in Conns
    BY <1>19, <1>h DEF DataChannelFails
  <2>2. at' = at /\ (wire' = wire \/ Grows(at[reader[l].req], reader[l].req, {"502", "404"}))
    BY <1>19, <2>1, FailsGrows DEF DataChannelFails
  <2>3. \A d \in Conns : \A i \in 1 .. Len(wire'[d]) : at'[wire'[d][i].req] = d
    <3>1. CASE wire' = wire
      BY <3>1, <2>2 DEF Known
    <3>2. QED
      BY <3>1, <2>1, <2>2, <1>g
  <2>4. \A q \in Sessions : reader'[q] # None => reader'[q] = reader[q]
    BY <1>19 DEF DataChannelFails, TypeOK
  <2>5. QED
    BY <1>19, <2>1, <2>3, <2>4 DEF DataChannelFails, Known
<1>20. ASSUME NEW l \in Sessions, Dispatch(l) PROVE Known'
  <2>1. reader[l].req \in Reqs /\ at[reader[l].req] \in Conns
    BY <1>20, <1>h DEF Dispatch
  <2>2. Grows(at[reader[l].req], reader[l].req, {reader[l].kind, "404"}) /\ at' = at
    <3>1. reader[l].kind \in WireKinds
      BY <1>20, Kinds DEF Dispatch
    <3>2. QED
      BY <1>20, <2>1, <3>1, PutGrows, DestroyGrows DEF Dispatch
  <2>3. \A d \in Conns : \A i \in 1 .. Len(wire'[d]) : at'[wire'[d][i].req] = d
    BY <2>1, <2>2, <1>g
  <2>4. \A q \in Sessions : reader'[q] # None => reader'[q] = reader[q]
    BY <1>20 DEF Dispatch, TypeOK
  <2>5. session' \subseteq session /\ callback' \subseteq callback
    BY <1>20 DEF Dispatch
  <2>6. QED
    BY <1>20, <2>1, <2>3, <2>4, <2>5 DEF Dispatch, Known
<1>21. ASSUME NEW r \in Reqs, NEW k \in {"full", "101"}, ClientAnswers(r, k) PROVE Known'
  BY <1>21 DEF ClientAnswers, Known
<1>22. ASSUME NEW r \in Reqs, NEW k \in StreamKinds, ClientStreams(r, k) PROVE Known'
  BY <1>22 DEF ClientStreams, Known
<1>23. ASSUME LinkUp PROVE Known'
  BY <1>23 DEF LinkUp, Known
<1>24. ASSUME LinkDown PROVE Known'
  BY <1>24 DEF LinkDown, Known
<1>25. ASSUME UNCHANGED vars PROVE Known'
  BY <1>25 DEF vars, Known
<1>26. QED
  BY <1>1, <1>2, <1>3, <1>4, <1>5, <1>6, <1>7, <1>8, <1>9, <1>10, <1>11, <1>12,
     <1>13, <1>14, <1>15, <1>16, <1>17, <1>18, <1>19, <1>20, <1>21, <1>22, <1>23,
     <1>24, <1>25
     DEF Next, Handler, Timer, ReadLoop, Client

\* Type correctness of the HTTP tunnel, for every value of the constants.
THEOREM TypeCorrect == Spec => []TypeOK
<1>1. Init => TypeOK /\ Known
  BY TypeInit
<1>2. TypeOK /\ Known /\ [Next]_vars => (TypeOK /\ Known)'
  BY TypeStep, KnownStep
<1>3. QED
  BY <1>1, <1>2, PTL DEF Spec

-----------------------------------------------------------------------------
(* At most one answer *)

\* Appending to r's wire writes no whole answer but r's.
LEMMA WrittenGrows ==
    ASSUME TypeOK, NEW c \in Conns, NEW r \in Reqs, NEW K, Grows(c, r, K), NEW q, Written(q)'
    PROVE  Written(q) \/ (q = r /\ K \cap WholeKinds # {})
<1>0. PICK d \in Conns : \E i \in 1 .. Len(wire'[d]) :
         wire'[d][i].req = q /\ wire'[d][i].kind \in WholeKinds
  BY DEF Written
<1>1. PICK i \in 1 .. Len(wire'[d]) :
         wire'[d][i].req = q /\ wire'[d][i].kind \in WholeKinds
  BY <1>0
<1>2. wire \in [Conns -> Seq(Pieces)]
  BY DEF TypeOK, Pieces
<1>3. wire[d] \in Seq(Pieces) /\ Len(wire[d]) \in Nat
  BY <1>2
<1>4. CASE i <= Len(wire[d])
  <2>1. i \in 1 .. Len(wire[d])
    BY <1>3, <1>4
  <2>2. wire'[d][i] = wire[d][i]
    BY <1>4 DEF Grows
  <2>3. QED
    BY <1>1, <2>1, <2>2 DEF Written
<1>5. CASE ~ (i <= Len(wire[d]))
  BY <1>1, <1>5 DEF Grows
<1>6. QED
  BY <1>4, <1>5

\* AnswerOnce survives a write that is not a whole answer, or the first one.
LEMMA OnceGrows ==
    ASSUME TypeOK, AnswerOnce, NEW c \in Conns, NEW r \in Reqs, NEW K, Grows(c, r, K),
           K \cap WholeKinds = {} \/ ~Written(r)
    PROVE  AnswerOnce'
<1>0. wire \in [Conns -> Seq(Pieces)]
  BY DEF TypeOK, Pieces
<1> SUFFICES ASSUME NEW d \in Conns, NEW i \in 1 .. Len(wire'[d]), NEW j \in 1 .. Len(wire'[d]),
                    wire'[d][i].kind \in WholeKinds, wire'[d][j].kind \in WholeKinds,
                    wire'[d][i].req = wire'[d][j].req
             PROVE  i = j
  BY DEF AnswerOnce
<1>1. Len(wire[d]) \in Nat /\ wire'[d] \in Seq(Pieces) /\ i \in Nat /\ j \in Nat
  BY <1>0 DEF Grows
<1>n. ASSUME NEW k \in 1 .. Len(wire'[d]), ~ (k <= Len(wire[d])), wire'[d][k].kind \in WholeKinds
      PROVE  d = c /\ wire'[d][k].req = r /\ K \cap WholeKinds # {} /\ k = Len(wire[d]) + 1
  BY <1>n DEF Grows, WholeKinds
<1>o. ASSUME NEW k \in 1 .. Len(wire'[d]), k <= Len(wire[d])
      PROVE  k \in 1 .. Len(wire[d]) /\ wire'[d][k] = wire[d][k]
  BY <1>o, <1>1 DEF Grows
<1>2. CASE i <= Len(wire[d]) /\ j <= Len(wire[d])
  BY <1>2, <1>o DEF AnswerOnce
<1>3. CASE ~ (i <= Len(wire[d])) /\ ~ (j <= Len(wire[d]))
  BY <1>3, <1>n
<1>4. CASE i <= Len(wire[d]) /\ ~ (j <= Len(wire[d]))
  BY <1>4, <1>n, <1>o DEF Written
<1>5. CASE ~ (i <= Len(wire[d])) /\ j <= Len(wire[d])
  BY <1>5, <1>n, <1>o DEF Written
<1>6. QED
  BY <1>2, <1>3, <1>4, <1>5

\* A step that hands the right to nobody new, and gives up r's when it writes
\* a whole answer of r.
LEMMA TokenMoves ==
    ASSUME TypeOK, Token, AnswerOnce, NEW c \in Conns, NEW r \in Reqs, NEW K, Grows(c, r, K),
           callback' \subseteq callback,
           \A q \in Reqs : timer'[q] = "taken" => timer[q] = "taken",
           \A l \in Sessions, q \in Reqs : Holds(l, q)' => Holds(l, q),
           \/ K \cap WholeKinds = {}
           \/ /\ ~Written(r)
              /\ r \notin callback'
              /\ timer'[r] # "taken"
              /\ \A l \in Sessions : ~Holds(l, r)'
    PROVE  Token' /\ AnswerOnce'
<1>1. AnswerOnce'
  BY OnceGrows
<1>2. ASSUME NEW q \in Reqs, Written(q)', ~Written(q)
      PROVE  q = r /\ K \cap WholeKinds # {}
  BY <1>2, WrittenGrows
<1>3. callback \subseteq Reqs
  BY DEF TypeOK
<1>4. \A q \in callback' :
         timer'[q] # "taken" /\ ~Written(q)' /\ \A l \in Sessions : ~Holds(l, q)'
  BY <1>2, <1>3 DEF Token
<1>5. \A q \in Reqs :
         timer'[q] = "taken" => ~Written(q)' /\ \A l \in Sessions : ~Holds(l, q)'
  BY <1>2 DEF Token
<1>6. \A l \in Sessions, q \in Reqs :
         Holds(l, q)' => ~Written(q)' /\ \A m \in Sessions : Holds(m, q)' => m = l
  BY <1>2 DEF Token
<1>7. QED
  BY <1>1, <1>4, <1>5, <1>6 DEF Token

\* A step that writes nothing and hands the right to nobody new.
LEMMA TokenStays ==
    ASSUME Token, AnswerOnce, wire' = wire,
           callback' \subseteq callback, callback \subseteq Reqs,
           \A q \in Reqs : timer'[q] = "taken" => timer[q] = "taken",
           \A l \in Sessions, q \in Reqs : Holds(l, q)' => Holds(l, q)
    PROVE  Token' /\ AnswerOnce'
<1>1. AnswerOnce'
  BY DEF AnswerOnce
<1>2. \A q : Written(q)' = Written(q)
  BY DEF Written
<1>3. QED
  BY <1>1, <1>2 DEF Token

\* Every action keeps Token and AnswerOnce.
LEMMA TokenStep ==
    TypeOK /\ Known /\ Token /\ AnswerOnce /\ [Next]_vars => Token' /\ AnswerOnce'
<1> SUFFICES ASSUME TypeOK, Known, Token, AnswerOnce, [Next]_vars
             PROVE  Token' /\ AnswerOnce'
  OBVIOUS
<1> USE HttpAssumption DEF HttpAssumption, Set, Take, Arm, Others, Finish, linkVars, clientVars, serverVars
<1>a. ASSUME NEW r \in Reqs, at[r] # None PROVE at[r] \in Conns
  BY <1>a DEF TypeOK
<1>h. ASSUME NEW l \in Sessions, reader[l] # None
      PROVE  reader[l] \in Holding /\ reader[l].req \in Reqs /\ at[reader[l].req] \in Conns
  BY <1>h DEF TypeOK, Known, Holding
<1>b. callback \subseteq Reqs
  BY DEF TypeOK
<1>k. /\ {"404"} \cap WholeKinds = {}
      /\ {"401"} \cap WholeKinds = {}
      /\ StreamKinds \cap WholeKinds = {}
  BY DEF WholeKinds, StreamKinds
<1>e. reader' = reader => \A l \in Sessions, q \in Reqs : Holds(l, q)' => Holds(l, q)
  BY DEF Holds
<1>t. \A r \in Reqs : StopTimer(r) =>
         \A q \in Reqs : timer'[q] = "taken" => timer[q] = "taken"
  BY DEF StopTimer, TypeOK
<1>d. ASSUME NEW l \in Sessions, reader' = [reader EXCEPT ![l] = None]
      PROVE  /\ \A m \in Sessions, q \in Reqs : Holds(m, q)' => Holds(m, q)
             /\ \A q \in Reqs : Holds(l, q) => \A m \in Sessions : ~Holds(m, q)'
  BY <1>d DEF Holds, Token, TypeOK
<1>1. ASSUME NEW c \in Conns, NEW r \in Reqs, Refuse(c, r)
      PROVE  Token' /\ AnswerOnce'
  <2>1. Grows(c, r, {"404"})
    BY <1>1, DestroyGrows DEF Refuse
  <2>2. QED
    BY <1>1, <2>1, <1>k, <1>e, TokenMoves DEF Refuse
<1>2. ASSUME NEW c \in Conns, NEW r \in Reqs, Unauthorized(c, r)
      PROVE  Token' /\ AnswerOnce'
  <2>1. Grows(c, r, {"401"})
    BY <1>2, PutGrows, Kinds DEF Unauthorized
  <2>2. QED
    BY <1>2, <2>1, <1>k, <1>e, TokenMoves DEF Unauthorized
<1>3. ASSUME NEW c \in Conns, NEW r \in Reqs, NEW m \in Modes, NEW last \in BOOLEAN,
             Register(c, r, m, last)
      PROVE  Token' /\ AnswerOnce'
  <2>1. /\ at[r] = None /\ callback' = callback \cup {r} /\ reader' = reader /\ wire' = wire
        /\ timer' = [timer EXCEPT ![r] = "armed"]
    BY <1>3 DEF Register, Readable
  <2>2. ~Written(r) /\ \A l \in Sessions : ~Holds(l, r)
    BY <2>1 DEF Written, Holds, Known
  <2>3. \A q \in Reqs : timer'[q] = "taken" => timer[q] = "taken"
    BY <2>1 DEF TypeOK
  <2>4. \A q : Written(q)' = Written(q)
    BY <2>1 DEF Written
  <2>5. \A l \in Sessions, q \in Reqs : Holds(l, q)' = Holds(l, q)
    BY <2>1 DEF Holds
  <2>6. timer'[r] # "taken"
    BY <2>1 DEF TypeOK
  <2>7. AnswerOnce'
    BY <2>1 DEF AnswerOnce
  <2>8. Token'
    BY <2>1, <2>2, <2>3, <2>4, <2>5, <2>6, <1>b DEF Token
  <2>9. QED
    BY <2>7, <2>8
<1>4. ASSUME NEW c \in Conns, SendAll(c) PROVE Token' /\ AnswerOnce'
  BY <1>4, <1>b, <1>e, TokenStays DEF SendAll
<1>5. ASSUME NEW c \in Conns, SendHead(c) PROVE Token' /\ AnswerOnce'
  BY <1>5, <1>b, <1>e, TokenStays DEF SendHead
<1>6. ASSUME NEW c \in Conns, SendBody(c) PROVE Token' /\ AnswerOnce'
  BY <1>6, <1>b, <1>e, TokenStays DEF SendBody
<1>7. ASSUME NEW c \in Conns, SendFail(c) PROVE Token' /\ AnswerOnce'
  <2>1. cur[c] \in Reqs
    BY <1>7 DEF SendFail, Known
  <2>2. Grows(c, cur[c], {"404"})
    BY <1>7, <2>1, DestroyGrows DEF SendFail
  <2>3. \A q \in Reqs : timer'[q] = "taken" => timer[q] = "taken"
    BY <1>7, <2>1, <1>t DEF SendFail
  <2>4. callback' \subseteq callback /\ reader' = reader
    BY <1>7 DEF SendFail
  <2>5. QED
    BY <2>1, <2>2, <2>3, <2>4, <1>k, <1>e, TokenMoves
<1>8. ASSUME NEW c \in Conns, Unblock(c) PROVE Token' /\ AnswerOnce'
  BY <1>8, <1>b, <1>e, TokenStays DEF Unblock
<1>9. ASSUME NEW c \in Conns, Cleanup(c) PROVE Token' /\ AnswerOnce'
  <2>1. \A q \in Reqs : timer'[q] = "taken" => timer[q] = "taken"
    BY <1>9 DEF Cleanup
  <2>2. QED
    BY <1>9, <2>1, <1>b, <1>e, TokenStays DEF Cleanup
<1>10. ASSUME NEW c \in Conns, BrowserLeaves(c) PROVE Token' /\ AnswerOnce'
  BY <1>10, <1>b, <1>e, TokenStays DEF BrowserLeaves
<1>11. ASSUME NEW r \in Reqs, TimerFire(r) PROVE Token' /\ AnswerOnce'
  <2>1. \A q \in Reqs : timer'[q] = "taken" => timer[q] = "taken"
    BY <1>11 DEF TimerFire, TypeOK
  <2>2. QED
    BY <1>11, <2>1, <1>b, <1>e, TokenStays DEF TimerFire
<1>12. ASSUME NEW r \in Reqs, TimerTake(r) PROVE Token' /\ AnswerOnce'
  <2>1. /\ callback' = callback \ {r} /\ reader' = reader /\ wire' = wire
        /\ timer' = [timer EXCEPT ![r] = IF r \in callback THEN "taken" ELSE "off"]
    BY <1>12 DEF TimerTake
  <2>2. \A q : Written(q)' = Written(q)
    BY <2>1 DEF Written
  <2>3. \A l \in Sessions, q \in Reqs : Holds(l, q)' = Holds(l, q)
    BY <2>1 DEF Holds
  <2>4. \A q \in Reqs : timer'[q] = "taken" =>
           (q = r /\ r \in callback) \/ (q # r /\ timer[q] = "taken")
    BY <2>1 DEF TypeOK
  <2>5. Token'
    BY <2>1, <2>2, <2>3, <2>4, <1>b DEF Token
  <2>6. QED
    BY <2>1, <2>5 DEF AnswerOnce
<1>13. ASSUME NEW r \in Reqs, TimerWrite(r) PROVE Token' /\ AnswerOnce'
  <2>1. at[r] \in Conns /\ timer[r] = "taken"
    BY <1>13, <1>a DEF TimerWrite, Known
  <2>2. Grows(at[r], r, {"504", "404"})
    BY <1>13, <2>1, DeliverGrows, Kinds DEF TimerWrite
  <2>3. /\ callback' = callback /\ reader' = reader
        /\ timer' = [timer EXCEPT ![r] = "off"]
    BY <1>13 DEF TimerWrite
  <2>4. timer'[r] # "taken" /\ \A q \in Reqs : timer'[q] = "taken" => timer[q] = "taken"
    BY <2>3 DEF TypeOK
  <2>5. ~Written(r) /\ r \notin callback /\ \A l \in Sessions : ~Holds(l, r)
    BY <2>1 DEF Token
  <2>6. QED
    BY <2>1, <2>2, <2>3, <2>4, <2>5, <1>e, TokenMoves
<1>14. ASSUME NEW r \in Reqs, RelayEnds(r) PROVE Token' /\ AnswerOnce'
  BY <1>14, <1>b, <1>e, TokenStays DEF RelayEnds
<1>15. ASSUME NEW l \in Sessions, Receive(l) PROVE Token' /\ AnswerOnce'
  <2> DEFINE f == Head(uplink[l])
  <2>0. f \in Frames
    BY <1>15 DEF Receive, TypeOK
  <2>1. f.req \in Reqs
    BY <2>0 DEF Frames
  <2>2. wire' = wire
    BY <1>15 DEF Receive
  <2>3. CASE f.kind \in StreamKinds
    <3>1. callback' = callback /\ reader' \in {[reader EXCEPT ![l] = f], [reader EXCEPT ![l] = None]}
      BY <1>15, <2>3 DEF Receive
    <3>2. \A q \in Reqs : timer'[q] = "taken" => timer[q] = "taken"
      BY <1>15, <2>1, <2>3, <1>t DEF Receive
    <3>3. \A m \in Sessions, q \in Reqs : Holds(m, q)' => Holds(m, q)
      BY <3>1, <2>3 DEF Holds, TypeOK
    <3>4. QED
      BY <2>2, <3>1, <3>2, <3>3, <1>b, TokenStays
  <2>4. CASE f.kind \notin StreamKinds /\ f.req \notin callback
    <3>1. /\ callback' \subseteq callback /\ reader' = [reader EXCEPT ![l] = None]
          /\ timer' = timer
      BY <1>15, <2>4 DEF Receive
    <3>2. QED
      BY <2>2, <3>1, <1>d, <1>b, TokenStays
  <2>5. CASE f.kind \notin StreamKinds /\ f.req \in callback
    <3>1. /\ callback' = callback \ {f.req} /\ reader' = [reader EXCEPT ![l] = f]
          /\ timer' = timer
      BY <1>15, <2>5 DEF Receive
    <3>2. ~Written(f.req) /\ timer[f.req] # "taken" /\ \A m \in Sessions : ~Holds(m, f.req)
      BY <2>5 DEF Token
    <3>3. \A q : Written(q)' = Written(q)
      BY <2>2 DEF Written
    <3>4. \A m \in Sessions, q \in Reqs :
             Holds(m, q)' => (m = l /\ q = f.req) \/ (q # f.req /\ Holds(m, q))
      BY <3>1, <3>2 DEF Holds, TypeOK
    <3>5. \A q \in callback' :
             timer'[q] # "taken" /\ ~Written(q)' /\ \A m \in Sessions : ~Holds(m, q)'
      BY <3>1, <3>3, <3>4, <1>b DEF Token
    <3>6. \A q \in Reqs :
             timer'[q] = "taken" => ~Written(q)' /\ \A m \in Sessions : ~Holds(m, q)'
      BY <3>1, <3>2, <3>3, <3>4 DEF Token
    <3>7. \A n \in Sessions, q \in Reqs :
             Holds(n, q)' => ~Written(q)' /\ \A m \in Sessions : Holds(m, q)' => m = n
      BY <3>2, <3>3, <3>4 DEF Token
    <3>8. QED
      BY <2>2, <3>5, <3>6, <3>7 DEF Token, AnswerOnce
  <2>6. QED
    BY <2>3, <2>4, <2>5
<1>16. ASSUME NEW l \in Sessions, Answer(l) PROVE Token' /\ AnswerOnce'
  <2> DEFINE r == reader[l].req
  <2>1. r \in Reqs /\ at[r] \in Conns /\ Holds(l, r)
    BY <1>16, <1>h DEF Answer, Holds, StreamKinds
  <2>2. Grows(at[r], r, {"full", "404"})
    BY <1>16, <2>1, DeliverGrows, Kinds DEF Answer
  <2>3. /\ callback' = callback /\ reader' = [reader EXCEPT ![l] = None]
        /\ StopTimer(r)
    BY <1>16 DEF Answer
  <2>4. ~Written(r) /\ r \notin callback /\ timer[r] # "taken"
    BY <2>1 DEF Token
  <2> HIDE DEF r
  <2>5. QED
    BY <2>1, <2>2, <2>3, <2>4, <1>d, <1>t, TokenMoves
<1>17. ASSUME NEW l \in Sessions, Switching(l) PROVE Token' /\ AnswerOnce'
  <2> DEFINE r == reader[l].req
  <2>1. r \in Reqs /\ at[r] \in Conns /\ Holds(l, r) /\ reader[l] \in Holding
    BY <1>17, <1>h DEF Switching, Holds, StreamKinds
  <2>2. callback' = callback /\ StopTimer(r)
    BY <1>17 DEF Switching
  <2>3. \/ reader' = [reader EXCEPT ![l] = [reader[l] EXCEPT !.kind = "ensure"]] /\ wire' = wire
        \/ reader' = [reader EXCEPT ![l] = None] /\ Destroy(at[r], r)
    BY <1>17 DEF Switching
  <2>4. CASE reader' = [reader EXCEPT ![l] = None] /\ Destroy(at[r], r)
    <3>1. Grows(at[r], r, {"404"})
      BY <2>1, <2>4, DestroyGrows
    <3> HIDE DEF r
    <3>2. QED
      BY <2>1, <2>2, <2>4, <3>1, <1>d, <1>t, <1>k, TokenMoves
  <2>5. CASE reader' = [reader EXCEPT ![l] = [reader[l] EXCEPT !.kind = "ensure"]] /\ wire' = wire
    <3>1. [reader[l] EXCEPT !.kind = "ensure"].req = r
      BY <2>1 DEF Holding
    <3>2. reader \in [Sessions -> Holding \cup {None}]
      BY DEF TypeOK
    <3>3. \A m \in Sessions, q \in Reqs : Holds(m, q)' => Holds(m, q)
      BY <2>1, <2>5, <3>1, <3>2 DEF Holds
    <3>4. QED
      BY <2>1, <2>2, <2>5, <3>3, <1>b, <1>t, TokenStays
  <2>6. QED
    BY <2>3, <2>4, <2>5
<1>18. ASSUME NEW l \in Sessions, DataChannelUp(l) PROVE Token' /\ AnswerOnce'
  <2> DEFINE r == reader[l].req
  <2>1. r \in Reqs /\ at[r] \in Conns /\ Holds(l, r)
    BY <1>18, <1>h DEF DataChannelUp, Holds, StreamKinds
  <2>2. Grows(at[r], r, {"101"})
    BY <1>18, <2>1, PutGrows, Kinds DEF DataChannelUp
  <2>3. /\ callback' = callback /\ reader' = [reader EXCEPT ![l] = None]
        /\ timer' = timer
    BY <1>18 DEF DataChannelUp
  <2>4. ~Written(r) /\ r \notin callback /\ timer[r] # "taken"
    BY <2>1 DEF Token
  <2> HIDE DEF r
  <2>5. QED
    BY <2>1, <2>2, <2>3, <2>4, <1>d, TokenMoves
<1>19. ASSUME NEW l \in Sessions, DataChannelFails(l) PROVE Token' /\ AnswerOnce'
  <2> DEFINE r == reader[l].req
  <2>1. r \in Reqs /\ at[r] \in Conns /\ Holds(l, r)
    BY <1>19, <1>h DEF DataChannelFails, Holds, StreamKinds
  <2>2. wire' = wire \/ Grows(at[r], r, {"502", "404"})
    BY <1>19, <2>1, FailsGrows DEF DataChannelFails
  <2>3. /\ callback' = callback /\ reader' = [reader EXCEPT ![l] = None]
        /\ timer' = timer
    BY <1>19 DEF DataChannelFails
  <2>4. ~Written(r) /\ r \notin callback /\ timer[r] # "taken"
    BY <2>1 DEF Token
  <2> HIDE DEF r
  <2>5. CASE wire' = wire
    BY <2>3, <2>5, <1>b, <1>d, TokenStays
  <2>6. CASE Grows(at[r], r, {"502", "404"})
    BY <2>1, <2>3, <2>4, <2>6, <1>d, TokenMoves
  <2>7. QED
    BY <2>2, <2>5, <2>6
<1>20. ASSUME NEW l \in Sessions, Dispatch(l) PROVE Token' /\ AnswerOnce'
  <2> DEFINE r == reader[l].req
  <2>1. r \in Reqs /\ at[r] \in Conns /\ reader[l].kind \in StreamKinds
    BY <1>20, <1>h DEF Dispatch
  <2>2. Grows(at[r], r, {reader[l].kind, "404"})
    BY <1>20, <2>1, PutGrows, DestroyGrows, Kinds DEF Dispatch
  <2>3. {reader[l].kind, "404"} \cap WholeKinds = {}
    BY <2>1, <1>k
  <2>4. /\ callback' \subseteq callback /\ reader' = [reader EXCEPT ![l] = None]
        /\ timer' = timer
    BY <1>20 DEF Dispatch
  <2> HIDE DEF r
  <2>5. QED
    BY <2>1, <2>2, <2>3, <2>4, <1>d, TokenMoves
<1>21. ASSUME NEW r \in Reqs, NEW k \in {"full", "101"}, ClientAnswers(r, k)
       PROVE  Token' /\ AnswerOnce'
  BY <1>21, <1>b, <1>e, TokenStays DEF ClientAnswers
<1>22. ASSUME NEW r \in Reqs, NEW k \in StreamKinds, ClientStreams(r, k)
       PROVE  Token' /\ AnswerOnce'
  BY <1>22, <1>b, <1>e, TokenStays DEF ClientStreams
<1>23. ASSUME LinkUp PROVE Token' /\ AnswerOnce'
  BY <1>23, <1>b, <1>e, TokenStays DEF LinkUp
<1>24. ASSUME LinkDown PROVE Token' /\ AnswerOnce'
  BY <1>24, <1>b, <1>e, TokenStays DEF LinkDown
<1>25. ASSUME UNCHANGED vars PROVE Token' /\ AnswerOnce'
  BY <1>25, <1>b, <1>e, TokenStays DEF vars
<1>26. QED
  BY <1>1, <1>2, <1>3, <1>4, <1>5, <1>6, <1>7, <1>8, <1>9, <1>10, <1>11, <1>12,
     <1>13, <1>14, <1>15, <1>16, <1>17, <1>18, <1>19, <1>20, <1>21, <1>22, <1>23,
     <1>24, <1>25
     DEF Next, Handler, Timer, ReadLoop, Client

\* Take-once, for every value of the constants: no request is answered twice,
\* whichever of the read loops, the timers and the clean-ups race for it.
THEOREM AnsweredOnce == Spec => []AnswerOnce
<1>1. Init => TypeOK /\ Known /\ Token /\ AnswerOnce
  BY TypeInit DEF Init, Token, AnswerOnce, Holds
<1>2. TypeOK /\ Known /\ Token /\ AnswerOnce /\ [Next]_vars
        => (TypeOK /\ Known /\ Token /\ AnswerOnce)'
  BY TypeStep, KnownStep, TokenStep
<1>3. QED
  BY <1>1, <1>2, PTL DEF Spec

-----------------------------------------------------------------------------
(* Clean-up and the timeout guard *)

\* Streaming sessions belong to requests that are streamed.
Streamed == \A r \in session : mode[r] = "stream"

\* The deferred clean-up is complete, for every value of the constants.
THEOREM CleanedUp == Spec => []DoneIsClean
<1>1. Init => TypeOK /\ Known /\ DoneIsClean
  BY TypeInit DEF Init, DoneIsClean
<1>2. TypeOK /\ Known /\ DoneIsClean /\ [Next]_vars => DoneIsClean'
  <2> SUFFICES ASSUME TypeOK, Known, DoneIsClean, [Next]_vars PROVE DoneIsClean'
    OBVIOUS
  <2> USE DEF Set, Take, Others, linkVars, clientVars, serverVars
  <2>k. ASSUME at' = at, handler' = handler, callback' \subseteq callback, session' \subseteq session
        PROVE  DoneIsClean'
    BY <2>k DEF DoneIsClean
  <2>m. ASSUME NEW c \in Conns, NEW h, h # "done", handler' = [handler EXCEPT ![c] = h],
               at' = at, callback' \subseteq callback, session' \subseteq session
        PROVE  DoneIsClean'
    BY <2>m DEF DoneIsClean, TypeOK
  <2>a. ASSUME NEW c \in Conns, NEW r \in Reqs, NEW h, h # "done", Readable(c, r),
               handler' = [handler EXCEPT ![c] = h], at' = [at EXCEPT ![r] = c],
               callback' \subseteq callback \cup {r}, session' \subseteq session \cup {r}
        PROVE  DoneIsClean'
    <3>1. c # None
      BY HttpAssumption DEF HttpAssumption
    <3>2. QED
      BY <2>a, <3>1 DEF DoneIsClean, TypeOK
  <2>1. ASSUME NEW c \in Conns, Handler(c) PROVE DoneIsClean'
    <3>0. ASSUME NEW r \in Reqs, Refuse(c, r) \/ Unauthorized(c, r)
          PROVE  DoneIsClean'
      BY <3>0, <2>a DEF Refuse, Unauthorized
    <3>1. ASSUME NEW r \in Reqs, NEW m \in Modes, NEW last \in BOOLEAN, Register(c, r, m, last)
          PROVE  DoneIsClean'
      BY <3>1, <2>a DEF Register
    <3>2. CASE SendAll(c) \/ SendHead(c) \/ SendBody(c) \/ SendFail(c) \/ Unblock(c)
      BY <3>2, <2>m DEF SendAll, SendHead, SendBody, SendFail, Unblock, NextRead
    <3>3. CASE Cleanup(c)
      BY <3>3 DEF Cleanup, DoneIsClean, TypeOK
    <3>4. QED
      BY <2>1, <3>0, <3>1, <3>2, <3>3 DEF Handler
  <2>2. ASSUME NEW c \in Conns, BrowserLeaves(c) PROVE DoneIsClean'
    BY <2>2, <2>k DEF BrowserLeaves
  <2>3. ASSUME NEW r \in Reqs, Timer(r) \/ RelayEnds(r) \/ Client(r) PROVE DoneIsClean'
    BY <2>3, <2>k DEF Timer, TimerFire, TimerTake, TimerWrite, RelayEnds, Client,
                      ClientAnswers, ClientStreams
  <2>4. ASSUME NEW l \in Sessions, ReadLoop(l) PROVE DoneIsClean'
    BY <2>4, <2>k DEF ReadLoop, Receive, Answer, Switching, DataChannelUp,
                      DataChannelFails, Dispatch
  <2>5. CASE LinkUp \/ LinkDown \/ UNCHANGED vars
    BY <2>5, <2>k DEF LinkUp, LinkDown, vars
  <2>6. QED
    BY <2>1, <2>2, <2>3, <2>4, <2>5 DEF Next
<1>3. QED
  BY <1>1, <1>2, TypeStep, KnownStep, PTL DEF Spec

-----------------------------------------------------------------------------
\* The guard of one pending request: its timer runs, or its response streams.
Guarded(r) ==
    \/ timer[r] \in {"armed", "fired"}
    \/ /\ mode[r] = "stream"
       /\ timer[r] = "stopped"
       /\ \/ \E i \in 1 .. Len(wire[at[r]]) :
                wire[at[r]][i] \in {Piece(r, "head"), Piece(r, "body")}
          \/ \E l \in Sessions : reader[l] # None /\ reader[l].req = r

\* Wires only grow, so what has begun has begun.
LEMMA GuardKept ==
    ASSUME TypeOK, NEW q \in Reqs, Guarded(q), at[q] \in Conns,
           at'[q] = at[q], mode'[q] = mode[q],
           timer'[q] = timer[q] \/ timer'[q] \in {"armed", "fired"},
           \/ wire' = wire
           \/ \E c, r, K : Grows(c, r, K),
           \A l \in Sessions :
              reader[l] # None /\ reader[l].req = q => reader'[l] # None /\ reader'[l].req = q
    PROVE  Guarded(q)'
<1>1. wire \in [Conns -> Seq(Pieces)]
  BY DEF TypeOK, Pieces
<1>2. ASSUME NEW i \in 1 .. Len(wire[at[q]])
      PROVE  i \in 1 .. Len(wire'[at[q]]) /\ wire'[at[q]][i] = wire[at[q]][i]
  <2>1. CASE wire' = wire
    BY <2>1
  <2>2. ASSUME NEW c, NEW r, NEW K, Grows(c, r, K) 
        PROVE  i \in 1 .. Len(wire'[at[q]]) /\ wire'[at[q]][i] = wire[at[q]][i]
    <3>1. wire'[at[q]] \in Seq(Pieces) /\ Len(wire[at[q]]) <= Len(wire'[at[q]])
      BY <2>2 DEF Grows
    <3>2. Len(wire[at[q]]) \in Nat /\ Len(wire'[at[q]]) \in Nat
      BY <1>1, <3>1
    <3>3. i \in 1 .. Len(wire'[at[q]]) /\ i <= Len(wire[at[q]])
      BY <3>1, <3>2
    <3>4. QED
      BY <2>2, <3>3 DEF Grows
  <2>3. QED
    BY <2>1, <2>2
<1>3. QED
  BY <1>2 DEF Guarded, Piece

\* Every action keeps the guard of the requests that stay pending.
LEMMA GuardStep ==
    TypeOK /\ Known /\ Token /\ Streamed /\ PendingIsGuarded /\ [Next]_vars
        => Streamed' /\ PendingIsGuarded'
<1> SUFFICES ASSUME TypeOK, Known, Token, Streamed, PendingIsGuarded, [Next]_vars
             PROVE  Streamed' /\ PendingIsGuarded'
  OBVIOUS
<1> USE HttpAssumption DEF HttpAssumption, Set, Take, Arm, Others, Finish, linkVars, clientVars, serverVars
<1>a. ASSUME NEW r \in Reqs, at[r] # None PROVE at[r] \in Conns
  BY <1>a DEF TypeOK
<1>h. ASSUME NEW l \in Sessions, reader[l] # None
      PROVE  reader[l] \in Holding /\ reader[l].req \in Reqs /\ at[reader[l].req] \in Conns
  BY <1>h DEF TypeOK, Known, Holding
<1>q. ASSUME NEW q \in callback PROVE q \in Reqs /\ at[q] \in Conns /\ Guarded(q)
  BY <1>q, <1>a DEF Known, TypeOK, PendingIsGuarded, Guarded
<1>s. ASSUME mode' = mode, session' \subseteq session PROVE Streamed'
  BY <1>s DEF Streamed
<1>p. ASSUME \A q \in callback' : Guarded(q)' PROVE PendingIsGuarded'
  BY <1>p DEF PendingIsGuarded, Guarded
<1>t. \A r \in Reqs : StopTimer(r) => \A q \in Reqs : q # r => timer'[q] = timer[q]
  BY DEF StopTimer, TypeOK
<1>r. ASSUME NEW c \in Conns, NEW r \in Reqs, Readable(c, r), at' = [at EXCEPT ![r] = c]
      PROVE  /\ r \notin callback \cup session /\ at[r] = None
             /\ \A q \in Reqs : q # r => at'[q] = at[q]
  BY <1>r DEF Readable, Known, TypeOK
\* A step that takes nothing away from the guards.
<1>k. ASSUME at' = at, mode' = mode, session' \subseteq session, callback' \subseteq callback,
             \A q \in callback' :
                timer'[q] = timer[q] \/ timer'[q] \in {"armed", "fired"},
             wire' = wire \/ \E c, r, K : Grows(c, r, K),
             \A l \in Sessions, q \in callback' :
                reader[l] # None /\ reader[l].req = q => reader'[l] # None /\ reader'[l].req = q
      PROVE  Streamed' /\ PendingIsGuarded'
  <2>1. ASSUME NEW q \in callback' PROVE Guarded(q)'
    <3>1. q \in callback
      BY <1>k, <2>1
    <3>2. q \in Reqs /\ at[q] \in Conns /\ Guarded(q)
      BY <3>1, <1>q
    <3>3. QED
      BY <1>k, <2>1, <3>2, GuardKept
  <2>2. QED
    BY <1>k, <1>s, <1>p, <2>1
\* The read loop finishes with a whole answer, whose callback is already taken.
<1>w. ASSUME NEW l \in Sessions, reader[l] # None, reader[l].kind \notin StreamKinds,
             reader' = [reader EXCEPT ![l] = None] \/ reader' = reader,
             at' = at, mode' = mode, session' = session, callback' = callback,
             timer' = timer \/ StopTimer(reader[l].req),
             wire' = wire \/ \E c, r, K : Grows(c, r, K)
      PROVE  Streamed' /\ PendingIsGuarded'
  <2>1. reader[l].req \in Reqs /\ reader[l].req \notin callback
    BY <1>w, <1>h DEF Token, Holds
  <2>2. \A m \in Sessions, q \in callback' :
           reader[m] # None /\ reader[m].req = q => reader'[m] = reader[m]
    BY <1>w, <2>1 DEF TypeOK
  <2>3. \A q \in callback' : timer'[q] = timer[q]
    BY <1>w, <2>1, <1>t, <1>q
  <2>4. QED
    BY <1>w, <2>2, <2>3, <1>k
<1>1. ASSUME NEW c \in Conns, NEW r \in Reqs, Refuse(c, r) \/ Unauthorized(c, r)
      PROVE  Streamed' /\ PendingIsGuarded'
  <2>1. /\ Readable(c, r) /\ at' = [at EXCEPT ![r] = c] /\ callback' = callback /\ mode' = mode
        /\ session' = session /\ timer' = timer /\ reader' = reader
    BY <1>1 DEF Refuse, Unauthorized
  <2>2. Grows(c, r, {"404"}) \/ Grows(c, r, {"401"})
    BY <1>1, DestroyGrows, PutGrows, Kinds DEF Refuse, Unauthorized
  <2>3. ASSUME NEW q \in callback PROVE Guarded(q)'
    <3>1. q \in Reqs /\ at[q] \in Conns /\ Guarded(q) /\ q # r
      BY <2>1, <2>3, <1>q, <1>r
    <3>2. QED
      BY <2>1, <2>2, <3>1, <1>r, GuardKept
  <2>4. Streamed'
    BY <2>1, <1>r DEF Streamed, TypeOK
  <2>5. QED
    BY <2>1, <2>3, <2>4, <1>p
<1>3. ASSUME NEW c \in Conns, NEW r \in Reqs, NEW m \in Modes, NEW last \in BOOLEAN,
             Register(c, r, m, last)
      PROVE  Streamed' /\ PendingIsGuarded'
  <2>1. /\ Readable(c, r) /\ at' = [at EXCEPT ![r] = c] /\ callback' = callback \cup {r}
        /\ mode' = [mode EXCEPT ![r] = m] /\ at[r] = None
        /\ timer' = [timer EXCEPT ![r] = "armed"] /\ reader' = reader /\ wire' = wire
        /\ session' = IF m = "stream" THEN session \cup {r} ELSE session
    BY <1>3 DEF Register, Readable
  <2>2. ASSUME NEW q \in callback PROVE Guarded(q)'
    <3>1. q \in Reqs /\ at[q] \in Conns /\ Guarded(q) /\ q # r
      BY <2>1, <2>2, <1>q, <1>r
    <3>2. timer'[q] = timer[q]
      BY <2>1, <3>1 DEF TypeOK
    <3>3. QED
      BY <2>1, <3>1, <3>2, <1>r, GuardKept
  <2>3. Guarded(r)'
    BY <2>1 DEF Guarded, TypeOK
  <2>4. Streamed'
    <3>1. r \notin session /\ \A q \in session : q \in Reqs
      BY <2>1, <1>r DEF TypeOK
    <3>2. \A q \in session' : (q = r /\ m = "stream") \/ (q \in session /\ q # r)
      <4>1. CASE m = "stream"
        BY <2>1, <3>1, <4>1
      <4>2. CASE m # "stream"
        BY <2>1, <3>1, <4>2
      <4>3. QED
        BY <4>1, <4>2
    <3>3. QED
      BY <2>1, <3>1, <3>2 DEF Streamed, TypeOK
  <2>5. QED
    BY <2>1, <2>2, <2>3, <2>4, <1>p
<1>4. ASSUME NEW c \in Conns, SendAll(c) \/ SendHead(c) \/ SendBody(c) \/ Unblock(c) \/ BrowserLeaves(c)
      PROVE  Streamed' /\ PendingIsGuarded'
  BY <1>4, <1>k DEF SendAll, SendHead, SendBody, Unblock, BrowserLeaves
<1>7. ASSUME NEW c \in Conns, SendFail(c) PROVE Streamed' /\ PendingIsGuarded'
  <2>1. cur[c] \in Reqs
    BY <1>7 DEF SendFail, Known
  <2>2. Grows(c, cur[c], {"404"})
    BY <1>7, <2>1, DestroyGrows DEF SendFail
  <2>3. \A q \in callback' : timer'[q] = timer[q]
    BY <1>7, <2>1, <1>t DEF SendFail, TypeOK
  <2>4. QED
    BY <1>7, <2>2, <2>3, <1>k DEF SendFail
<1>9. ASSUME NEW c \in Conns, Cleanup(c) PROVE Streamed' /\ PendingIsGuarded'
  <2>1. \A q \in callback' : timer'[q] = timer[q]
    BY <1>9 DEF Cleanup, TypeOK
  <2>2. QED
    BY <1>9, <2>1, <1>k DEF Cleanup
<1>11. ASSUME NEW r \in Reqs, TimerFire(r) PROVE Streamed' /\ PendingIsGuarded'
  <2>1. \A q \in callback' : timer'[q] = timer[q] \/ timer'[q] = "fired"
    BY <1>11 DEF TimerFire, TypeOK
  <2>2. QED
    BY <1>11, <2>1, <1>k DEF TimerFire
<1>12. ASSUME NEW r \in Reqs, TimerTake(r) PROVE Streamed' /\ PendingIsGuarded'
  <2>1. \A q \in callback' : timer'[q] = timer[q]
    BY <1>12 DEF TimerTake, TypeOK
  <2>2. QED
    BY <1>12, <2>1, <1>k DEF TimerTake
<1>13. ASSUME NEW r \in Reqs, TimerWrite(r) PROVE Streamed' /\ PendingIsGuarded'
  <2>1. at[r] \in Conns /\ r \notin callback
    BY <1>13, <1>a DEF TimerWrite, Known, Token
  <2>2. Grows(at[r], r, {"504", "404"})
    BY <1>13, <2>1, DeliverGrows, Kinds DEF TimerWrite
  <2>3. \A q \in callback' : timer'[q] = timer[q]
    BY <1>13, <2>1 DEF TimerWrite, TypeOK
  <2>4. QED
    BY <1>13, <2>2, <2>3, <1>k DEF TimerWrite
<1>14. ASSUME NEW r \in Reqs, RelayEnds(r) PROVE Streamed' /\ PendingIsGuarded'
  BY <1>14, <1>k DEF RelayEnds
<1>15. ASSUME NEW l \in Sessions, Receive(l) PROVE Streamed' /\ PendingIsGuarded'
  <2> DEFINE f == Head(uplink[l])
  <2>0. f \in Frames
    BY <1>15 DEF Receive, TypeOK
  <2>1. f.req \in Reqs /\ f \in Holding /\ f # None
    BY <2>0 DEF Frames, Holding
  <2>2. /\ at' = at /\ mode' = mode /\ session' = session /\ wire' = wire
        /\ callback' \subseteq callback /\ reader[l] = None
    BY <1>15 DEF Receive
  <2>3. reader' = [reader EXCEPT ![l] = f] \/ reader' = [reader EXCEPT ![l] = None]
    BY <1>15 DEF Receive
  <2>4. \A m \in Sessions : reader[m] # None => reader'[m] = reader[m]
    BY <2>2, <2>3 DEF TypeOK
  <2>5. CASE timer' = timer
    BY <2>2, <2>4, <2>5, <1>k
  <2>6. CASE timer' # timer
    <3>1. f.kind \in StreamKinds /\ f.req \in session /\ StopTimer(f.req) /\ reader'[l] = f
      BY <1>15, <2>6 DEF Receive, TypeOK
    <3>2. mode[f.req] = "stream"
      BY <3>1 DEF Streamed
    <3>3. ASSUME NEW q \in callback' PROVE Guarded(q)'
      <4>1. q \in Reqs /\ at[q] \in Conns /\ Guarded(q)
        BY <2>2, <3>3, <1>q
      <4>2. CASE q # f.req
        <5>1. timer'[q] = timer[q]
          BY <3>1, <4>1, <4>2, <2>1, <1>t
        <5>2. QED
          BY <2>2, <2>4, <4>1, <5>1, GuardKept
      <4>3. CASE q = f.req
        <5>1. timer'[q] \in {"stopped", "fired"}
          BY <3>1, <4>1, <4>3 DEF StopTimer, Guarded, TypeOK
        <5>2. QED
          BY <2>1, <2>2, <3>1, <3>2, <4>3, <5>1 DEF Guarded
      <4>4. QED
        BY <4>2, <4>3
    <3>4. QED
      BY <2>2, <3>3, <1>s, <1>p
  <2>7. QED
    BY <2>5, <2>6
<1>16. ASSUME NEW l \in Sessions, Answer(l) PROVE Streamed' /\ PendingIsGuarded'
  <2>1. reader[l].req \in Reqs /\ at[reader[l].req] \in Conns
    BY <1>16, <1>h DEF Answer
  <2>2. \E c, r, K : Grows(c, r, K)
    BY <1>16, <2>1, DeliverGrows, Kinds DEF Answer
  <2>3. QED
    BY <1>16, <2>2, <1>w DEF Answer, StreamKinds
<1>17. ASSUME NEW l \in Sessions, Switching(l) PROVE Streamed' /\ PendingIsGuarded'
  <2>1. /\ reader[l] \in Holding /\ reader[l].req \in Reqs /\ at[reader[l].req] \in Conns
        /\ reader[l].kind \notin StreamKinds
    BY <1>17, <1>h DEF Switching, StreamKinds
  <2>2. wire' = wire \/ \E c, r, K : Grows(c, r, K)
    BY <1>17, <2>1, DestroyGrows DEF Switching
  <2>3. CASE reader' = [reader EXCEPT ![l] = None]
    BY <1>17, <2>1, <2>2, <2>3, <1>w DEF Switching
  <2>4. CASE reader' = [reader EXCEPT ![l] = [reader[l] EXCEPT !.kind = "ensure"]]
    <3>1. reader[l].req \notin callback
      BY <1>17, <2>1 DEF Token, Holds, Switching
    <3>2. \A m \in Sessions, q \in callback' :
             reader[m] # None /\ reader[m].req = q => reader'[m] = reader[m]
      BY <1>17, <2>4, <3>1 DEF Switching, TypeOK
    <3>3. \A q \in callback' : timer'[q] = timer[q]
      BY <1>17, <2>1, <3>1, <1>t, <1>q DEF Switching
    <3>4. QED
      BY <1>17, <2>2, <3>2, <3>3, <1>k DEF Switching
  <2>5. QED
    BY <1>17, <2>3, <2>4 DEF Switching
<1>18. ASSUME NEW l \in Sessions, DataChannelUp(l) PROVE Streamed' /\ PendingIsGuarded'
  <2>1. reader[l].req \in Reqs /\ at[reader[l].req] \in Conns
    BY <1>18, <1>h DEF DataChannelUp
  <2>2. \E c, r, K : Grows(c, r, K)
    BY <1>18, <2>1, PutGrows, Kinds DEF DataChannelUp
  <2>3. QED
    BY <1>18, <2>2, <1>w DEF DataChannelUp, StreamKinds
<1>19. ASSUME NEW l \in Sessions, DataChannelFails(l) PROVE Streamed' /\ PendingIsGuarded'
  <2>1. reader[l].req \in Reqs /\ at[reader[l].req] \in Conns
    BY <1>19, <1>h DEF DataChannelFails
  <2>2. wire' = wire \/ \E c, r, K : Grows(c, r, K)
    BY <1>19, <2>1, FailsGrows DEF DataChannelFails
  <2>3. QED
    BY <1>19, <2>2, <1>w DEF DataChannelFails, StreamKinds
<1>20. ASSUME NEW l \in Sessions, Dispatch(l) PROVE Streamed' /\ PendingIsGuarded'
  <2>0. PICK r \in Reqs, k \in StreamKinds : r = reader[l].req /\ k = reader[l].kind
    BY <1>20, <1>h DEF Dispatch
  <2>1. r \in Reqs /\ at[r] \in Conns /\ k \in StreamKinds
    BY <1>20, <1>h, <2>0 DEF Dispatch
  <2>2. Grows(at[r], r, {k, "404"})
    BY <1>20, <2>0, <2>1, PutGrows, DestroyGrows, Kinds DEF Dispatch
  <2>3. /\ at' = at /\ mode' = mode /\ timer' = timer /\ session' \subseteq session
        /\ callback' \subseteq callback /\ reader' = [reader EXCEPT ![l] = None]
    BY <1>20 DEF Dispatch
  <2>4. CASE r \notin callback'
    <3>1. \A m \in Sessions, q \in callback' :
             reader[m] # None /\ reader[m].req = q => reader'[m] = reader[m]
      BY <2>0, <2>3, <2>4 DEF TypeOK
    <3>2. QED
      BY <2>2, <2>3, <3>1, <1>k
  <2>5. CASE r \in callback'
    <3>1. k \in {"head", "body"} /\ conn[at[r]] = "open" /\ Put(at[r], r, k)
      BY <1>20, <2>0, <2>1, <2>5 DEF Dispatch, StreamKinds
    <3>2. wire' = [wire EXCEPT ![at[r]] = Append(@, Piece(r, k))]
      BY <3>1 DEF Put
    <3>3. \E i \in 1 .. Len(wire'[at[r]]) : wire'[at[r]][i] = Piece(r, k)
      <4>1. wire \in [Conns -> Seq(Pieces)] /\ Piece(r, k) \in Pieces
        BY <2>1, Kinds DEF TypeOK, Pieces, Piece
      <4>2. /\ Len(wire'[at[r]]) = Len(wire[at[r]]) + 1 /\ Len(wire[at[r]]) \in Nat
            /\ wire'[at[r]][Len(wire[at[r]]) + 1] = Piece(r, k)
        BY <2>1, <3>2, <4>1
      <4>3. QED
        BY <4>2
    <3>4. Guarded(r)'
      <4>1. Guarded(r)
        BY <2>3, <2>5, <1>q
      <4>2. PICK i \in 1 .. Len(wire'[at[r]]) : wire'[at[r]][i] = Piece(r, k)
        BY <3>3
      <4>3. wire'[at'[r]][i] \in {Piece(r, "head"), Piece(r, "body")} /\ i \in 1 .. Len(wire'[at'[r]])
        BY <2>3, <3>1, <4>2
      <4>4. CASE timer[r] \in {"armed", "fired"}
        BY <2>3, <4>4 DEF Guarded
      <4>5. CASE mode[r] = "stream" /\ timer[r] = "stopped"
        BY <2>3, <4>3, <4>5 DEF Guarded, Piece
      <4>6. QED
        BY <4>1, <4>4, <4>5 DEF Guarded
    <3>5. ASSUME NEW q \in callback', q # r PROVE Guarded(q)'
      <4>1. q \in Reqs /\ at[q] \in Conns /\ Guarded(q)
        BY <2>3, <3>5, <1>q
      <4>2. \A m \in Sessions : reader[m] # None /\ reader[m].req = q => reader'[m] = reader[m]
        BY <2>0, <2>3, <3>5 DEF TypeOK
      <4>3. QED
        BY <2>2, <2>3, <4>1, <4>2, GuardKept
    <3>6. \A q \in callback' : Guarded(q)'
      BY <3>4, <3>5
    <3>7. QED
      BY <2>3, <3>6, <1>s, <1>p
  <2>6. QED
    BY <2>4, <2>5
<1>21. ASSUME NEW r \in Reqs, Client(r) PROVE Streamed' /\ PendingIsGuarded'
  BY <1>21, <1>k DEF Client, ClientAnswers, ClientStreams
<1>23. CASE LinkUp \/ LinkDown \/ UNCHANGED vars
  BY <1>23, <1>k DEF LinkUp, LinkDown, vars
<1>26. QED
  BY <1>1, <1>3, <1>4, <1>7, <1>9, <1>11, <1>12, <1>13, <1>14, <1>15, <1>16, <1>17,
     <1>18, <1>19, <1>20, <1>21, <1>23
     DEF Next, Handler, Timer, ReadLoop

\* The timeout guard, for every value of the constants.
THEOREM GuardedPending == Spec => []PendingIsGuarded
<1>1. Init => TypeOK /\ Known /\ Token /\ AnswerOnce /\ Streamed /\ PendingIsGuarded
  BY TypeInit DEF Init, Token, AnswerOnce, Holds, Streamed, PendingIsGuarded
<1>2. TypeOK /\ Known /\ Token /\ AnswerOnce /\ Streamed /\ PendingIsGuarded /\ [Next]_vars
        => (TypeOK /\ Known /\ Token /\ AnswerOnce /\ Streamed /\ PendingIsGuarded)'
  BY TypeStep, KnownStep, TokenStep, GuardStep
<1>3. QED
  BY <1>1, <1>2, PTL DEF Spec

-----------------------------------------------------------------------------
(* Nothing is lost *)

\* A request that the client knows has its timer, and one that is about to be sent has
\* not been sent before.
Timed ==
    /\ \A r \in Reqs : client[r] # "none" => timer[r] # "unset"
    /\ \A c \in Conns : handler[c] \in {"send", "body"} => timer[cur[c]] # "unset"
    /\ \A c \in Conns : handler[c] = "send" => client[cur[c]] = "none"

\* What remains of a registered request: its callback, the right to answer it, what has
\* been written or nobody to write to.  A frame of a stream that is held is none of it.
Answered(r) ==
    \E i \in 1 .. Len(wire[at[r]]) :
        wire[at[r]][i].req = r /\ wire[at[r]][i].kind \notin {"head", "body"}
Remains(r) ==
    \/ r \in callback
    \/ conn[at[r]] # "open"
    \/ timer[r] \in {"taken", "off"}
    \/ \E l \in Sessions : Holds(l, r)
    \/ Answered(r)
AllRemain == \A r \in Reqs : timer[r] # "unset" => Remains(r)

\* The timers never go back, and requests are sent by their own handler.
LEMMA TimedStep == TypeOK /\ Known /\ Timed /\ [Next]_vars => Timed'
<1> SUFFICES ASSUME TypeOK, Known, Timed, [Next]_vars PROVE Timed'
  OBVIOUS
<1> USE DEF linkVars, clientVars, serverVars, Arm
\* A step that sends nothing.
<1>k. ASSUME \A r \in Reqs : client[r] = "none" => client'[r] = "none",
             \A r \in Reqs : timer[r] # "unset" => timer'[r] # "unset",
             cur' = cur,
             \A c \in Conns : handler'[c] \in {"send", "body"} => handler'[c] = handler[c]
      PROVE  Timed'
  <2>1. \A c \in Conns : handler[c] \in {"send", "body"} => cur[c] \in Reqs
    BY DEF Known
  <2>2. QED
    BY <1>k, <2>1 DEF Timed
<1>t. ASSUME NEW r \in Reqs, StopTimer(r)
      PROVE  \A q \in Reqs : timer[q] # "unset" => timer'[q] # "unset"
  BY <1>t DEF StopTimer, TypeOK
<1>c. ASSUME NEW c \in Conns, handler[c] \in {"send", "body"}
      PROVE  /\ cur[c] \in Reqs /\ timer[cur[c]] # "unset"
             /\ \A d \in Conns : d # c /\ handler[d] \in {"send", "body"} => cur[d] \in Reqs /\ cur[d] # cur[c]
  BY <1>c DEF Known, Timed
<1>1. ASSUME NEW c \in Conns, NEW r \in Reqs, Refuse(c, r) \/ Unauthorized(c, r)
      PROVE  Timed'
  BY <1>1, <1>k DEF Refuse, Unauthorized, TypeOK
<1>2. ASSUME NEW c \in Conns, NEW r \in Reqs, NEW m \in Modes, NEW last \in BOOLEAN,
             Register(c, r, m, last)
      PROVE  Timed'
  <2>1. /\ at[r] = None /\ client' = client
        /\ timer' = [timer EXCEPT ![r] = "armed"] /\ cur' = [cur EXCEPT ![c] = r]
        /\ handler' = [handler EXCEPT ![c] = "send"]
    BY <1>2 DEF Register, Readable
  <2>2. client[r] = "none"
    BY <2>1 DEF Known, Timed
  <2>3. \A q \in Reqs : timer[q] # "unset" => timer'[q] # "unset"
    BY <2>1 DEF TypeOK
  <2>4. timer'[r] # "unset" /\ cur'[c] = r
    BY <2>1 DEF TypeOK
  <2>5. \A d \in Conns : d # c => cur'[d] = cur[d] /\ handler'[d] = handler[d]
    BY <2>1 DEF TypeOK
  <2>6. \A d \in Conns : handler[d] \in {"send", "body"} => cur[d] \in Reqs
    BY DEF Known
  <2>7. QED
    BY <2>1, <2>2, <2>3, <2>4, <2>5, <2>6 DEF Timed
<1>3. ASSUME NEW c \in Conns, SendAll(c) \/ SendHead(c) \/ SendBody(c)
      PROVE  Timed'
  <2>1. /\ handler[c] \in {"send", "body"} /\ timer' = timer /\ cur' = cur
        /\ \E h \in {"body", "wait", "exit", "read"} : handler' = [handler EXCEPT ![c] = h]
        /\ client' = client \/ \E w : client' = [client EXCEPT ![cur[c]] = w]
    BY <1>3 DEF SendAll, SendHead, SendBody, Reaches, NextRead
  <2>2. \A r \in Reqs : r # cur[c] => client'[r] = client[r]
    BY <2>1, <1>c DEF TypeOK
  <2>3. /\ handler'[c] # "send"
        /\ \A d \in Conns : d # c => handler'[d] = handler[d]
    BY <2>1 DEF TypeOK
  <2>4. \A r \in Reqs : client'[r] # "none" => timer'[r] # "unset"
    BY <2>1, <2>2, <1>c DEF Timed
  <2>5. ASSUME NEW d \in Conns, handler'[d] \in {"send", "body"}
        PROVE  /\ timer'[cur'[d]] # "unset"
               /\ handler'[d] = "send" => client'[cur'[d]] = "none"
    <3>1. CASE d = c
      BY <2>1, <2>3, <3>1, <1>c
    <3>2. CASE d # c
      BY <2>1, <2>2, <2>3, <2>5, <3>2, <1>c DEF Timed
    <3>3. QED
      BY <3>1, <3>2
  <2>6. QED
    BY <2>4, <2>5 DEF Timed
<1>4. ASSUME NEW c \in Conns, SendFail(c) PROVE Timed'
  BY <1>4, <1>k, <1>t, <1>c DEF SendFail, NextRead, TypeOK
<1>5. ASSUME NEW c \in Conns, Unblock(c) \/ Cleanup(c) \/ BrowserLeaves(c) PROVE Timed'
  BY <1>5, <1>k DEF Unblock, Cleanup, BrowserLeaves, TypeOK
<1>6. ASSUME NEW r \in Reqs, Timer(r) PROVE Timed'
  BY <1>6, <1>k DEF Timer, TimerFire, TimerTake, TimerWrite, TypeOK
<1>7. ASSUME NEW r \in Reqs, RelayEnds(r) PROVE Timed'
  BY <1>7, <1>k DEF RelayEnds
<1>8. ASSUME NEW r \in Reqs, Client(r) PROVE Timed'
  <2>1. client[r] # "none" /\ \A q \in Reqs : q # r => client'[q] = client[q]
    BY <1>8 DEF Client, ClientAnswers, ClientStreams, Unanswered, TypeOK
  <2>2. timer' = timer /\ cur' = cur /\ handler' = handler
    BY <1>8 DEF Client, ClientAnswers, ClientStreams
  <2>3. QED
    BY <2>1, <2>2, <1>k
<1>9. ASSUME NEW l \in Sessions, ReadLoop(l) PROVE Timed'
  <2>1. client' = client /\ cur' = cur /\ handler' = handler
    BY <1>9 DEF ReadLoop, Receive, Answer, Switching, DataChannelUp, DataChannelFails, Dispatch
  <2>2. reader[l] # None => reader[l].req \in Reqs
    BY DEF TypeOK, Holding
  <2>3. uplink[l] # <<>> => Head(uplink[l]).req \in Reqs
    <3>1. uplink[l] \in Seq(Frames)
      BY DEF TypeOK
    <3>2. uplink[l] # <<>> => Head(uplink[l]) \in Frames
      BY <3>1
    <3>3. QED
      BY <3>2 DEF Frames
  <2>4. timer' = timer \/ \E r \in Reqs : StopTimer(r)
    BY <1>9, <2>2, <2>3
       DEF ReadLoop, Receive, Answer, Switching, DataChannelUp, DataChannelFails, Dispatch
  <2>5. QED
    BY <2>1, <2>4, <1>t, <1>k
<1>10. CASE LinkUp \/ LinkDown \/ UNCHANGED vars
  BY <1>10, <1>k DEF LinkUp, LinkDown, vars
<1>11. QED
  BY <1>1, <1>2, <1>3, <1>4, <1>5, <1>6, <1>7, <1>8, <1>9, <1>10 DEF Next, Handler

\* Wires only grow, and closed connections stay closed.
LEMMA RemainsKept ==
    ASSUME TypeOK, NEW q \in Reqs, Remains(q), at[q] \in Conns,
           at'[q] = at[q],
           q \in callback => q \in callback',
           conn[at[q]] # "open" => conn'[at[q]] # "open",
           timer[q] \in {"taken", "off"} => timer'[q] \in {"taken", "off"},
           \A l \in Sessions : Holds(l, q) => Holds(l, q)',
           wire' = wire \/ \E c, r, K : Grows(c, r, K)
    PROVE  Remains(q)'
<1>1. wire[at[q]] \in Seq(Pieces)
  BY DEF TypeOK, Pieces
<1>2. ASSUME NEW i \in 1 .. Len(wire[at[q]])
      PROVE  i \in 1 .. Len(wire'[at[q]]) /\ wire'[at[q]][i] = wire[at[q]][i]
  <2>1. CASE wire' = wire
    BY <2>1
  <2>2. ASSUME NEW c, NEW r, NEW K, Grows(c, r, K)
        PROVE  i \in 1 .. Len(wire'[at[q]]) /\ wire'[at[q]][i] = wire[at[q]][i]
    <3>1. wire'[at[q]] \in Seq(Pieces) /\ Len(wire[at[q]]) <= Len(wire'[at[q]])
      BY <2>2 DEF Grows
    <3>2. Len(wire[at[q]]) \in Nat /\ Len(wire'[at[q]]) \in Nat
      BY <1>1, <3>1
    <3>3. i \in 1 .. Len(wire'[at[q]]) /\ i <= Len(wire[at[q]])
      BY <3>1, <3>2
    <3>4. QED
      BY <2>2, <3>3 DEF Grows
  <2>3. QED
    BY <2>1, <2>2
<1>3. Answered(q) => Answered(q)'
  BY <1>2 DEF Answered
<1>4. QED
  BY <1>3 DEF Remains

\* What is written at last on an open connection.
LEMMA PutAnswers ==
    ASSUME TypeOK, NEW r \in Reqs, at[r] \in Conns, NEW k \in WireKinds \ {"head", "body"},
           Put(at[r], r, k) \/ Destroy(at[r], r), at'[r] = at[r]
    PROVE  conn'[at[r]] # "open" \/ Answered(r)'
<1>1. CASE conn[at[r]] # "open"
  BY <1>1 DEF Put, Destroy
<1>2. CASE conn[at[r]] = "open" /\ Destroy(at[r], r)
  BY <1>2 DEF Destroy, TypeOK
<1>3. CASE conn[at[r]] = "open" /\ Put(at[r], r, k)
  <2>1. wire[at[r]] \in Seq(Pieces)
    BY DEF TypeOK, Pieces
  <2>2. Piece(r, k) \in Pieces /\ Piece(r, k).req = r /\ Piece(r, k).kind = k
    BY DEF Piece, Pieces
  <2>3. wire'[at[r]] = Append(wire[at[r]], Piece(r, k))
    BY <1>3 DEF Put, TypeOK
  <2>4. /\ Len(wire[at[r]]) \in Nat /\ Len(wire'[at[r]]) = Len(wire[at[r]]) + 1
        /\ wire'[at[r]][Len(wire[at[r]]) + 1] = Piece(r, k)
    BY <2>1, <2>2, <2>3
  <2>5. Len(wire[at[r]]) + 1 \in 1 .. Len(wire'[at[r]])
    BY <2>4
  <2>6. QED
    BY <2>2, <2>4, <2>5 DEF Answered
<1>4. QED
  BY <1>1, <1>2, <1>3

\* Every action keeps what remains of the registered requests.
LEMMA RemainsStep ==
    TypeOK /\ Known /\ Timed /\ AllRemain /\ [Next]_vars => AllRemain'
<1> SUFFICES ASSUME TypeOK, Known, Timed, AllRemain, [Next]_vars PROVE AllRemain'
  OBVIOUS
<1> USE DEF Set, Take, Arm, Others, linkVars, clientVars, serverVars
<1>a. ASSUME NEW r \in Reqs, timer[r] # "unset"
      PROVE  at[r] # None /\ at[r] \in Conns /\ Remains(r)
  BY <1>a DEF TypeOK, Known, AllRemain
<1>h. ASSUME NEW l \in Sessions, reader[l] # None
      PROVE  reader[l] \in Holding /\ reader[l].req \in Reqs /\ at[reader[l].req] \in Conns
  BY <1>h DEF TypeOK, Known, Holding
<1>p. ASSUME \A q \in Reqs : timer'[q] # "unset" => Remains(q)' PROVE AllRemain'
  BY <1>p DEF AllRemain
<1>e. reader' = reader => \A l \in Sessions, q \in Reqs : Holds(l, q) => Holds(l, q)'
  BY DEF Holds
\* A request from which the step takes nothing.
<1>k. ASSUME NEW q \in Reqs, timer[q] # "unset",
             at'[q] = at[q],
             q \in callback => q \in callback',
             conn[at[q]] # "open" => conn'[at[q]] # "open",
             timer[q] \in {"taken", "off"} => timer'[q] \in {"taken", "off"},
             \A l \in Sessions : Holds(l, q) => Holds(l, q)',
             wire' = wire \/ \E c, r, K : Grows(c, r, K)
      PROVE  Remains(q)'
  BY <1>k, <1>a, RemainsKept
<1>d. ASSUME NEW c \in Conns, NEW r \in Reqs, Destroy(c, r)
      PROVE  /\ conn'[c] # "open" /\ \A d \in Conns : conn[d] # "open" => conn'[d] # "open"
             /\ \E K : Grows(c, r, K)
  BY <1>d, DestroyGrows DEF Destroy, TypeOK
<1>t. ASSUME NEW r \in Reqs, StopTimer(r)
      PROVE  \A q \in Reqs : /\ timer[q] \in {"taken", "off"} => timer'[q] = timer[q]
                             /\ timer'[q] # "unset" => timer[q] # "unset"
  BY <1>t DEF StopTimer, TypeOK
<1>1. ASSUME NEW c \in Conns, NEW r \in Reqs, Refuse(c, r) \/ Unauthorized(c, r)
      PROVE  AllRemain'
  <2>1. /\ at[r] = None /\ at' = [at EXCEPT ![r] = c] /\ callback' = callback
        /\ timer' = timer /\ reader' = reader
    BY <1>1 DEF Refuse, Unauthorized, Readable
  <2>2. /\ \A d \in Conns : conn[d] # "open" => conn'[d] # "open"
        /\ \E K : Grows(c, r, K)
    BY <1>1, <1>d, PutGrows, Kinds DEF Refuse, Unauthorized, Put
  <2>3. ASSUME NEW q \in Reqs, timer[q] # "unset" PROVE at[q] \in Conns /\ at'[q] = at[q]
    BY <2>1, <2>3, <1>a DEF TypeOK
  <2>4. QED
    BY <2>1, <2>2, <2>3, <1>e, <1>k, <1>p
<1>2. ASSUME NEW c \in Conns, NEW r \in Reqs, NEW m \in Modes, NEW last \in BOOLEAN,
             Register(c, r, m, last)
      PROVE  AllRemain'
  <2>1. /\ at[r] = None /\ at' = [at EXCEPT ![r] = c] /\ callback' = callback \cup {r}
        /\ timer' = [timer EXCEPT ![r] = "armed"]
        /\ reader' = reader /\ wire' = wire /\ conn' = conn
    BY <1>2 DEF Register, Readable
  <2>2. Remains(r)'
    BY <2>1 DEF Remains
  <2>3. ASSUME NEW q \in Reqs, q # r, timer'[q] # "unset" PROVE Remains(q)'
    <3>1. timer'[q] = timer[q] /\ at'[q] = at[q]
      BY <2>1, <2>3 DEF TypeOK
    <3>2. QED
      BY <2>1, <2>3, <3>1, <1>e, <1>k
  <2>4. QED
    BY <2>2, <2>3, <1>p
<1>3. ASSUME NEW c \in Conns, SendAll(c) \/ SendHead(c) \/ SendBody(c) \/ Unblock(c) PROVE AllRemain'
  BY <1>3, <1>e, <1>k, <1>p DEF SendAll, SendHead, SendBody, Unblock
<1>4. ASSUME NEW c \in Conns, SendFail(c) PROVE AllRemain'
  <2>1. PICK r \in Reqs : r = cur[c] /\ at[r] = c
    BY <1>4 DEF SendFail, Known
  <2>2. /\ Destroy(c, r) /\ StopTimer(r) /\ at' = at
        /\ callback' = callback \ {r} /\ reader' = reader
    BY <1>4, <2>1 DEF SendFail
  <2>3. Remains(r)'
    BY <2>1, <2>2, <1>d DEF Remains
  <2>4. ASSUME NEW q \in Reqs, q # r, timer'[q] # "unset" PROVE Remains(q)'
    BY <2>1, <2>2, <2>4, <1>a, <1>d, <1>e, <1>k, <1>t
  <2>5. QED
    BY <2>3, <2>4, <1>p
<1>5. ASSUME NEW c \in Conns, Cleanup(c) PROVE AllRemain'
  <2>1. /\ at' = at /\ reader' = reader /\ wire' = wire
        /\ callback' = {q \in callback : at[q] # c}
        /\ conn'[c] # "open" /\ \A d \in Conns : conn[d] # "open" => conn'[d] # "open"
        /\ \A q \in Reqs : /\ timer[q] \in {"taken", "off"} => timer'[q] = timer[q]
                           /\ timer'[q] # "unset" => timer[q] # "unset"
    BY <1>5 DEF Cleanup, TypeOK
  <2>2. ASSUME NEW q \in Reqs, timer'[q] # "unset" PROVE Remains(q)'
    <3>1. CASE at[q] = c
      BY <2>1, <3>1 DEF Remains
    <3>2. CASE at[q] # c
      BY <2>1, <2>2, <3>2, <1>a, <1>e, <1>k
    <3>3. QED
      BY <3>1, <3>2
  <2>3. QED
    BY <2>2, <1>p
<1>6. ASSUME NEW c \in Conns, BrowserLeaves(c) PROVE AllRemain'
  <2>1. \A d \in Conns : conn[d] # "open" => conn'[d] # "open"
    BY <1>6 DEF BrowserLeaves, TypeOK
  <2>2. QED
    BY <1>6, <2>1, <1>a, <1>e, <1>k, <1>p DEF BrowserLeaves
<1>7. ASSUME NEW r \in Reqs, TimerFire(r) PROVE AllRemain'
  BY <1>7, <1>e, <1>k, <1>p DEF TimerFire, TypeOK
<1>8. ASSUME NEW r \in Reqs, TimerTake(r) PROVE AllRemain'
  <2>1. /\ at' = at /\ callback' = callback \ {r} /\ reader' = reader /\ wire' = wire /\ conn' = conn
        /\ timer'[r] \in {"taken", "off"} /\ \A q \in Reqs : q # r => timer'[q] = timer[q]
    BY <1>8 DEF TimerTake, TypeOK
  <2>2. Remains(r)'
    BY <2>1 DEF Remains
  <2>3. ASSUME NEW q \in Reqs, q # r, timer'[q] # "unset" PROVE Remains(q)'
    BY <2>1, <2>3, <1>e, <1>k
  <2>4. QED
    BY <2>2, <2>3, <1>p
<1>9. ASSUME NEW r \in Reqs, TimerWrite(r) PROVE AllRemain'
  <2>1. /\ at' = at /\ callback' = callback /\ reader' = reader
        /\ timer'[r] = "off" /\ \A q \in Reqs : q # r => timer'[q] = timer[q]
    BY <1>9 DEF TimerWrite, TypeOK
  <2>2. at[r] \in Conns
    BY <1>9, <1>a DEF TimerWrite
  <2>3. /\ \A d \in Conns : conn[d] # "open" => conn'[d] # "open"
        /\ \E K : Grows(at[r], r, K)
    BY <1>9, <2>2, <1>d, PutGrows, Kinds DEF TimerWrite, Deliver, Put
  <2>4. Remains(r)'
    BY <2>1 DEF Remains
  <2>5. ASSUME NEW q \in Reqs, q # r, timer'[q] # "unset" PROVE Remains(q)'
    BY <2>1, <2>3, <2>5, <1>a, <1>e, <1>k
  <2>6. QED
    BY <2>4, <2>5, <1>p
<1>10. ASSUME NEW r \in Reqs, RelayEnds(r) \/ Client(r) PROVE AllRemain'
  <2>1. /\ at' = at /\ callback' = callback /\ reader' = reader /\ timer' = timer /\ wire' = wire
        /\ conn' = conn \/ conn' = [conn EXCEPT ![at[r]] = IF @ = "open" THEN "closed" ELSE @]
    BY <1>10 DEF RelayEnds, Client, ClientAnswers, ClientStreams
  <2>2. \A d \in Conns : conn[d] # "open" => conn'[d] # "open"
    BY <2>1 DEF TypeOK
  <2>3. QED
    BY <2>1, <2>2, <1>a, <1>e, <1>k, <1>p
<1>11. CASE LinkUp \/ LinkDown \/ UNCHANGED vars
  BY <1>11, <1>e, <1>k, <1>p DEF LinkUp, LinkDown, vars
<1>12. ASSUME NEW l \in Sessions, Receive(l) PROVE AllRemain'
  <2>1. uplink[l] \in Seq(Frames) /\ uplink[l] # <<>> /\ reader[l] = None
    BY <1>12 DEF Receive, TypeOK
  <2>2. Head(uplink[l]) \in Frames
    BY <2>1
  <2>3. PICK f \in Frames : f = Head(uplink[l])
    BY <2>2
  <2>4. f.req \in Reqs /\ f # None
    BY HttpAssumption DEF Frames, Holding, HttpAssumption
  <2>5. /\ at' = at /\ conn' = conn /\ wire' = wire
        /\ \A q \in Reqs : /\ timer[q] \in {"taken", "off"} => timer'[q] = timer[q]
                           /\ timer'[q] # "unset" => timer[q] # "unset"
    BY <1>12, <2>3, <2>4, <1>t DEF Receive
  <2>6. \A m \in Sessions, q \in Reqs : Holds(m, q) => Holds(m, q)'
    <3>1. reader[l] = None /\ \A m \in Sessions : m # l => reader'[m] = reader[m]
      BY <1>12 DEF Receive, TypeOK
    <3>2. QED
      BY <3>1 DEF Holds
  <2>7. \/ callback' = callback
        \/ callback' = callback \ {f.req} /\ f.kind \notin StreamKinds /\ reader'[l] = f
    <3>1. CASE f.kind \in StreamKinds
      BY <1>12, <2>3, <3>1 DEF Receive
    <3>2. CASE f.kind \notin StreamKinds
      <4>1. /\ callback' = callback \ {f.req}
            /\ reader' = [reader EXCEPT ![l] = IF f.req \in callback THEN f ELSE None]
        BY <1>12, <2>3, <3>2 DEF Receive
      <4>2. f.req \in callback => reader'[l] = f
        BY <4>1 DEF TypeOK
      <4>3. QED
        BY <3>2, <4>1, <4>2
    <3>3. QED
      BY <3>1, <3>2
  <2>8. ASSUME NEW q \in Reqs, timer'[q] # "unset" PROVE Remains(q)'
    <3>1. CASE q \in callback /\ q \notin callback'
      <4>1. q = f.req /\ Holds(l, q)'
        BY <2>4, <2>7, <3>1 DEF Holds
      <4>2. QED
        BY <4>1 DEF Remains
    <3>2. CASE q \in callback => q \in callback'
      BY <2>5, <2>6, <2>8, <3>2, <1>k
    <3>3. QED
      BY <3>1, <3>2
  <2>9. QED
    BY <2>8, <1>p
\* A read loop that puts down what it held of r, and takes r's callback at most.
<1>x. ASSUME NEW l \in Sessions, NEW r \in Reqs, reader[l] # None, r = reader[l].req,
             reader' = [reader EXCEPT ![l] = None],
             at' = at, timer' = timer \/ StopTimer(r),
             \A d \in Conns : conn[d] # "open" => conn'[d] # "open",
             wire' = wire \/ \E c, q, K : Grows(c, q, K),
             callback' = callback \/ callback' = callback \ {r},
             \/ Remains(r)'
             \/ reader[l].kind \in StreamKinds /\ callback' = callback
      PROVE  AllRemain'
  <2>1. \A q \in Reqs : /\ timer[q] \in {"taken", "off"} => timer'[q] = timer[q]
                        /\ timer'[q] # "unset" => timer[q] # "unset"
    BY <1>x, <1>t
  <2>2. \A m \in Sessions : m # l => reader'[m] = reader[m]
    BY <1>x DEF TypeOK
  <2>3. ASSUME NEW q \in Reqs, timer'[q] # "unset",
               q # r \/ (reader[l].kind \in StreamKinds /\ callback' = callback)
        PROVE  Remains(q)'
    <3>1. \A m \in Sessions : Holds(m, q) => m # l
      BY <1>x, <2>3 DEF Holds
    <3>2. \A m \in Sessions : Holds(m, q) => Holds(m, q)'
      BY <2>2, <3>1 DEF Holds
    <3>3. at[q] \in Conns
      BY <2>1, <2>3, <1>a
    <3>4. QED
      BY <1>x, <2>1, <2>3, <3>2, <3>3, <1>k
  <2>4. QED
    BY <1>x, <2>1, <2>3, <1>p
<1>13. ASSUME NEW l \in Sessions, Answer(l) PROVE AllRemain'
  <2>1. PICK r \in Reqs : r = reader[l].req /\ at[r] \in Conns
    BY <1>13, <1>h DEF Answer
  <2>2. /\ reader[l] # None /\ reader' = [reader EXCEPT ![l] = None] /\ at' = at /\ callback' = callback
        /\ StopTimer(r) /\ Deliver(at[r], r, "full")
    BY <1>13, <2>1 DEF Answer
  <2>3. Remains(r)'
    BY <2>1, <2>2, PutAnswers, Kinds DEF Deliver, Remains
  <2>4. /\ \A d \in Conns : conn[d] # "open" => conn'[d] # "open"
        /\ \E K : Grows(at[r], r, K)
    BY <2>1, <2>2, <1>d, PutGrows, Kinds DEF Deliver, Put
  <2>5. QED
    BY <2>2, <2>3, <2>4, <1>x, <2>1
<1>14. ASSUME NEW l \in Sessions, Switching(l) PROVE AllRemain'
  <2>1. PICK r \in Reqs : r = reader[l].req /\ reader[l] \in Holding /\ at[r] \in Conns
    BY <1>14, <1>h DEF Switching
  <2>2. /\ reader[l] # None /\ at' = at /\ callback' = callback /\ StopTimer(r)
        /\ reader[l].kind = "101"
    BY <1>14, <2>1 DEF Switching
  <2>3. CASE reader' = [reader EXCEPT ![l].kind = "ensure"] /\ UNCHANGED <<conn, wire>>
    <3>1. \A m \in Sessions, q \in Reqs : Holds(m, q) => Holds(m, q)'
      <4>1. reader'[l] = [reader[l] EXCEPT !.kind = "ensure"]
        BY <2>3 DEF TypeOK
      <4>2. /\ reader'[l] \in Holding /\ reader'[l].req = r
            /\ reader'[l].kind = "ensure"
        BY <2>1, <4>1 DEF Holding
      <4>3. reader'[l] # None /\ "ensure" \notin StreamKinds
        BY <4>2, HttpAssumption DEF HttpAssumption, StreamKinds
      <4>4. \A m \in Sessions : m # l => reader'[m] = reader[m]
        BY <2>3 DEF TypeOK
      <4>5. QED
        BY <2>1, <4>2, <4>3, <4>4 DEF Holds
    <3>2. QED
      BY <2>1, <2>2, <2>3, <3>1, <1>t, <1>k, <1>p
  <2>4. CASE Destroy(at[r], r) /\ reader' = [reader EXCEPT ![l] = None]
    <3>1. Remains(r)'
      BY <2>1, <2>2, <2>4, <1>d DEF Remains
    <3>2. /\ \A d \in Conns : conn[d] # "open" => conn'[d] # "open"
          /\ \E K : Grows(at[r], r, K)
      BY <2>1, <2>4, <1>d
    <3>3. QED
      BY <2>2, <2>4, <3>1, <3>2, <1>x, <2>1
  <2>5. QED
    BY <1>14, <2>1, <2>3, <2>4 DEF Switching
<1>15. ASSUME NEW l \in Sessions, DataChannelUp(l) PROVE AllRemain'
  <2>1. PICK r \in Reqs : r = reader[l].req /\ at[r] \in Conns
    BY <1>15, <1>h DEF DataChannelUp
  <2>2. /\ reader[l] # None /\ reader' = [reader EXCEPT ![l] = None] /\ at' = at /\ callback' = callback
        /\ timer' = timer /\ Put(at[r], r, "101")
    BY <1>15, <2>1 DEF DataChannelUp
  <2>3. Remains(r)'
    BY <2>1, <2>2, PutAnswers, Kinds DEF Remains
  <2>4. /\ \A d \in Conns : conn[d] # "open" => conn'[d] # "open"
        /\ \E K : Grows(at[r], r, K)
    BY <2>1, <2>2, PutGrows, Kinds DEF Put
  <2>5. QED
    BY <2>2, <2>3, <2>4, <1>x, <2>1
<1>16. ASSUME NEW l \in Sessions, DataChannelFails(l) PROVE AllRemain'
  <2>1. PICK r \in Reqs : r = reader[l].req /\ at[r] \in Conns
    BY <1>16, <1>h DEF DataChannelFails
  <2>2. /\ reader[l] # None /\ reader' = [reader EXCEPT ![l] = None] /\ at' = at /\ callback' = callback
        /\ timer' = timer
    BY <1>16 DEF DataChannelFails
  <2>3. /\ conn'[at[r]] # "open"
        /\ \A d \in Conns : conn[d] # "open" => conn'[d] # "open"
        /\ wire' = wire \/ \E c, q, K : Grows(c, q, K)
    BY <1>16, <2>1, FailsGrows DEF DataChannelFails, TypeOK
  <2>4. Remains(r)'
    BY <2>2, <2>3 DEF Remains
  <2>5. QED
    BY <2>2, <2>3, <2>4, <1>x, <2>1
<1>17. ASSUME NEW l \in Sessions, Dispatch(l) PROVE AllRemain'
  <2>1. PICK r \in Reqs : r = reader[l].req /\ at[r] \in Conns
    BY <1>17, <1>h DEF Dispatch
  <2>2. /\ reader[l] # None /\ reader' = [reader EXCEPT ![l] = None] /\ at' = at /\ timer' = timer
        /\ reader[l].kind \in StreamKinds /\ reader[l].kind \in WireKinds
    BY <1>17, <2>1, Kinds DEF Dispatch
  <2>3. CASE /\ Put(at[r], r, reader[l].kind)
             /\ callback' = IF reader[l].kind \in {"headfin", "bodyfin"}
                              THEN callback \ {r} ELSE callback
    <3>1. /\ \A d \in Conns : conn[d] # "open" => conn'[d] # "open"
          /\ \E K : Grows(at[r], r, K)
      BY <2>1, <2>2, <2>3, PutGrows DEF Put
    <3>2. reader[l].kind \in {"headfin", "bodyfin"} => Remains(r)'
      BY <2>1, <2>2, <2>3, PutAnswers DEF Remains
    <3>3. QED
      BY <2>2, <2>3, <3>1, <3>2, <1>x, <2>1
  <2>4. CASE Destroy(at[r], r) /\ callback' = callback \ {r}
    <3>1. Remains(r)'
      BY <2>1, <2>2, <2>4, <1>d DEF Remains
    <3>2. /\ \A d \in Conns : conn[d] # "open" => conn'[d] # "open"
          /\ \E K : Grows(at[r], r, K)
      BY <2>1, <2>4, <1>d
    <3>3. QED
      BY <2>2, <2>4, <3>1, <3>2, <1>x, <2>1
  <2>5. QED
    BY <1>17, <2>1, <2>3, <2>4 DEF Dispatch
<1>18. QED
  BY <1>1, <1>2, <1>3, <1>4, <1>5, <1>6, <1>7, <1>8, <1>9, <1>10, <1>11, <1>12, <1>13, <1>14,
     <1>15, <1>16, <1>17
     DEF Next, Handler, Timer, ReadLoop

\* README.md "Callback race fix": no request that has reached the client is lost, whatever
\* races for its callback.
THEOREM AnswerFinds == Spec => []NothingLost
<1>1. Init => TypeOK /\ Known /\ Timed /\ AllRemain
  BY TypeInit DEF Init, Timed, AllRemain
<1>2. TypeOK /\ Known /\ Timed /\ AllRemain /\ [Next]_vars
        => (TypeOK /\ Known /\ Timed /\ AllRemain)'
  BY TypeStep, KnownStep, TimedStep, RemainsStep
<1>3. Timed /\ AllRemain => NothingLost
  BY DEF Timed, AllRemain, Remains, Answered, Holds, NothingLost
<1>4. QED
  BY <1>1, <1>2, <1>3, PTL DEF Spec

-----------------------------------------------------------------------------
(* Streamed responses in order *)

\* What may come before and after what in one response.  The 504 of a timer and the 404
\* of a refusal may come anywhere.
Precede(k, m) == k \in {"head", "body"} /\ m \in {"body", "bodyfin"}
Aside == {"504", "404"}

\* A response on its way: written to the browser, held by a read loop, on the uplink.
OnWire(r, k) ==
    \E c \in Conns : \E i \in 1 .. Len(wire[c]) : wire[c][i].req = r /\ wire[c][i].kind = k
InHand(l) == IF reader[l].kind = "ensure" THEN "101" ELSE reader[l].kind
Held(r, k) == \E l \in Sessions : reader[l] # None /\ reader[l].req = r /\ InHand(l) = k
Sent(r, k) ==
    \E l \in Sessions : \E i \in 1 .. Len(uplink[l]) :
        uplink[l][i].req = r /\ uplink[l][i].kind = k

\* Monitor sessions to come are unused.
Ahead == \A l \in Sessions : l > used => live # l /\ reader[l] = None /\ uplink[l] = <<>>

WireOrdered ==
    \A c \in Conns : \A i, j \in 1 .. Len(wire[c]) :
        (/\ i < j /\ wire[c][i].req = wire[c][j].req
         /\ wire[c][i].kind \notin Aside /\ wire[c][j].kind \notin Aside)
        => Precede(wire[c][i].kind, wire[c][j].kind)
LinkOrdered ==
    \A l \in Sessions : \A i, j \in 1 .. Len(uplink[l]) :
        (i < j /\ uplink[l][i].req = uplink[l][j].req)
        => Precede(uplink[l][i].kind, uplink[l][j].kind)

\* Until the client answers there is nothing of a response, and only a beginning of it
\* while the client streams; a refused request is never registered.
Flows(r) ==
    /\ \A k, m : /\ OnWire(r, k) /\ k \notin Aside /\ (Held(r, m) \/ Sent(r, m)) => Precede(k, m)
                 /\ Held(r, k) /\ Sent(r, m) => Precede(k, m)
    /\ client[r] \in {"none", "dialled", "work"} =>
          \A k : ~Held(r, k) /\ ~Sent(r, k) /\ (OnWire(r, k) => k \in Aside \cup {"401"})
    /\ client[r] = "body" =>
          \A k : /\ Held(r, k) \/ Sent(r, k) => k \in {"head", "body"}
                 /\ OnWire(r, k) => k \in Aside \cup {"head", "body"}
    /\ OnWire(r, "401") => timer[r] = "unset"

InOrder == WireOrdered /\ LinkOrdered /\ \A r \in Reqs : Flows(r)

\* A write of r of the kinds K, at most one of them not aside.
LEMMA OnWireGrows ==
    ASSUME TypeOK, NEW c, NEW r, NEW K, Grows(c, r, K)
    PROVE  \A q, k : OnWire(q, k)' => OnWire(q, k) \/ (q = r /\ k \in K)
<1> SUFFICES ASSUME NEW q, NEW k, OnWire(q, k)', ~OnWire(q, k)
             PROVE  q = r /\ k \in K
  OBVIOUS
<1>1. PICK d \in Conns : \E i \in 1 .. Len(wire'[d]) : wire'[d][i].req = q /\ wire'[d][i].kind = k
  BY DEF OnWire
<1>2. PICK i \in 1 .. Len(wire'[d]) : wire'[d][i].req = q /\ wire'[d][i].kind = k
  BY <1>1
<1>3. wire[d] \in Seq(Pieces) /\ wire'[d] \in Seq(Pieces)
  BY DEF TypeOK, Pieces, Grows
<1>4. Len(wire[d]) \in Nat /\ Len(wire'[d]) \in Nat
  BY <1>3
<1>5. CASE i <= Len(wire[d])
  <2>1. wire'[d][i] = wire[d][i] /\ i \in 1 .. Len(wire[d])
    BY <1>4, <1>5 DEF Grows
  <2>2. QED
    BY <1>2, <2>1 DEF OnWire
<1>6. CASE ~(i <= Len(wire[d]))
  BY <1>2, <1>6 DEF Grows
<1>7. QED
  BY <1>5, <1>6

LEMMA OrderGrows ==
    ASSUME TypeOK, WireOrdered, NEW c, NEW r, NEW K, Grows(c, r, K),
           \A k \in K \ Aside : \A m : OnWire(r, m) /\ m \notin Aside => Precede(m, k)
    PROVE  WireOrdered'
<1> SUFFICES ASSUME NEW d \in Conns, NEW i \in 1 .. Len(wire'[d]), NEW j \in 1 .. Len(wire'[d]),
                    i < j, wire'[d][i].req = wire'[d][j].req,
                    wire'[d][i].kind \notin Aside, wire'[d][j].kind \notin Aside
             PROVE  Precede(wire'[d][i].kind, wire'[d][j].kind)
  BY DEF WireOrdered, Precede
<1>1. wire[d] \in Seq(Pieces) /\ wire'[d] \in Seq(Pieces)
  BY DEF TypeOK, Pieces, Grows
<1>2. Len(wire[d]) \in Nat /\ Len(wire'[d]) \in Nat
  BY <1>1
<1>o. ASSUME NEW n \in 1 .. Len(wire'[d]), n <= Len(wire[d])
      PROVE  n \in 1 .. Len(wire[d]) /\ wire'[d][n] = wire[d][n]
  BY <1>o, <1>2 DEF Grows
<1>n. ASSUME NEW n \in 1 .. Len(wire'[d]), ~(n <= Len(wire[d]))
      PROVE  /\ wire'[d][n].req = r /\ wire'[d][n].kind \in K
             /\ n = Len(wire[d]) + 1 \/ wire'[d][n].kind = "404"
  BY <1>n DEF Grows
<1>3. CASE j <= Len(wire[d])
  <2>1. i <= Len(wire[d])
    BY <1>2, <1>3
  <2>2. QED
    BY <1>3, <2>1, <1>o DEF WireOrdered
<1>4. CASE i <= Len(wire[d]) /\ ~(j <= Len(wire[d]))
  <2>1. OnWire(r, wire'[d][i].kind)
    BY <1>4, <1>o, <1>n DEF OnWire
  <2>2. wire'[d][j].kind \in K \ Aside
    BY <1>4, <1>n
  <2>3. QED
    BY <2>1, <2>2
<1>5. CASE ~(i <= Len(wire[d]))
  <2>1. ~(j <= Len(wire[d]))
    BY <1>2, <1>5
  <2>2. i = Len(wire[d]) + 1 /\ j = Len(wire[d]) + 1
    BY <1>5, <2>1, <1>n DEF Aside
  <2>3. QED
    BY <2>2, <1>2
<1>6. QED
  BY <1>3, <1>4, <1>5

\* A step that adds nothing to r's response.
LEMMA FlowsKept ==
    ASSUME NEW r \in Reqs, Flows(r),
           \A k : OnWire(r, k)' /\ k \notin Aside => OnWire(r, k),
           \A k : Held(r, k)' => Held(r, k),
           \A k : Sent(r, k)' => Sent(r, k),
           \/ client'[r] = client[r]
           \/ client'[r] = "done"
           \/ client[r] \in {"none", "dialled", "work"} /\ client'[r] \in {"none", "dialled", "work"},
           timer'[r] = "unset" \/ timer[r] # "unset" \/ ~OnWire(r, "401")
    PROVE  Flows(r)'
<1>1. \A k, m : /\ OnWire(r, k)' /\ k \notin Aside /\ (Held(r, m)' \/ Sent(r, m)') => Precede(k, m)
                /\ Held(r, k)' /\ Sent(r, m)' => Precede(k, m)
  BY DEF Flows
<1>2. client'[r] \in {"none", "dialled", "work"} =>
         \A k : ~Held(r, k)' /\ ~Sent(r, k)' /\ (OnWire(r, k)' => k \in Aside \cup {"401"})
  BY DEF Flows
<1>3. client'[r] = "body" =>
         \A k : /\ Held(r, k)' \/ Sent(r, k)' => k \in {"head", "body"}
                /\ OnWire(r, k)' => k \in Aside \cup {"head", "body"}
  BY DEF Flows
<1>4. OnWire(r, "401")' => timer'[r] = "unset"
  BY DEF Flows, Aside
<1>5. QED
  BY <1>1, <1>2, <1>3, <1>4 DEF Flows, Precede
\* A step that adds nothing to any response but what stands aside.
LEMMA QuietKept ==
    ASSUME TypeOK, InOrder,
           wire' = wire \/ (\E c, r, K : Grows(c, r, K) /\ K \subseteq Aside),
           \A q, k : Held(q, k)' => Held(q, k),
           \A q, k : Sent(q, k)' => Sent(q, k),
           LinkOrdered',
           \A q \in Reqs :
              \/ client'[q] = client[q]
              \/ client'[q] = "done"
              \/ /\ client[q] \in {"none", "dialled", "work"}
                 /\ client'[q] \in {"none", "dialled", "work"},
           \A q \in Reqs : timer'[q] = "unset" \/ timer[q] # "unset" \/ ~OnWire(q, "401")
    PROVE  InOrder'
<1>1. WireOrdered' /\ \A q, k : OnWire(q, k)' /\ k \notin Aside => OnWire(q, k)
  <2>1. CASE wire' = wire
    BY <2>1 DEF InOrder, WireOrdered, OnWire
  <2>2. CASE \E c, r, K : Grows(c, r, K) /\ K \subseteq Aside
    <3>1. PICK c, r, K : Grows(c, r, K) /\ K \subseteq Aside
      BY <2>2
    <3>2. \A k \in K \ Aside : \A m : OnWire(r, m) /\ m \notin Aside => Precede(m, k)
      BY <3>1
    <3>3. WireOrdered'
      BY <3>1, <3>2, OrderGrows DEF InOrder
    <3>4. \A q, k : OnWire(q, k)' => OnWire(q, k) \/ (q = r /\ k \in K)
      BY <3>1, OnWireGrows
    <3>5. QED
      BY <3>1, <3>3, <3>4
  <2>3. QED
    BY <2>1, <2>2
<1>2. ASSUME NEW q \in Reqs PROVE Flows(q)'
  <2>1. Flows(q)
    BY DEF InOrder
  <2>2. \A k : OnWire(q, k)' /\ k \notin Aside => OnWire(q, k)
    BY <1>1
  <2>3. /\ \A k : Held(q, k)' => Held(q, k)
        /\ \A k : Sent(q, k)' => Sent(q, k)
    OBVIOUS
  <2>4. QED
    BY <2>1, <2>2, <2>3, FlowsKept
<1>3. QED
  BY <1>1, <1>2 DEF InOrder

\* What nobody sends or cuts off keeps its order.
LEMMA LinkSame ==
    ASSUME uplink' = uplink
    PROVE  /\ LinkOrdered => LinkOrdered'
           /\ \A q, k : Sent(q, k)' => Sent(q, k)
BY DEF LinkOrdered, Sent

\* A read loop that puts down what it held.
LEMMA HeldLess ==
    ASSUME TypeOK, NEW l \in Sessions, reader' = [reader EXCEPT ![l] = None]
    PROVE  \A q, k : Held(q, k)' => /\ Held(q, k)
                                    /\ \E m \in Sessions : m # l /\ reader[m] # None
<1> SUFFICES ASSUME NEW q, NEW k, Held(q, k)'
             PROVE  Held(q, k) /\ \E m \in Sessions : m # l /\ reader[m] # None
  OBVIOUS
<1>1. PICK m \in Sessions : reader'[m] # None /\ reader'[m].req = q /\ InHand(m)' = k
  BY DEF Held
<1>2. m # l /\ reader'[m] = reader[m]
  BY <1>1 DEF TypeOK
<1>3. InHand(m)' = InHand(m)
  BY <1>2 DEF InHand
<1>4. QED
  BY <1>1, <1>2, <1>3 DEF Held

\* A read loop writes what it holds, when no other holds anything.
LEMMA WriteKept ==
    ASSUME TypeOK, InOrder, NEW l \in Sessions, NEW r \in Reqs, NEW h, NEW K, NEW c,
           reader[l] # None, reader[l].req = r, InHand(l) = h, h # "401",
           \A m \in Sessions : reader[m] # None => m = l,
           reader' = [reader EXCEPT ![l] = None],
           uplink' = uplink, client' = client,
           \A q \in Reqs : timer'[q] = "unset" \/ timer[q] # "unset",
           Grows(c, r, K),
           \/ K \subseteq {h} \cup Aside
           \/ h = "101" /\ K \subseteq {"502"} \cup Aside
    PROVE  InOrder'
<1>1. Held(r, h) /\ \A q, k : ~Held(q, k)'
  <2>1. Held(r, h)
    BY DEF Held
  <2>2. \A q, k : Held(q, k)' => \E m \in Sessions : m # l /\ reader[m] # None
    BY HeldLess
  <2>3. QED
    BY <2>1, <2>2
<1>2. LinkOrdered' /\ \A q, k : Sent(q, k)' => Sent(q, k)
  BY LinkSame DEF InOrder
<1>3. Flows(r)
  BY DEF InOrder
<1>4. /\ \A k : OnWire(r, k) /\ k \notin Aside => Precede(k, h)
      /\ \A k : Sent(r, k) => Precede(h, k)
  BY <1>1, <1>3 DEF Flows
<1>5. \A k \in K \ Aside : /\ \A m : Precede(m, h) => Precede(m, k)
                           /\ \A m : Precede(h, m) => Precede(k, m)
                           /\ h \in {"head", "body"} => k \in {"head", "body"}
                           /\ k # "401"
  BY DEF Precede
<1>6. WireOrdered'
  BY <1>4, <1>5, OrderGrows DEF InOrder
<1>7. \A q, k : OnWire(q, k)' => OnWire(q, k) \/ (q = r /\ k \in K)
  BY OnWireGrows
<1>8. Flows(r)'
  <2>1. \A k, m : OnWire(r, k)' /\ k \notin Aside /\ Sent(r, m)' => Precede(k, m)
    BY <1>2, <1>3, <1>4, <1>5, <1>7 DEF Flows
  <2>2. client[r] \notin {"none", "dialled", "work"}
    BY <1>1, <1>3 DEF Flows
  <2>3. client[r] = "body" =>
           \A k : /\ Sent(r, k)' => k \in {"head", "body"}
                  /\ OnWire(r, k)' => k \in Aside \cup {"head", "body"}
    <3>1. client[r] = "body" => h \in {"head", "body"}
      BY <1>1, <1>3 DEF Flows
    <3>2. QED
      BY <1>2, <1>3, <1>5, <1>7, <3>1 DEF Flows
  <2>4. OnWire(r, "401")' => timer'[r] = "unset"
    BY <1>3, <1>5, <1>7 DEF Flows, Aside
  <2>5. QED
    BY <1>1, <2>1, <2>2, <2>3, <2>4 DEF Flows, Precede
<1>9. ASSUME NEW q \in Reqs, q # r PROVE Flows(q)'
  <2>1. Flows(q)
    BY DEF InOrder
  <2>2. \A k : OnWire(q, k)' /\ k \notin Aside => OnWire(q, k)
    BY <1>7, <1>9
  <2>3. /\ \A k : Held(q, k)' => Held(q, k)
        /\ \A k : Sent(q, k)' => Sent(q, k)
    BY <1>1, <1>2
  <2>4. QED
    BY <2>1, <2>2, <2>3, FlowsKept
<1>10. QED
  BY <1>2, <1>6, <1>8, <1>9 DEF InOrder

\* Every action keeps Ahead.
LEMMA AheadStep == TypeOK /\ Ahead /\ [Next]_vars => Ahead'
<1> SUFFICES ASSUME TypeOK, Ahead, [Next]_vars PROVE Ahead'
  OBVIOUS
<1> USE DEF linkVars, clientVars, serverVars
<1>0. live <= used
  <2>1. live \in 0 .. Links /\ used \in 0 .. Links /\ Links \in Nat
    BY HttpAssumption DEF TypeOK, HttpAssumption
  <2>2. live > used => live \in Sessions
    BY <2>1 DEF Sessions
  <2>3. QED
    BY <2>1, <2>2 DEF Ahead
<1>1. ASSUME UNCHANGED <<live, used, reader, uplink>> PROVE Ahead'
  BY <1>1 DEF Ahead
<1>2. ASSUME UNCHANGED <<live, used, uplink>>, NEW l \in Sessions, l <= used, NEW x,
             reader' = [reader EXCEPT ![l] = x]
      PROVE  Ahead'
  <2>1. \A m \in Sessions : m # l => reader'[m] = reader[m]
    BY <1>2 DEF TypeOK
  <2>2. \A m \in Sessions : m > used => m # l
    BY <1>2, HttpAssumption DEF TypeOK, HttpAssumption, Sessions
  <2>3. QED
    BY <1>2, <2>1, <2>2 DEF Ahead
<1>l. ASSUME NEW l \in Sessions, reader[l] # None \/ uplink[l] # <<>> PROVE l <= used
  BY <1>l, HttpAssumption DEF Ahead, TypeOK, HttpAssumption, Sessions
<1>3. ASSUME NEW c \in Conns, Handler(c) \/ BrowserLeaves(c) PROVE Ahead'
  BY <1>3, <1>1 DEF Handler, Refuse, Unauthorized, Register, SendAll, SendHead, SendBody,
                    SendFail, Unblock, Cleanup, BrowserLeaves
<1>4. ASSUME NEW r \in Reqs, Timer(r) \/ RelayEnds(r) PROVE Ahead'
  BY <1>4, <1>1 DEF Timer, TimerFire, TimerTake, TimerWrite, RelayEnds
<1>5. ASSUME NEW r \in Reqs, Client(r) PROVE Ahead'
  <2>1. /\ UNCHANGED <<live, used, reader>>
        /\ \E k : ClientSends(r, k)
    BY <1>5 DEF Client, ClientAnswers, ClientStreams
  <2>2. \A l \in Sessions : l > used => uplink'[l] = uplink[l]
    BY <2>1, <1>0, HttpAssumption DEF ClientSends, TypeOK, HttpAssumption, Sessions
  <2>3. QED
    BY <2>1, <2>2 DEF Ahead
<1>6. ASSUME NEW l \in Sessions, Receive(l) PROVE Ahead'
  <2>1. l <= used /\ \E x : reader' = [reader EXCEPT ![l] = x]
    BY <1>6, <1>l DEF Receive
  <2>2. \A m \in Sessions : m > used => m # l
    BY <2>1, HttpAssumption DEF TypeOK, HttpAssumption, Sessions
  <2>3. \A m \in Sessions : m # l => reader'[m] = reader[m] /\ uplink'[m] = uplink[m]
    BY <1>6 DEF Receive, TypeOK
  <2>4. QED
    BY <1>6, <2>2, <2>3 DEF Receive, Ahead
<1>7. ASSUME NEW l \in Sessions,
             Answer(l) \/ Switching(l) \/ DataChannelUp(l) \/ DataChannelFails(l) \/ Dispatch(l)
      PROVE  Ahead'
  <2>1. /\ reader[l] # None /\ UNCHANGED <<live, used, uplink>>
        /\ \E x : reader' = [reader EXCEPT ![l] = x]
    BY <1>7 DEF Answer, Switching, DataChannelUp, DataChannelFails, Dispatch
  <2>2. QED
    BY <2>1, <1>2, <1>l
<1>8. ASSUME LinkUp PROVE Ahead'
  BY <1>8, HttpAssumption DEF LinkUp, Ahead, TypeOK, HttpAssumption, Sessions
<1>9. ASSUME LinkDown PROVE Ahead'
  <2>1. \A l \in Sessions : l > used => uplink'[l] = uplink[l]
    BY <1>9, <1>0, HttpAssumption DEF LinkDown, TypeOK, HttpAssumption, Sessions
  <2>2. QED
    BY <1>9, <2>1, HttpAssumption DEF LinkDown, Ahead, HttpAssumption, Sessions
<1>10. QED
  BY <1>1, <1>3, <1>4, <1>5, <1>6, <1>7, <1>8, <1>9 DEF Next, ReadLoop, vars

\* A read loop takes the next frame of its link, or drops it.
LEMMA ReceiveKept ==
    ASSUME TypeOK, InOrder, NEW l \in Sessions, Receive(l),
           \A m \in Sessions : m # l => reader[m] = None /\ uplink[m] = <<>>
    PROVE  InOrder'
<1>1. PICK f : f = Head(uplink[l])
  OBVIOUS
<1>2. /\ uplink[l] \in Seq(Frames) /\ Len(uplink[l]) \in Nat /\ Len(uplink[l]) > 0
      /\ f = uplink[l][1] /\ f \in Frames
      /\ uplink'[l] = Tail(uplink[l])
      /\ \A m \in Sessions : m # l => uplink'[m] = uplink[m]
  BY <1>1 DEF Receive, TypeOK
<1>3. /\ Len(uplink'[l]) = Len(uplink[l]) - 1
      /\ \A i \in 1 .. Len(uplink'[l]) : /\ i + 1 \in 1 .. Len(uplink[l])
                                         /\ uplink'[l][i] = uplink[l][i + 1]
  BY <1>2
<1>4. /\ wire' = wire /\ client' = client
      /\ \A q \in Reqs : (timer'[q] = "unset" <=> timer[q] = "unset")
  <2>1. /\ wire' = wire /\ client' = client
        /\ timer' = timer \/ StopTimer(f.req)
    BY <1>1 DEF Receive, clientVars
  <2>2. StopTimer(f.req) => \A q \in Reqs : (timer'[q] = "unset" <=> timer[q] = "unset")
    BY DEF StopTimer, TypeOK
  <2>3. QED
    BY <2>1, <2>2
<1>5. \A q, k : ~Held(q, k) /\ (OnWire(q, k)' <=> OnWire(q, k))
  BY <1>4 DEF Receive, Held, OnWire
<1>6. \A q, k : Held(q, k)' => q = f.req /\ k = f.kind
  <2>1. \A m \in Sessions : reader'[m] # None => m = l /\ reader'[m] = f
    BY <1>1 DEF Receive, TypeOK
  <2>2. f.kind # "ensure"
    BY <1>2 DEF Frames, FrameKinds, StreamKinds
  <2>3. QED
    BY <2>1, <2>2 DEF Held, InHand
<1>7. \A q, k : Sent(q, k)' => Sent(q, k) /\ (q = f.req => Precede(f.kind, k))
  <2> SUFFICES ASSUME NEW q, NEW k, Sent(q, k)'
               PROVE  Sent(q, k) /\ (q = f.req => Precede(f.kind, k))
    OBVIOUS
  <2>1. PICK m \in Sessions : \E i \in 1 .. Len(uplink'[m]) :
                                 uplink'[m][i].req = q /\ uplink'[m][i].kind = k
    BY DEF Sent
  <2>2. PICK i \in 1 .. Len(uplink'[m]) : uplink'[m][i].req = q /\ uplink'[m][i].kind = k
    BY <2>1
  <2>3. CASE m = l
    <3>0. i \in 1 .. Len(uplink'[l]) /\ uplink'[l][i].req = q /\ uplink'[l][i].kind = k
      BY <2>2, <2>3
    <3>1. /\ i + 1 \in 1 .. Len(uplink[l]) /\ 1 \in 1 .. Len(uplink[l]) /\ 1 < i + 1
          /\ uplink[l][i + 1].req = q /\ uplink[l][i + 1].kind = k
      BY <1>2, <1>3, <3>0
    <3>2. Sent(q, k)
      BY <3>1 DEF Sent
    <3>3. LinkOrdered
      BY DEF InOrder
    <3>4. q = f.req => Precede(f.kind, k)
      BY <3>1, <3>3, <1>2 DEF LinkOrdered
    <3>5. QED
      BY <3>2, <3>4
  <2>4. CASE m # l
    BY <1>2, <2>2, <2>4
  <2>5. QED
    BY <2>3, <2>4
<1>8. LinkOrdered'
  <2> SUFFICES ASSUME NEW m \in Sessions, NEW i \in 1 .. Len(uplink'[m]),
                      NEW j \in 1 .. Len(uplink'[m]),
                      i < j, uplink'[m][i].req = uplink'[m][j].req
               PROVE  Precede(uplink'[m][i].kind, uplink'[m][j].kind)
    BY DEF LinkOrdered, Precede
  <2>1. m = l
    BY <1>2
  <2>2. /\ i + 1 \in 1 .. Len(uplink[l]) /\ j + 1 \in 1 .. Len(uplink[l]) /\ i + 1 < j + 1
        /\ uplink'[l][i] = uplink[l][i + 1] /\ uplink'[l][j] = uplink[l][j + 1]
    BY <1>3, <2>1
  <2>3. LinkOrdered
    BY DEF InOrder
  <2>4. QED
    BY <2>1, <2>2, <2>3 DEF LinkOrdered
<1>9. WireOrdered'
  BY <1>4 DEF InOrder, WireOrdered
<1>10. ASSUME NEW q \in Reqs PROVE Flows(q)'
  <2>1. Flows(q)
    BY DEF InOrder
  <2>2. /\ \A k : Held(q, k)' => q = f.req /\ k = f.kind /\ Sent(q, k)
        /\ \A k : Sent(q, k)' => Sent(q, k) /\ (q = f.req => Precede(f.kind, k))
        /\ \A k : OnWire(q, k)' <=> OnWire(q, k)
    <3>1. 1 \in 1 .. Len(uplink[l])
      BY <1>2
    <3>2. Sent(f.req, f.kind)
      BY <1>2, <3>1 DEF Sent
    <3>3. QED
      BY <1>5, <1>6, <1>7, <3>2
  <2>3. \A k, m : /\ OnWire(q, k)' /\ k \notin Aside /\ (Held(q, m)' \/ Sent(q, m)') => Precede(k, m)
                  /\ Held(q, k)' /\ Sent(q, m)' => Precede(k, m)
    BY <2>1, <2>2 DEF Flows
  <2>4. client'[q] \in {"none", "dialled", "work"} =>
           \A k : ~Held(q, k)' /\ ~Sent(q, k)' /\ (OnWire(q, k)' => k \in Aside \cup {"401"})
    BY <1>4, <2>1, <2>2 DEF Flows
  <2>5. client'[q] = "body" =>
           \A k : /\ Held(q, k)' \/ Sent(q, k)' => k \in {"head", "body"}
                  /\ OnWire(q, k)' => k \in Aside \cup {"head", "body"}
    BY <1>4, <2>1, <2>2 DEF Flows
  <2>6. OnWire(q, "401")' => timer'[q] = "unset"
    BY <1>4, <2>1, <2>2 DEF Flows
  <2>7. QED
    BY <2>3, <2>4, <2>5, <2>6 DEF Flows, Precede
<1>11. QED
  BY <1>8, <1>9, <1>10 DEF InOrder

\* The client puts one more frame on its link.
LEMMA SendKept ==
    ASSUME TypeOK, InOrder, NEW r \in Reqs, NEW k \in FrameKinds, live \in Sessions,
           uplink' = [uplink EXCEPT ![live] = Append(@, Piece(r, k))],
           UNCHANGED <<reader, wire, timer>>,
           \A q \in Reqs : q # r => client'[q] = client[q],
           \/ client'[r] = "done"
           \/ client'[r] = "body" /\ k \in {"head", "body"},
           \A m : \/ OnWire(r, m) /\ m \notin Aside
                  \/ Held(r, m)
                  \/ Sent(r, m)
                  => Precede(m, k)
    PROVE  InOrder'
<1>1. /\ uplink[live] \in Seq(Frames) /\ Len(uplink[live]) \in Nat
      /\ Piece(r, k) \in Frames /\ Piece(r, k).req = r /\ Piece(r, k).kind = k
  <2>1. uplink[live] \in Seq(Frames)
    BY DEF TypeOK
  <2>2. Len(uplink[live]) \in Nat
    BY <2>1
  <2>3. QED
    BY <2>1, <2>2 DEF Piece, Frames
<1>2. PICK h : h = live
  OBVIOUS
<1>3. /\ Len(uplink'[h]) = Len(uplink[h]) + 1
      /\ uplink'[h][Len(uplink[h]) + 1] = Piece(r, k)
      /\ \A i \in 1 .. Len(uplink[h]) : uplink'[h][i] = uplink[h][i]
      /\ \A m \in Sessions : m # h => uplink'[m] = uplink[m]
  BY <1>1, <1>2 DEF TypeOK
<1>4. /\ \A q, m : Held(q, m)' <=> Held(q, m)
      /\ \A q, m : OnWire(q, m)' <=> OnWire(q, m)
  BY DEF Held, InHand, OnWire
<1>5. ASSUME NEW q, NEW m, Sent(q, m)' PROVE Sent(q, m) \/ (q = r /\ m = k)
  <2>1. PICK d \in Sessions : \E i \in 1 .. Len(uplink'[d]) :
                                 uplink'[d][i].req = q /\ uplink'[d][i].kind = m
    BY <1>5 DEF Sent
  <2>2. PICK i \in 1 .. Len(uplink'[d]) : uplink'[d][i].req = q /\ uplink'[d][i].kind = m
    BY <2>1
  <2>3. CASE d = h /\ i = Len(uplink[h]) + 1
    BY <1>1, <1>3, <2>2, <2>3
  <2>4. CASE ~(d = h /\ i = Len(uplink[h]) + 1)
    <3>1. i \in 1 .. Len(uplink[d]) /\ uplink'[d][i] = uplink[d][i]
      BY <1>1, <1>2, <1>3, <2>2, <2>4
    <3>2. QED
      BY <2>2, <3>1 DEF Sent
  <2>5. QED
    BY <2>3, <2>4
<1>6. LinkOrdered'
  <2> SUFFICES ASSUME NEW d \in Sessions, NEW i \in 1 .. Len(uplink'[d]),
                      NEW j \in 1 .. Len(uplink'[d]),
                      i < j, uplink'[d][i].req = uplink'[d][j].req
               PROVE  Precede(uplink'[d][i].kind, uplink'[d][j].kind)
    BY DEF LinkOrdered, Precede
  <2>1. LinkOrdered
    BY DEF InOrder
  <2>2. CASE d = h /\ j = Len(uplink[h]) + 1
    <3>1. i \in 1 .. Len(uplink[h]) /\ uplink'[h][i] = uplink[h][i]
      BY <1>1, <1>2, <1>3, <2>2
    <3>2. uplink[h][i].req = r
      BY <1>1, <1>3, <2>2, <3>1
    <3>3. Sent(r, uplink[h][i].kind)
      BY <1>2, <3>1, <3>2 DEF Sent
    <3>4. QED
      BY <1>1, <1>3, <2>2, <3>1, <3>3
  <2>3. CASE ~(d = h /\ j = Len(uplink[h]) + 1)
    <3>1. Len(uplink[d]) \in Nat
      BY DEF TypeOK
    <3>2. /\ i \in 1 .. Len(uplink[d]) /\ uplink'[d][i] = uplink[d][i]
          /\ j \in 1 .. Len(uplink[d]) /\ uplink'[d][j] = uplink[d][j]
      BY <1>2, <1>3, <2>3, <3>1
    <3>3. QED
      BY <2>1, <3>2 DEF LinkOrdered
  <2>4. QED
    BY <2>2, <2>3
<1>7. WireOrdered'
  BY DEF InOrder, WireOrdered
<1>8. Flows(r)'
  <2>1. Flows(r)
    BY DEF InOrder
  <2>2. \A n, m : /\ OnWire(r, n)' /\ n \notin Aside /\ (Held(r, m)' \/ Sent(r, m)') => Precede(n, m)
                  /\ Held(r, n)' /\ Sent(r, m)' => Precede(n, m)
    BY <1>4, <1>5, <2>1 DEF Flows
  <2>3. client'[r] = "body" =>
           \A m : /\ Held(r, m)' \/ Sent(r, m)' => m \in {"head", "body"}
                  /\ OnWire(r, m)' => m \in Aside \cup {"head", "body"}
    BY <1>4, <1>5 DEF Precede
  <2>4. OnWire(r, "401")' => timer'[r] = "unset"
    BY <1>4, <2>1 DEF Flows
  <2>5. QED
    BY <2>2, <2>3, <2>4 DEF Flows, Precede
<1>9. ASSUME NEW q \in Reqs, q # r PROVE Flows(q)'
  <2>1. Flows(q)
    BY DEF InOrder
  <2>2. /\ \A m : OnWire(q, m)' /\ m \notin Aside => OnWire(q, m)
        /\ \A m : Held(q, m)' => Held(q, m)
        /\ \A m : Sent(q, m)' => Sent(q, m)
    BY <1>4, <1>5, <1>9
  <2>3. client'[q] = client[q] /\ (timer'[q] = "unset" \/ timer[q] # "unset" \/ ~OnWire(q, "401"))
    BY <1>9, <2>1 DEF Flows
  <2>4. QED
    BY <2>1, <2>2, <2>3, FlowsKept
<1>10. QED
  BY <1>6, <1>7, <1>8, <1>9 DEF InOrder

\* A request that no handler has read has nothing of a response.
LEMMA NothingYet ==
    ASSUME TypeOK, Known, Timed, InOrder, NEW r \in Reqs, at[r] = None
    PROVE  /\ timer[r] = "unset" /\ client[r] = "none"
           /\ \A k : ~OnWire(r, k) /\ ~Held(r, k) /\ ~Sent(r, k)
<1>1. timer[r] = "unset" /\ client[r] = "none"
  BY DEF Known, Timed
<1>2. \A k : ~OnWire(r, k)
  BY HttpAssumption DEF Known, OnWire, HttpAssumption
<1>3. Flows(r)
  BY DEF InOrder
<1>4. QED
  BY <1>1, <1>2, <1>3 DEF Flows

\* The 401 is the only thing written for a request that was not let in.
LEMMA UnauthorizedKept ==
    ASSUME TypeOK, Known, Timed, InOrder, NEW c \in Conns, NEW r \in Reqs, Unauthorized(c, r)
    PROVE  InOrder'
<1>1. /\ at[r] = None /\ Put(c, r, "401")
      /\ UNCHANGED <<reader, uplink, client, timer>>
  BY DEF Unauthorized, Readable, linkVars, clientVars
<1>2. /\ timer[r] = "unset" /\ client[r] = "none"
      /\ \A k : ~OnWire(r, k) /\ ~Held(r, k) /\ ~Sent(r, k)
  BY <1>1, NothingYet
<1>3. Grows(c, r, {"401"})
  BY <1>1, PutGrows, Kinds
<1>4. WireOrdered'
  BY <1>2, <1>3, OrderGrows DEF InOrder
<1>5. \A q, k : OnWire(q, k)' => OnWire(q, k) \/ (q = r /\ k = "401")
  BY <1>3, OnWireGrows
<1>6. /\ \A q, k : Held(q, k)' <=> Held(q, k)
      /\ \A q, k : Sent(q, k)' <=> Sent(q, k)
      /\ LinkOrdered'
  BY <1>1 DEF Held, InHand, Sent, LinkOrdered, InOrder
<1>7. Flows(r)'
  BY <1>1, <1>2, <1>5, <1>6 DEF Flows
<1>8. ASSUME NEW q \in Reqs, q # r PROVE Flows(q)'
  <2>1. Flows(q)
    BY DEF InOrder
  <2>2. /\ \A m : OnWire(q, m)' /\ m \notin Aside => OnWire(q, m)
        /\ \A m : Held(q, m)' => Held(q, m)
        /\ \A m : Sent(q, m)' => Sent(q, m)
    BY <1>5, <1>6, <1>8
  <2>3. client'[q] = client[q] /\ (timer'[q] = "unset" \/ timer[q] # "unset" \/ ~OnWire(q, "401"))
    BY <1>1, <2>1 DEF Flows
  <2>4. QED
    BY <2>1, <2>2, <2>3, FlowsKept
<1>9. QED
  BY <1>4, <1>6, <1>7, <1>8 DEF InOrder

\* On the first monitor session every action keeps the responses in order.
LEMMA OrderStep ==
    TypeOK /\ Known /\ Timed /\ Ahead /\ used <= 1 /\ InOrder /\ [Next]_vars => InOrder'
<1> SUFFICES ASSUME TypeOK, Known, Timed, Ahead, used <= 1, InOrder, [Next]_vars PROVE InOrder'
  OBVIOUS
<1> USE DEF linkVars, clientVars, serverVars, Take, Arm
\* There is one session.
<1>o. ASSUME NEW l \in Sessions, reader[l] # None \/ uplink[l] # <<>> \/ live = l
      PROVE  \A m \in Sessions : m # l => reader[m] = None /\ uplink[m] = <<>>
  <2>1. used \in 0 .. Links /\ Links \in Nat
    BY HttpAssumption DEF TypeOK, HttpAssumption
  <2>2. \A m \in Sessions : reader[m] # None \/ uplink[m] # <<>> \/ live = m => m = 1
    BY <2>1 DEF Ahead, Sessions
  <2>3. QED
    BY <1>o, <2>2
\* A step of the server that writes nothing but what stands aside.
<1>q. ASSUME wire' = wire \/ (\E c, r, K : Grows(c, r, K) /\ K \subseteq Aside),
             reader' = reader, uplink' = uplink,
             \A q \in Reqs : \/ client'[q] = client[q]
                             \/ /\ client[q] \in {"none", "dialled", "work"}
                                /\ client'[q] \in {"none", "dialled", "work"},
             \A q \in Reqs : timer'[q] = "unset" \/ timer[q] # "unset" \/ ~OnWire(q, "401")
      PROVE  InOrder'
  <2>1. \A q, k : Held(q, k)' => Held(q, k)
    BY <1>q DEF Held, InHand
  <2>2. LinkOrdered' /\ \A q, k : Sent(q, k)' => Sent(q, k)
    BY <1>q, LinkSame DEF InOrder
  <2>3. QED
    BY <1>q, <2>1, <2>2, QuietKept
<1>t. ASSUME NEW r \in Reqs, StopTimer(r)
      PROVE  \A q \in Reqs : timer'[q] = "unset" \/ timer[q] # "unset"
  BY <1>t DEF StopTimer, TypeOK
<1>d. ASSUME NEW c \in Conns, NEW r \in Reqs, Destroy(c, r)
      PROVE  \E d, q, K : Grows(d, q, K) /\ K \subseteq Aside
  <2>1. Grows(c, r, Aside)
    BY <1>d, DestroyGrows DEF Aside
  <2>2. QED
    BY <2>1
<1>h. ASSUME NEW l \in Sessions, reader[l] # None
      PROVE  reader[l] \in Holding /\ reader[l].req \in Reqs /\ at[reader[l].req] \in Conns
  BY <1>h DEF TypeOK, Known, Holding
<1>1. ASSUME NEW c \in Conns, NEW r \in Reqs, Refuse(c, r) PROVE InOrder'
  BY <1>1, <1>q, <1>d DEF Refuse
<1>2. ASSUME NEW c \in Conns, NEW r \in Reqs, Unauthorized(c, r) PROVE InOrder'
  BY <1>2, UnauthorizedKept
<1>3. ASSUME NEW c \in Conns, NEW r \in Reqs, NEW m \in Modes, NEW last \in BOOLEAN,
             Register(c, r, m, last)
      PROVE  InOrder'
  <2>1. /\ UNCHANGED <<wire, reader, uplink, client>> /\ at[r] = None
        /\ timer' = [timer EXCEPT ![r] = "armed"]
    BY <1>3 DEF Register, Readable
  <2>2. ~OnWire(r, "401")
    BY <2>1, NothingYet
  <2>3. \A q \in Reqs : timer'[q] = "unset" \/ timer[q] # "unset" \/ ~OnWire(q, "401")
    BY <2>1, <2>2 DEF TypeOK
  <2>4. QED
    BY <2>1, <2>3, <1>q
<1>4. ASSUME NEW c \in Conns, SendAll(c) \/ SendHead(c) \/ SendBody(c) PROVE InOrder'
  <2>1. /\ UNCHANGED <<wire, reader, uplink, timer>> /\ handler[c] \in {"send", "body"}
        /\ \/ client' = client
           \/ /\ client[cur[c]] \in {"none", "dialled"}
              /\ \E w \in {"dialled", "work", client[cur[c]]} : client' = [client EXCEPT ![cur[c]] = w]
    BY <1>4 DEF SendAll, SendHead, SendBody, Reaches, Timed
  <2>2. cur[c] \in Reqs
    BY <2>1 DEF Known
  <2>3. \A q \in Reqs : \/ client'[q] = client[q]
                        \/ /\ client[q] \in {"none", "dialled", "work"}
                           /\ client'[q] \in {"none", "dialled", "work"}
    BY <2>1, <2>2 DEF TypeOK
  <2>4. QED
    BY <2>1, <2>3, <1>q
<1>5. ASSUME NEW c \in Conns, SendFail(c) PROVE InOrder'
  <2>1. /\ UNCHANGED <<reader, uplink, client>> /\ cur[c] \in Reqs
        /\ StopTimer(cur[c]) /\ Destroy(c, cur[c])
    BY <1>5 DEF SendFail, Known
  <2>2. QED
    BY <2>1, <1>q, <1>d, <1>t
<1>6. ASSUME NEW c \in Conns, Unblock(c) \/ BrowserLeaves(c) PROVE InOrder'
  BY <1>6, <1>q DEF Unblock, BrowserLeaves
<1>7. ASSUME NEW c \in Conns, Cleanup(c) PROVE InOrder'
  <2>1. \A q \in Reqs : timer'[q] = "unset" \/ timer[q] # "unset"
    BY <1>7 DEF Cleanup
  <2>2. QED
    BY <1>7, <2>1, <1>q DEF Cleanup
<1>8. ASSUME NEW r \in Reqs, TimerFire(r) \/ TimerTake(r) PROVE InOrder'
  <2>1. \A q \in Reqs : timer'[q] = "unset" \/ timer[q] # "unset"
    BY <1>8 DEF TimerFire, TimerTake, TypeOK
  <2>2. QED
    BY <1>8, <2>1, <1>q DEF TimerFire, TimerTake
<1>9. ASSUME NEW r \in Reqs, TimerWrite(r) PROVE InOrder'
  <2>1. timer[r] = "taken" /\ at[r] \in Conns
    BY <1>9 DEF TimerWrite, Known, TypeOK
  <2>2. Grows(at[r], r, {"504", "404"})
    BY <1>9, <2>1, DeliverGrows, Kinds DEF TimerWrite, WireKinds, WholeKinds
  <2>3. \A q \in Reqs : timer'[q] = "unset" \/ timer[q] # "unset"
    BY <1>9 DEF TimerWrite, TypeOK
  <2>4. \E d, q, K : Grows(d, q, K) /\ K \subseteq Aside
    BY <2>2 DEF Aside
  <2>5. QED
    BY <1>9, <2>3, <2>4, <1>q DEF TimerWrite
<1>10. ASSUME NEW r \in Reqs, RelayEnds(r) PROVE InOrder'
  BY <1>10, <1>q DEF RelayEnds
<1>11. ASSUME NEW l \in Sessions, Receive(l) PROVE InOrder'
  BY <1>11, <1>o, ReceiveKept DEF Receive
\* A read loop that writes what it holds.
<1>w. ASSUME NEW l \in Sessions, reader[l] # None, reader' = [reader EXCEPT ![l] = None],
             uplink' = uplink, client' = client,
             \A q \in Reqs : timer'[q] = "unset" \/ timer[q] # "unset",
             NEW K, Grows(at[reader[l].req], reader[l].req, K),
             \/ K \subseteq {InHand(l)} \cup Aside
             \/ InHand(l) = "101" /\ K \subseteq {"502"} \cup Aside
      PROVE  InOrder'
  <2>1. InHand(l) # "401"
    BY <1>w, <1>h DEF InHand, Holding, FrameKinds, StreamKinds
  <2>2. reader[l].req \in Reqs
    BY <1>w, <1>h
  <2>3. \A m \in Sessions : reader[m] # None => m = l
    BY <1>w, <1>o
  <2>4. QED
    BY <1>w, <2>1, <2>2, <2>3, WriteKept
<1>12. ASSUME NEW l \in Sessions, Answer(l) PROVE InOrder'
  <2>1. /\ reader[l] # None /\ reader' = [reader EXCEPT ![l] = None] /\ InHand(l) = "full"
        /\ uplink' = uplink /\ client' = client /\ StopTimer(reader[l].req)
    BY <1>12 DEF Answer, InHand
  <2>2. Grows(at[reader[l].req], reader[l].req, {"full", "404"})
    BY <1>12, <2>1, <1>h, DeliverGrows, Kinds DEF Answer
  <2>3. \A q \in Reqs : timer'[q] = "unset" \/ timer[q] # "unset"
    BY <2>1, <1>h, <1>t
  <2>4. {"full", "404"} \subseteq {InHand(l)} \cup Aside
    BY <2>1 DEF Aside
  <2>5. QED
    BY <2>1, <2>2, <2>3, <2>4, <1>w
<1>13. ASSUME NEW l \in Sessions, Switching(l) PROVE InOrder'
  <2>1. /\ reader[l] # None /\ reader[l].kind = "101"
        /\ uplink' = uplink /\ client' = client /\ StopTimer(reader[l].req)
    BY <1>13 DEF Switching
  <2>2. \A q \in Reqs : timer'[q] = "unset" \/ timer[q] # "unset"
    BY <2>1, <1>h, <1>t
  <2>3. LinkOrdered' /\ \A q, k : Sent(q, k)' => Sent(q, k)
    BY <2>1, LinkSame DEF InOrder
  <2>4. CASE reader' = [reader EXCEPT ![l].kind = "ensure"] /\ wire' = wire
    <3>1. \A m \in Sessions : m # l => reader'[m] = reader[m]
      BY <2>4 DEF TypeOK
    <3>2. reader'[l].req = reader[l].req /\ reader'[l].kind = "ensure"
      <4>1. reader'[l] = [reader[l] EXCEPT !.kind = "ensure"]
        BY <2>4 DEF TypeOK
      <4>2. QED
        BY <2>1, <4>1, <1>h DEF Holding
    <3>3. \A q, k : Held(q, k)' => Held(q, k)
      <4>1. \A m \in Sessions : reader'[m] # None => reader[m] # None
        BY <2>1, <3>1
      <4>2. \A m \in Sessions : reader'[m].req = reader[m].req
        BY <3>1, <3>2
      <4>3. ASSUME NEW m \in Sessions PROVE InHand(m)' = InHand(m)
        BY <2>1, <3>1, <3>2 DEF InHand
      <4>4. QED
        BY <4>1, <4>2, <4>3 DEF Held
    <3>4. QED
      BY <2>1, <2>2, <2>3, <2>4, <3>3, QuietKept
  <2>5. CASE Destroy(at[reader[l].req], reader[l].req) /\ reader' = [reader EXCEPT ![l] = None]
    <3>1. \E d, q, K : Grows(d, q, K) /\ K \subseteq Aside
      BY <2>1, <2>5, <1>h, <1>d
    <3>2. \A q, k : Held(q, k)' => Held(q, k)
      BY <2>5, HeldLess
    <3>3. QED
      BY <2>1, <2>2, <2>3, <3>1, <3>2, QuietKept
  <2>6. QED
    BY <1>13, <2>4, <2>5 DEF Switching
<1>14. ASSUME NEW l \in Sessions, DataChannelUp(l) PROVE InOrder'
  <2>1. /\ reader[l] # None /\ reader' = [reader EXCEPT ![l] = None] /\ InHand(l) = "101"
        /\ uplink' = uplink /\ client' = client /\ timer' = timer
    BY <1>14 DEF DataChannelUp, InHand
  <2>2. Grows(at[reader[l].req], reader[l].req, {"101"})
    BY <1>14, <2>1, <1>h, PutGrows, Kinds DEF DataChannelUp
  <2>3. QED
    BY <2>1, <2>2, <1>w
<1>15. ASSUME NEW l \in Sessions, DataChannelFails(l) PROVE InOrder'
  <2>1. /\ reader[l] # None /\ reader' = [reader EXCEPT ![l] = None] /\ InHand(l) = "101"
        /\ uplink' = uplink /\ client' = client /\ timer' = timer
    BY <1>15 DEF DataChannelFails, InHand
  <2>2. Grows(at[reader[l].req], reader[l].req, {"502", "404"})
    <3>1. CASE wire' = wire
      <4>1. wire \in [Conns -> Seq(Pieces)]
        BY DEF TypeOK, Pieces
      <4>2. QED
        BY <3>1, <4>1, <2>1, <1>h, AppendGrows, Kinds
    <3>2. CASE ~(wire' = wire)
      BY <1>15, <2>1, <3>2, <1>h, FailsGrows DEF DataChannelFails
    <3>3. QED
      BY <3>1, <3>2
  <2>3. {"502", "404"} \subseteq {"502"} \cup Aside
    BY DEF Aside
  <2>4. QED
    BY <2>1, <2>2, <2>3, <1>w
<1>16. ASSUME NEW l \in Sessions, Dispatch(l) PROVE InOrder'
  <2>1. /\ reader[l] # None /\ reader' = [reader EXCEPT ![l] = None]
        /\ InHand(l) = reader[l].kind /\ reader[l].kind \in WireKinds
        /\ uplink' = uplink /\ client' = client /\ timer' = timer
    BY <1>16, Kinds DEF Dispatch, InHand, StreamKinds
  <2>2. Grows(at[reader[l].req], reader[l].req, {reader[l].kind, "404"})
    BY <1>16, <2>1, <1>h, PutGrows, DestroyGrows DEF Dispatch
  <2>3. {reader[l].kind, "404"} \subseteq {InHand(l)} \cup Aside
    BY <2>1 DEF Aside
  <2>4. QED
    BY <2>1, <2>2, <2>3, <1>w
<1>17. ASSUME NEW r \in Reqs, Client(r) PROVE InOrder'
  <2>1. PICK k \in FrameKinds :
           /\ ClientSends(r, k) /\ UNCHANGED <<reader, wire, timer>>
           /\ \/ client[r] \in {"dialled", "work"}
              \/ client[r] = "body" /\ k \in {"body", "bodyfin"}
           /\ \/ client' = [client EXCEPT ![r] = "done"]
              \/ /\ client' = [client EXCEPT ![r] = "body"]
                 /\ k \in {"head", "body"} /\ live # 0
    <3>1. CASE \E k \in {"full", "101"} : ClientAnswers(r, k)
      BY <3>1 DEF ClientAnswers, Unanswered, FrameKinds
    <3>2. CASE \E k \in StreamKinds : ClientStreams(r, k)
      <4>1. PICK k \in StreamKinds : ClientStreams(r, k)
        BY <3>2
      <4>2. /\ ClientSends(r, k) /\ UNCHANGED <<reader, wire, timer>>
            /\ \/ client[r] = "work"
               \/ client[r] = "body" /\ k \in {"body", "bodyfin"}
        BY <4>1 DEF ClientStreams
      <4>3. \/ client' = [client EXCEPT ![r] = "done"]
            \/ /\ client' = [client EXCEPT ![r] = "body"]
               /\ k \in {"head", "body"} /\ live # 0
        BY <4>1 DEF ClientStreams, StreamKinds
      <4>4. k \in FrameKinds
        BY DEF FrameKinds
      <4>5. QED
        BY <4>2, <4>3, <4>4
    <3>3. QED
      BY <1>17, <3>1, <3>2 DEF Client
  <2>2. /\ \A q \in Reqs : q # r => client'[q] = client[q]
        /\ client'[r] = "done" \/ (client'[r] = "body" /\ k \in {"head", "body"} /\ live # 0)
    BY <2>1 DEF TypeOK
  <2>3. CASE live = 0
    <3>1. uplink' = uplink
      BY <2>1, <2>3 DEF ClientSends
    <3>2. LinkOrdered' /\ \A q, m : Sent(q, m)' => Sent(q, m)
      BY <3>1, LinkSame DEF InOrder
    <3>3. \A q, m : Held(q, m)' => Held(q, m)
      BY <2>1 DEF Held, InHand
    <3>4. \A q \in Reqs : client'[q] = client[q] \/ client'[q] = "done"
      BY <2>2, <2>3
    <3>5. \A q \in Reqs : timer'[q] = "unset" \/ timer[q] # "unset"
      BY <2>1
    <3>6. QED
      BY <2>1, <3>2, <3>3, <3>4, <3>5, QuietKept
  <2>4. CASE live # 0
    <3>1. live \in Sessions
      BY <2>4, HttpAssumption DEF TypeOK, Sessions, HttpAssumption
    <3>2. uplink' = [uplink EXCEPT ![live] = Append(@, Piece(r, k))]
      BY <2>1, <2>4 DEF ClientSends
    <3>3. ~OnWire(r, "401") /\ Flows(r)
      BY <2>1 DEF InOrder, Flows, Timed
    <3>4. \A m : \/ OnWire(r, m) /\ m \notin Aside
                 \/ Held(r, m)
                 \/ Sent(r, m)
                 => Precede(m, k)
      <4>1. CASE client[r] \in {"dialled", "work"}
        BY <3>3, <4>1 DEF Flows
      <4>2. CASE client[r] = "body" /\ k \in {"body", "bodyfin"}
        BY <3>3, <4>2 DEF Flows, Precede
      <4>3. QED
        BY <2>1, <4>1, <4>2
    <3>5. QED
      BY <2>1, <2>2, <3>1, <3>2, <3>4, SendKept
  <2>5. QED
    BY <2>3, <2>4
<1>18. ASSUME LinkUp PROVE InOrder'
  BY <1>18, <1>q DEF LinkUp
<1>19. ASSUME LinkDown PROVE InOrder'
  <2>1. /\ live \in Sessions /\ UNCHANGED <<reader, wire, client, timer>>
        /\ \E n \in 0 .. Len(uplink[live]) : uplink' = [uplink EXCEPT ![live] = SubSeq(@, 1, n)]
    <3>1. live # 0
      BY <1>19 DEF LinkDown
    <3>2. live \in Sessions
      BY <3>1, HttpAssumption DEF TypeOK, Sessions, HttpAssumption
    <3>3. QED
      BY <1>19, <3>2 DEF LinkDown
  <2>2. ASSUME NEW l \in Sessions
        PROVE  \A i \in 1 .. Len(uplink'[l]) : i \in 1 .. Len(uplink[l]) /\ uplink'[l][i] = uplink[l][i]
    <3>1. uplink[l] \in Seq(Frames) /\ Len(uplink[l]) \in Nat
      BY DEF TypeOK
    <3>2. PICK n \in 0 .. Len(uplink[live]) : uplink' = [uplink EXCEPT ![live] = SubSeq(@, 1, n)]
      BY <2>1
    <3>3. CASE l = live
      <4>1. uplink'[l] = SubSeq(uplink[l], 1, n) /\ n \in 0 .. Len(uplink[l])
        BY <3>2, <3>3 DEF TypeOK
      <4>2. QED
        BY <3>1, <4>1
    <3>4. CASE l # live
      BY <3>2, <3>4 DEF TypeOK
    <3>5. QED
      BY <3>3, <3>4
  <2>3. \A q, k : Sent(q, k)' => Sent(q, k)
    BY <2>2 DEF Sent
  <2>4. LinkOrdered'
    BY <2>2 DEF InOrder, LinkOrdered
  <2>5. \A q, k : Held(q, k)' => Held(q, k)
    BY <2>1 DEF Held, InHand
  <2>6. \A q \in Reqs : client'[q] = client[q] /\ (timer'[q] = "unset" \/ timer[q] # "unset")
    BY <2>1
  <2>7. QED
    BY <2>1, <2>3, <2>4, <2>5, <2>6, QuietKept
<1>20. CASE UNCHANGED vars
  BY <1>20, <1>q DEF vars
<1>21. QED
  BY <1>1, <1>2, <1>3, <1>4, <1>5, <1>6, <1>7, <1>8, <1>9, <1>10, <1>11, <1>12, <1>13, <1>14,
     <1>15, <1>16, <1>17, <1>18, <1>19, <1>20
     DEF Next, Handler, Timer, ReadLoop

\* dispatchSemanticClientResponse: on the client's first monitor session a streamed response
\* reaches the browser in order, with nothing between its frames or after the last.
THEOREM StreamedInOrder == Spec => []StreamInOrder
<1> DEFINE IInv == TypeOK /\ Known /\ Timed /\ Ahead /\ (used <= 1 => InOrder)
<1>1. Init => IInv
  <2> SUFFICES ASSUME Init PROVE IInv
    OBVIOUS
  <2>1. Timed /\ Ahead
    BY DEF Init, Timed, Ahead, Sessions
  <2>2. WireOrdered /\ LinkOrdered
    BY DEF Init, WireOrdered, LinkOrdered
  <2>3. \A r \in Reqs : \A k : ~OnWire(r, k) /\ ~Held(r, k) /\ ~Sent(r, k)
    BY DEF Init, OnWire, Held, Sent
  <2>4. \A r \in Reqs : Flows(r)
    BY <2>3 DEF Init, Flows
  <2>5. QED
    BY <2>1, <2>2, <2>4, TypeInit DEF InOrder
<1>2. IInv /\ [Next]_vars => IInv'
  <2> SUFFICES ASSUME IInv, [Next]_vars PROVE IInv'
    OBVIOUS
  <2>1. TypeOK' /\ Known' /\ Timed' /\ Ahead'
    BY TypeStep, KnownStep, TimedStep, AheadStep
  <2>2. used' <= 1 => used <= 1
    <3>1. used' = used \/ used' = used + 1
      <4>1. ASSUME NEW c \in Conns, Handler(c) \/ BrowserLeaves(c) PROVE used' = used
        BY <4>1 DEF Handler, Refuse, Unauthorized, Register, SendAll, SendHead, SendBody,
                    SendFail, Unblock, Cleanup, BrowserLeaves, linkVars
      <4>2. ASSUME NEW r \in Reqs, Timer(r) \/ RelayEnds(r) \/ Client(r) PROVE used' = used
        BY <4>2 DEF Timer, TimerFire, TimerTake, TimerWrite, RelayEnds, Client,
                    ClientAnswers, ClientStreams, linkVars
      <4>3. ASSUME NEW l \in Sessions, ReadLoop(l) PROVE used' = used
        BY <4>3 DEF ReadLoop, Receive, Answer, Switching, DataChannelUp, DataChannelFails,
                    Dispatch
      <4>4. LinkUp \/ LinkDown \/ UNCHANGED vars => used' = used \/ used' = used + 1
        BY DEF LinkUp, LinkDown, vars, linkVars
      <4>5. QED
        BY <4>1, <4>2, <4>3, <4>4 DEF Next
    <3>2. used \in Nat
      BY HttpAssumption DEF TypeOK, HttpAssumption
    <3>3. QED
      BY <3>1, <3>2
  <2>3. QED
    BY <2>1, <2>2, OrderStep
<1>3. IInv => StreamInOrder
  <2> SUFFICES ASSUME IInv, used <= 1, NEW c \in Conns,
                      NEW i \in 1 .. Len(wire[c]), NEW j \in 1 .. Len(wire[c]),
                      i < j, wire[c][i].req = wire[c][j].req,
                      {"504", "404"} \cap {wire[c][i].kind, wire[c][j].kind} = {}
               PROVE  /\ wire[c][i].kind \in {"head", "body"}
                      /\ wire[c][j].kind \in {"body", "bodyfin"}
    BY DEF StreamInOrder, StreamKinds
  <2>1. WireOrdered
    BY DEF InOrder
  <2>2. wire[c][i].kind \notin Aside /\ wire[c][j].kind \notin Aside
    BY DEF Aside
  <2>3. QED
    BY <2>1, <2>2 DEF WireOrdered, Precede
<1>4. QED
  BY <1>1, <1>2, <1>3, PTL DEF Spec

=============================================================================
