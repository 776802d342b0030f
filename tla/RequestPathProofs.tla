--------------------------- MODULE RequestPathProofs ---------------------------
(***************************************************************************)
(* Proofs about RequestPath, for every number of requests and parts and    *)
(* every window.                                                           *)
(*                                                                         *)
(* For each request there is a number e such that the client has taken in  *)
(* e of its parts, and the frames of it on the wire are e, e + 1, ... in   *)
(* this order, up to the last that was sent while the session lasts        *)
(* (Run, Full).  Taking says what e tells of the client's state.  Frames   *)
(* of other requests in between do not matter, so that a step of one       *)
(* request leaves the e of the others alone.                               *)
(***************************************************************************)
EXTENDS RequestPath, TLAPS

-----------------------------------------------------------------------------
(* The frames of a request on a wire *)

\* The frames of r on w are numbered from e on, without a gap and once each, below n.
Run(w, r, e, n) ==
    /\ e <= n
    /\ \A j \in 1 .. Len(w) : w[j].id = r =>
          /\ w[j].part >= e /\ w[j].part < n
          /\ \/ w[j].part = e
             \/ \E i \in 1 .. j - 1 : w[i].id = r /\ w[i].part = w[j].part - 1
          /\ \A i \in 1 .. j - 1 : w[i].id = r => w[i].part < w[j].part

\* All that was sent is there.
Full(w, r, e, n) ==
    n = e \/ \E j \in 1 .. Len(w) : w[j].id = r /\ w[j].part = n - 1

-----------------------------------------------------------------------------
(* The inductive invariant *)

TypeAt(r, p) == IF kind[r] # "stream" THEN kind[r] ELSE IF p = 0 THEN "head" ELSE "body"
Genuine(r, m) ==
    /\ m.type = TypeAt(r, m.part)
    /\ m.fin <=> m.part = last[r]
    /\ m.fin \/ kind[r] = "direct" => srv[r] = "sent"

Sender(r) ==
    /\ srv[r] = "idle" => next[r] = 0
    /\ srv[r] = "send" => next[r] <= last[r]
    /\ kind[r] = "direct" => next[r] <= 1 /\ (srv[r] = "send" => next[r] = 0)
    /\ next[r] <= last[r] + 1
    /\ \A j \in 1 .. Len(wire) : wire[j].id = r => Genuine(r, wire[j])

InLoop(r) == loop # None /\ loop.id = r

Taking(r, e) ==
    /\ e = 0 => /\ fwd[r] = "none" /\ stored[r] = 0 /\ r \notin httpStreamSess
                /\ conn[r] = "none" /\ got[r] = <<>> /\ ~InLoop(r) /\ replies[r] = 0
    /\ kind[r] = "chunked" =>
          IF fwd[r] = "none" THEN stored[r] = e /\ conn[r] = "none" /\ replies[r] = 0
                             ELSE stored[r] = last[r] + 1 /\ e = last[r] + 1
    /\ r \in httpStreamSess =>
          /\ kind[r] = "stream" /\ Len(got[r]) = e /\ conn[r] = "open"
          /\ fwd[r] = "none" /\ replies[r] = 0 /\ ~InLoop(r)
    /\ InLoop(r) =>
          /\ kind[r] = "stream" /\ loop.part = e - 1 /\ Len(got[r]) = e - 1
          /\ conn[r] = (IF loop.part = 0 THEN "none" ELSE "open")
          /\ fwd[r] = "none" /\ replies[r] = 0 /\ Genuine(r, loop)
    /\ fwd[r] = "dial" =>
          /\ kind[r] # "stream" /\ conn[r] = "none" /\ replies[r] = 0 /\ srv[r] = "sent"
    /\ fwd[r] = "read" =>
          /\ conn[r] = "open" /\ replies[r] = 0
          /\ srv[r] = "sent" /\ Len(got[r]) = last[r] + 1
    /\ conn[r] = "open" => r \in httpStreamSess \/ InLoop(r) \/ fwd[r] = "read"
    /\ replies[r] <= 1
    /\ \A i \in 1 .. Len(got[r]) : got[r][i] = i - 1

Flow(r, e) ==
    /\ Run(wire, r, e, next[r])
    /\ link = "up" => Full(wire, r, e, next[r])
    /\ Taking(r, e)

Of(r) == Sender(r) /\ \E e \in 0 .. MaxPart + 1 : Flow(r, e)
IInv  == TypeOK /\ \A r \in Requests : Of(r)

-----------------------------------------------------------------------------
LEMMA Constants ==
    /\ MaxPart \in Nat /\ Window \in Nat /\ Window > 0
    /\ None \notin Nat /\ None \notin Frames
BY PathAssumption

LEMMA Parts ==
    ASSUME NEW w \in Seq(Frames), NEW j \in 1 .. Len(w)
    PROVE  w[j] \in Frames /\ w[j].part \in Nat /\ w[j].part <= MaxPart
<1>1. w[j] \in Frames
  OBVIOUS
<1>. QED BY <1>1, Constants DEF Frames

LEMMA AppendOther ==
    ASSUME NEW w \in Seq(Frames), NEW m \in Frames, NEW r, NEW e \in Nat, NEW n \in Nat,
           Run(w, r, e, n), m.id # r
    PROVE  /\ Run(Append(w, m), r, e, n)
           /\ Full(w, r, e, n) => Full(Append(w, m), r, e, n)
<1>. DEFINE v == Append(w, m)
<1>1. /\ Len(v) = Len(w) + 1 /\ Len(w) \in Nat
      /\ \A j \in 1 .. Len(w) : v[j] = w[j]
      /\ v[Len(w) + 1] = m
  OBVIOUS
<1>. HIDE DEF v
<1>2. Run(v, r, e, n)
  BY <1>1 DEF Run
<1>3. Full(w, r, e, n) => Full(v, r, e, n)
  BY <1>1 DEF Full
<1>. QED BY <1>2, <1>3 DEF v

LEMMA AppendOwn ==
    ASSUME NEW w \in Seq(Frames), NEW m \in Frames, NEW r, NEW e \in Nat, NEW n \in Nat,
           Run(w, r, e, n), Full(w, r, e, n), m.id = r, m.part = n
    PROVE  /\ Run(Append(w, m), r, e, n + 1)
           /\ Full(Append(w, m), r, e, n + 1)
<1>. DEFINE v == Append(w, m)
<1>1. /\ Len(v) = Len(w) + 1 /\ Len(w) \in Nat
      /\ \A j \in 1 .. Len(w) : v[j] = w[j]
      /\ v[Len(w) + 1] = m
  OBVIOUS
<1>. HIDE DEF v
<1>2. \A j \in 1 .. Len(w) : w[j].part \in Nat
  BY Parts
<1>3. Run(v, r, e, n + 1)
  <2>1. ASSUME NEW j \in 1 .. Len(v), v[j].id = r
        PROVE  /\ v[j].part >= e /\ v[j].part < n + 1
               /\ \/ v[j].part = e
                  \/ \E i \in 1 .. j - 1 : v[i].id = r /\ v[i].part = v[j].part - 1
               /\ \A i \in 1 .. j - 1 : v[i].id = r => v[i].part < v[j].part
    <3>1. CASE j \in 1 .. Len(w)
      <4>1. v[j] = w[j] /\ \A i \in 1 .. j - 1 : v[i] = w[i]
        BY <1>1, <3>1
      <4>2. /\ w[j].part >= e /\ w[j].part < n
            /\ \/ w[j].part = e
               \/ \E i \in 1 .. j - 1 : w[i].id = r /\ w[i].part = w[j].part - 1
            /\ \A i \in 1 .. j - 1 : w[i].id = r => w[i].part < w[j].part
        BY <2>1, <3>1, <4>1 DEF Run
      <4>3. w[j].part < n + 1
        BY <1>2, <3>1, <4>2
      <4>. QED BY <4>1, <4>2, <4>3
    <3>2. CASE j = Len(w) + 1
      <4>1. v[j].part = n /\ e <= n
        BY <1>1, <3>2 DEF Run
      <4>2. n = e \/ \E i \in 1 .. j - 1 : v[i].id = r /\ v[i].part = n - 1
        <5>1. CASE n = e
          BY <5>1
        <5>2. ASSUME NEW i \in 1 .. Len(w), w[i].id = r, w[i].part = n - 1
              PROVE  i \in 1 .. j - 1 /\ v[i].id = r /\ v[i].part = n - 1
          BY <1>1, <3>2, <5>2
        <5>. QED BY <5>1, <5>2 DEF Full
      <4>3. \A i \in 1 .. j - 1 : v[i].id = r => v[i].part < n
        <5>1. ASSUME NEW i \in 1 .. j - 1, v[i].id = r
              PROVE  i \in 1 .. Len(w) /\ w[i].id = r /\ v[i] = w[i]
          BY <1>1, <3>2, <5>1
        <5>. QED BY <5>1 DEF Run
      <4>. QED BY <4>1, <4>2, <4>3
    <3>. QED BY <1>1, <3>1, <3>2
  <2>2. e <= n + 1
    BY DEF Run
  <2>. QED BY <2>1, <2>2 DEF Run
<1>4. Full(v, r, e, n + 1)
  BY <1>1 DEF Full
<1>. QED BY <1>3, <1>4 DEF v

LEMMA TailFacts ==
    ASSUME NEW w \in Seq(Frames), w # <<>>
    PROVE  /\ Len(w) \in Nat /\ Len(w) > 0 /\ Head(w) = w[1] /\ Head(w) \in Frames
           /\ Tail(w) \in Seq(Frames) /\ Len(Tail(w)) = Len(w) - 1
           /\ \A j \in 1 .. Len(Tail(w)) : Tail(w)[j] = w[j + 1]
           /\ \A j \in 1 .. Len(w) : w[j].part \in Nat
<1>1. Len(w) \in Nat /\ Len(w) > 0 /\ Head(w) = w[1]
  OBVIOUS
<1>2. Tail(w) \in Seq(Frames) /\ Len(Tail(w)) = Len(w) - 1
  OBVIOUS
<1>3. \A j \in 1 .. Len(Tail(w)) : Tail(w)[j] = w[j + 1]
  OBVIOUS
<1>4. \A j \in 1 .. Len(w) : w[j].part \in Nat
  BY Parts
<1>5. w[1] \in Frames
  BY <1>1, Parts
<1>. QED BY <1>1, <1>2, <1>3, <1>4, <1>5

LEMMA TailOther ==
    ASSUME NEW w \in Seq(Frames), w # <<>>, NEW r, NEW e \in Nat, NEW n \in Nat,
           Run(w, r, e, n), Head(w).id # r
    PROVE  /\ Run(Tail(w), r, e, n)
           /\ Full(w, r, e, n) => Full(Tail(w), r, e, n)
<1>. DEFINE v == Tail(w)
<1>1. /\ Len(w) \in Nat /\ Len(w) > 0 /\ w[1].id # r
      /\ Len(v) = Len(w) - 1 /\ \A j \in 1 .. Len(v) : v[j] = w[j + 1]
  BY TailFacts
<1>. HIDE DEF v
<1>2. ASSUME NEW j \in 1 .. Len(v), v[j].id = r
      PROVE  /\ v[j].part >= e /\ v[j].part < n
             /\ \/ v[j].part = e
                \/ \E i \in 1 .. j - 1 : v[i].id = r /\ v[i].part = v[j].part - 1
             /\ \A i \in 1 .. j - 1 : v[i].id = r => v[i].part < v[j].part
  <2>1. j + 1 \in 1 .. Len(w) /\ w[j + 1].id = r /\ v[j] = w[j + 1]
    BY <1>1, <1>2
  <2>2. /\ v[j].part >= e /\ v[j].part < n
        /\ \A i \in 1 .. j : w[i].id = r => w[i].part < v[j].part
    BY <2>1 DEF Run
  <2>3. v[j].part = e \/ \E i \in 1 .. j : w[i].id = r /\ w[i].part = v[j].part - 1
    BY <2>1 DEF Run
  <2>4. \A i \in 1 .. j - 1 : v[i] = w[i + 1] /\ i + 1 \in 1 .. j
    BY <1>1
  <2>5. ASSUME NEW i \in 1 .. j, w[i].id = r, w[i].part = v[j].part - 1
        PROVE  \E k \in 1 .. j - 1 : v[k].id = r /\ v[k].part = v[j].part - 1
    <3>1. i # 1 /\ i - 1 \in 1 .. j - 1 /\ v[i - 1] = w[i]
      BY <1>1, <2>4, <2>5
    <3>. QED BY <2>5, <3>1
  <2>. QED BY <2>2, <2>3, <2>4, <2>5
<1>3. Run(v, r, e, n)
  BY <1>2 DEF Run
<1>4. ASSUME Full(w, r, e, n)
      PROVE  Full(v, r, e, n)
  <2>1. ASSUME NEW j \in 1 .. Len(w), w[j].id = r, w[j].part = n - 1
        PROVE  j - 1 \in 1 .. Len(v) /\ v[j - 1] = w[j]
    BY <1>1, <2>1
  <2>. QED BY <1>4, <2>1 DEF Full
<1>. QED BY <1>3, <1>4 DEF v

LEMMA TailOwn ==
    ASSUME NEW w \in Seq(Frames), w # <<>>, NEW r, NEW e \in Nat, NEW n \in Nat,
           Run(w, r, e, n), Head(w).id = r
    PROVE  /\ Head(w).part = e /\ e < n
           /\ Run(Tail(w), r, e + 1, n)
           /\ Full(w, r, e, n) => Full(Tail(w), r, e + 1, n)
<1>. DEFINE v == Tail(w)
<1>1. /\ Len(w) \in Nat /\ Len(w) > 0 /\ Head(w) = w[1]
      /\ Len(v) = Len(w) - 1 /\ \A j \in 1 .. Len(v) : v[j] = w[j + 1]
      /\ \A j \in 1 .. Len(w) : w[j].part \in Nat
  BY TailFacts
<1>. HIDE DEF v
<1>2. w[1].id = r /\ w[1].part = e /\ e < n
  BY <1>1 DEF Run
<1>3. ASSUME NEW j \in 1 .. Len(v), v[j].id = r
      PROVE  /\ v[j].part >= e + 1 /\ v[j].part < n
             /\ \/ v[j].part = e + 1
                \/ \E i \in 1 .. j - 1 : v[i].id = r /\ v[i].part = v[j].part - 1
             /\ \A i \in 1 .. j - 1 : v[i].id = r => v[i].part < v[j].part
  <2>1. j + 1 \in 1 .. Len(w) /\ w[j + 1].id = r /\ v[j] = w[j + 1] /\ v[j].part \in Nat
    BY <1>1, <1>3
  <2>2. /\ v[j].part < n
        /\ \A i \in 1 .. j : w[i].id = r => w[i].part < v[j].part
    BY <2>1 DEF Run
  <2>3. v[j].part = e \/ \E i \in 1 .. j : w[i].id = r /\ w[i].part = v[j].part - 1
    BY <2>1 DEF Run
  <2>4. \A i \in 1 .. j - 1 : v[i] = w[i + 1] /\ i + 1 \in 1 .. j
    BY <1>1
  <2>5. e < v[j].part
    BY <1>1, <1>2, <2>2
  <2>6. ASSUME NEW i \in 1 .. j, w[i].id = r, w[i].part = v[j].part - 1
        PROVE  \/ v[j].part = e + 1
               \/ \E k \in 1 .. j - 1 : v[k].id = r /\ v[k].part = v[j].part - 1
    <3>1. CASE i = 1
      BY <1>2, <2>1, <2>6, <3>1
    <3>2. CASE i # 1
      <4>1. i - 1 \in 1 .. j - 1 /\ v[i - 1] = w[i]
        BY <2>4, <3>2
      <4>. QED BY <2>6, <4>1
    <3>. QED BY <3>1, <3>2
  <2>7. v[j].part >= e + 1
    BY <2>1, <2>5
  <2>8. \/ v[j].part = e + 1
        \/ \E k \in 1 .. j - 1 : v[k].id = r /\ v[k].part = v[j].part - 1
    BY <2>3, <2>5, <2>6
  <2>9. \A i \in 1 .. j - 1 : v[i].id = r => v[i].part < v[j].part
    BY <2>2, <2>4
  <2>. QED BY <2>2, <2>7, <2>8, <2>9
<1>4. Run(v, r, e + 1, n)
  BY <1>2, <1>3 DEF Run
<1>5. ASSUME Full(w, r, e, n)
      PROVE  Full(v, r, e + 1, n)
  <2>1. PICK j \in 1 .. Len(w) : w[j].id = r /\ w[j].part = n - 1
    BY <1>2, <1>5 DEF Full
  <2>2. CASE j = 1
    BY <1>2, <2>1, <2>2 DEF Full
  <2>3. CASE j # 1
    <3>1. j - 1 \in 1 .. Len(v) /\ v[j - 1] = w[j]
      BY <1>1, <2>3
    <3>. QED BY <2>1, <3>1 DEF Full
  <2>. QED BY <2>2, <2>3
<1>. QED BY <1>1, <1>2, <1>4, <1>5 DEF v

-----------------------------------------------------------------------------
(* A step of one request leaves the others as they are *)

Same(q) ==
    /\ srv'[q] = srv[q] /\ kind'[q] = kind[q] /\ last'[q] = last[q] /\ next'[q] = next[q]
    /\ q \in httpStreamSess' <=> q \in httpStreamSess
    /\ stored'[q] = stored[q] /\ conn'[q] = conn[q] /\ got'[q] = got[q]
    /\ fwd'[q] = fwd[q] /\ replies'[q] = replies[q]
    /\ InLoop(q)' <=> InLoop(q)
    /\ InLoop(q) => loop' = loop

WireOf(q) ==
    \/ wire' = wire
    \/ wire' = <<>> /\ link' # "up"
    \/ wire # <<>> /\ Head(wire).id # q /\ wire' = Tail(wire)
    \/ \E m \in Frames : m.id # q /\ wire' = Append(wire, m)

\* What Genuine says of the frames on the wire, for those that stay.
LEMMA WireSame ==
    ASSUME TypeOK, NEW q \in Requests, WireOf(q), NEW j \in 1 .. Len(wire'), wire'[j].id = q
    PROVE  \E i \in 1 .. Len(wire) : wire[i] = wire'[j] /\ wire[i].id = q
<1>1. wire \in Seq(Frames)
  BY DEF TypeOK
<1>2. CASE wire' = wire
  BY <1>2
<1>3. CASE wire' = <<>>
  BY <1>3
<1>4. CASE wire # <<>> /\ wire' = Tail(wire)
  <2>1. j + 1 \in 1 .. Len(wire) /\ wire'[j] = wire[j + 1]
    BY <1>1, <1>4, TailFacts
  <2>. QED BY <2>1
<1>5. ASSUME NEW m \in Frames, m.id # q, wire' = Append(wire, m)
      PROVE  \E i \in 1 .. Len(wire) : wire[i] = wire'[j] /\ wire[i].id = q
  <2>1. /\ Len(wire') = Len(wire) + 1 /\ Len(wire) \in Nat
        /\ \A i \in 1 .. Len(wire) : wire'[i] = wire[i]
        /\ wire'[Len(wire) + 1] = m
    BY <1>1, <1>5
  <2>2. j # Len(wire) + 1
    BY <1>5, <2>1
  <2>. QED BY <2>1, <2>2
<1>. QED BY <1>2, <1>3, <1>4, <1>5 DEF WireOf

LEMMA RunSame ==
    ASSUME TypeOK, NEW q \in Requests, WireOf(q), NEW e \in Nat,
           Run(wire, q, e, next[q])
    PROVE  /\ Run(wire', q, e, next[q])
           /\ link' = "up" /\ Full(wire, q, e, next[q]) => Full(wire', q, e, next[q])
<1>1. wire \in Seq(Frames) /\ next[q] \in Nat
  BY Constants DEF TypeOK
<1>2. CASE wire' = wire
  BY <1>2
<1>3. CASE wire' = <<>> /\ link' # "up"
  <2>1. Len(wire') = 0
    BY <1>3
  <2>. QED BY <1>3, <2>1 DEF Run
<1>4. CASE wire # <<>> /\ Head(wire).id # q /\ wire' = Tail(wire)
  BY <1>1, <1>4, TailOther
<1>5. ASSUME NEW m \in Frames, m.id # q, wire' = Append(wire, m)
      PROVE  /\ Run(wire', q, e, next[q])
             /\ Full(wire, q, e, next[q]) => Full(wire', q, e, next[q])
  BY <1>1, <1>5, AppendOther
<1>. QED BY <1>2, <1>3, <1>4, <1>5 DEF WireOf

LEMMA OthersStay ==
    ASSUME IInv, NEW q \in Requests, Same(q), WireOf(q), link' = "up" => link = "up"
    PROVE  Of(q)'
<1>1. TypeOK /\ Sender(q)
  BY DEF IInv, Of
<1>2. PICK e \in 0 .. MaxPart + 1 : Flow(q, e)
  BY DEF IInv, Of
<1>3. e \in Nat
  BY Constants
<1>5. Sender(q)'
  <2>1. ASSUME NEW j \in 1 .. Len(wire'), wire'[j].id = q
        PROVE  Genuine(q, wire[j])'
    <3>1. PICK i \in 1 .. Len(wire) : wire[i] = wire'[j] /\ wire[i].id = q
      BY <1>1, <2>1, WireSame
    <3>2. Genuine(q, wire[i])
      BY <1>1, <3>1 DEF Sender
    <3>. QED BY <3>1, <3>2 DEF Same, Genuine, TypeAt
  <2>2. /\ srv'[q] = "idle" => next'[q] = 0
        /\ srv'[q] = "send" => next'[q] <= last'[q]
        /\ kind'[q] = "direct" => next'[q] <= 1 /\ (srv'[q] = "send" => next'[q] = 0)
        /\ next'[q] <= last'[q] + 1
    BY <1>1 DEF Sender, Same
  <2>. QED BY <2>1, <2>2 DEF Sender
<1>6. Taking(q, e)'
  <2>1. InLoop(q) => loop'.part = loop.part /\ (Genuine(q, loop) => Genuine(q, loop)')
    BY DEF Same, Genuine, TypeAt
  <2>. QED BY <1>2, <2>1 DEF Flow, Taking, Same
<1>7. Run(wire, q, e, next[q])' /\ (link' = "up" => Full(wire, q, e, next[q])')
  BY <1>1, <1>2, <1>3, RunSame DEF Flow, Same
<1>. QED BY <1>5, <1>6, <1>7 DEF Of, Flow

-----------------------------------------------------------------------------
LEMMA InitOK == Init => IInv
<1>. SUFFICES ASSUME Init PROVE IInv
  OBVIOUS
<1>. USE Constants
<1>1. TypeOK
  <2>1. wire \in Seq(Frames) /\ got \in [Requests -> Seq(0 .. MaxPart)]
    BY DEF Init
  <2>2. /\ kind \in [Requests -> Kinds] /\ last \in [Requests -> 0 .. MaxPart]
        /\ next \in [Requests -> 0 .. MaxPart + 1] /\ stored \in [Requests -> 0 .. MaxPart + 1]
        /\ SendWindow \in [Requests -> 0 .. Window \cup {None}]
    BY DEF Init, Kinds
  <2>. QED BY <2>1, <2>2 DEF Init, TypeOK
<1>2. ASSUME NEW r \in Requests
      PROVE  Of(r)
  <2>1. Len(wire) = 0
    BY DEF Init
  <2>2. Sender(r)
    BY <2>1 DEF Init, Sender
  <2>3. Run(wire, r, 0, next[r]) /\ Full(wire, r, 0, next[r])
    BY <2>1 DEF Init, Run, Full
  <2>4. Taking(r, 0)
    BY DEF Init, Taking, InLoop
  <2>. QED BY <2>2, <2>3, <2>4 DEF Of, Flow
<1>. QED BY <1>1, <1>2 DEF IInv

-----------------------------------------------------------------------------
(* The server *)

LEMMA BeginStep ==
    ASSUME IInv, NEW r \in Requests, Begin(r)
    PROVE  IInv'
<1>. USE Constants
<1>1. PICK k \in Ways, n \in 0 .. MaxPart :
         /\ srv[r] = "idle" /\ srv' = [srv EXCEPT ![r] = "send"]
         /\ kind' = [kind EXCEPT ![r] = k] /\ last' = [last EXCEPT ![r] = n]
         /\ SendWindow' = IF k = "chunked" /\ "FlowControl" \in caps
                           THEN [SendWindow EXCEPT ![r] = 0] ELSE SendWindow
         /\ UNCHANGED <<caps, link, destroyed, next, wire, loop, httpStreamSess, stored, fwd,
                        replies, conn, got>>
  BY DEF Begin, InitializeStream, session, client, upstream
<1>2. TypeOK /\ k \in Kinds
  BY DEF IInv, Ways, Kinds
<1>3. TypeOK'
  BY <1>1, <1>2 DEF TypeOK
<1>4. ASSUME NEW q \in Requests, q # r
      PROVE  Of(q)'
  <2>1. Same(q) /\ WireOf(q) /\ link' = link
    BY <1>1, <1>2, <1>4 DEF TypeOK, Same, WireOf, InLoop
  <2>. QED BY <2>1, OthersStay
<1>5. Of(r)'
  <2>1. PICK e \in 0 .. MaxPart + 1 : Flow(r, e)
    BY DEF IInv, Of
  <2>2. e = 0 /\ next[r] = 0 /\ \A j \in 1 .. Len(wire) : wire[j].id # r
    <3>1. next[r] = 0 /\ e \in Nat
      BY <1>1 DEF IInv, Of, Sender
    <3>2. e = 0
      BY <2>1, <3>1 DEF Flow, Run
    <3>3. \A j \in 1 .. Len(wire) : wire[j].part \in Nat
      BY <1>2, Parts DEF TypeOK
    <3>. QED BY <2>1, <3>1, <3>2, <3>3 DEF Flow, Run
  <2>3. Sender(r)'
    BY <1>1, <1>2, <2>2 DEF Sender, TypeOK
  <2>4. Flow(r, e)'
    BY <1>1, <1>2, <2>1, <2>2 DEF Flow, Taking, TypeOK, InLoop
  <2>. QED BY <2>3, <2>4 DEF Of
<1>. QED BY <1>3, <1>4, <1>5 DEF IInv

\* What a send leaves alone.
SendOnly == UNCHANGED <<link, kind, last, loop, httpStreamSess, stored, fwd, replies, conn, got>>

LEMMA FailsOf ==
    ASSUME IInv, NEW r \in Requests, srv[r] = "send", Fails(r), SendOnly,
           NEW q \in Requests
    PROVE  Of(q)'
<1>1. /\ TypeOK /\ srv' = [srv EXCEPT ![r] = "failed"] /\ wire' = wire /\ next' = next
      /\ link' = link
  BY DEF IInv, Fails, SendOnly
<1>2. CASE q # r
  <2>1. Same(q) /\ WireOf(q)
    BY <1>1, <1>2 DEF TypeOK, Same, WireOf, InLoop, SendOnly
  <2>. QED BY <1>1, <2>1, OthersStay
<1>3. CASE q = r
  <2>1. srv'[r] = "failed" /\ srv[r] # "sent"
    BY <1>1 DEF TypeOK
  <2>2. Sender(r)'
    BY <1>1, <2>1 DEF IInv, Of, Sender, Genuine, TypeAt, SendOnly
  <2>3. PICK e \in 0 .. MaxPart + 1 : Flow(r, e)
    BY DEF IInv, Of
  <2>4. InLoop(r) => (Genuine(r, loop) => Genuine(r, loop)')
    BY <2>1 DEF Genuine, TypeAt, SendOnly
  <2>5. Flow(r, e)'
    BY <1>1, <2>1, <2>3, <2>4 DEF Flow, Taking, InLoop, SendOnly
  <2>. QED BY <1>3, <2>2, <2>5 DEF Of
<1>. QED BY <1>2, <1>3

LEMMA WriteOf ==
    ASSUME IInv, NEW r \in Requests, srv[r] = "send", Write(r), SendOnly,
           NEW q \in Requests
    PROVE  Of(q)'
<1>. USE Constants
<1>1. /\ TypeOK /\ link' = link
      /\ wire' = IF link = "up" THEN Append(wire, Frame(r)) ELSE wire
      /\ next' = [next EXCEPT ![r] = @ + 1]
      /\ srv' = IF Fin(r) \/ kind[r] = "direct" THEN [srv EXCEPT ![r] = "sent"] ELSE srv
  BY DEF IInv, Write, SendOnly
<1>2. /\ next[r] \in Nat /\ next[r] <= last[r] /\ last[r] \in 0 .. MaxPart /\ Sender(r)
      /\ kind[r] \in Kinds
  <2>1. Sender(r)
    BY DEF IInv, Of
  <2>2. next[r] <= last[r]
    BY <2>1 DEF Sender
  <2>. QED BY <1>1, <2>1, <2>2 DEF TypeOK
<1>3. Frame(r) \in Frames /\ Frame(r).id = r /\ Frame(r).part = next[r]
  BY <1>2 DEF Frame, Frames, Type, Fin, Kinds
<1>4. CASE q # r
  <2>1. Same(q)
    BY <1>1, <1>4 DEF TypeOK, Same, InLoop, SendOnly
  <2>2. WireOf(q)
    BY <1>1, <1>3, <1>4 DEF WireOf
  <2>. QED BY <1>1, <2>1, <2>2, OthersStay
<1>5. CASE q = r
  <2>1. next'[r] = next[r] + 1 /\ kind'[r] = kind[r] /\ last'[r] = last[r]
    BY <1>1 DEF TypeOK, SendOnly
  <2>2. srv'[r] = IF next[r] = last[r] \/ kind[r] = "direct" THEN "sent" ELSE "send"
    BY <1>1 DEF TypeOK, Fin
  <2>3. /\ Frame(r).type = TypeAt(r, next[r]) /\ Frame(r).part = next[r]
        /\ Frame(r).fin = (next[r] = last[r])
    BY DEF TypeAt, Frame, Type, Fin
  <2>4. ASSUME NEW j \in 1 .. Len(wire'), wire'[j].id = r
        PROVE  Genuine(r, wire[j])'
    <3>1. CASE j \in 1 .. Len(wire) /\ wire'[j] = wire[j]
      BY <1>2, <2>1, <2>2, <2>4, <3>1 DEF Sender, Genuine, TypeAt
    <3>2. CASE wire'[j] = Frame(r)
      BY <2>1, <2>2, <2>3, <3>2 DEF Genuine, TypeAt
    <3>. QED BY <1>1, <3>1, <3>2 DEF TypeOK
  <2>5. Sender(r)'
    BY <1>2, <2>1, <2>2, <2>4 DEF Sender
  <2>6. PICK e \in 0 .. MaxPart + 1 : Flow(r, e)
    BY DEF IInv, Of
  <2>7. Run(wire, r, e, next[r])' /\ (link' = "up" => Full(wire, r, e, next[r])')
    <3>1. CASE link = "up"
      <4>1. wire \in Seq(Frames) /\ e \in Nat
        BY <1>1 DEF TypeOK
      <4>2. Run(wire, r, e, next[r]) /\ Full(wire, r, e, next[r])
        BY <2>6, <3>1 DEF Flow
      <4>. QED BY <1>1, <1>2, <1>3, <2>1, <3>1, <4>1, <4>2, AppendOwn
    <3>2. CASE link # "up"
      <4>1. \A j \in 1 .. Len(wire) : wire[j].part \in Nat
        BY <1>1, Parts DEF TypeOK
      <4>. QED BY <1>1, <1>2, <2>1, <2>6, <3>2, <4>1 DEF Flow, Run
    <3>. QED BY <3>1, <3>2
  <2>8. InLoop(r) => (Genuine(r, loop) => Genuine(r, loop)')
    BY <2>1, <2>2 DEF Genuine, TypeAt, SendOnly
  <2>9. Taking(r, e)'
    BY <1>2, <2>1, <2>2, <2>6, <2>8 DEF Flow, Taking, InLoop, SendOnly
  <2>. QED BY <1>5, <2>5, <2>7, <2>9 DEF Of, Flow
<1>. QED BY <1>4, <1>5

LEMMA AttemptOK ==
    ASSUME IInv, NEW r \in Requests, srv[r] = "send", Attempt(r) \/ Fails(r), SendOnly,
           UNCHANGED <<caps, destroyed>>, SendWindow' \in [Requests -> 0 .. Window \cup {None}]
    PROVE  IInv'
<1>. USE Constants
<1>1. TypeOK'
  <2>1. TypeOK /\ next[r] <= last[r] /\ last[r] \in 0 .. MaxPart /\ next[r] \in Nat
        /\ kind[r] \in Kinds
    BY DEF IInv, Of, Sender, TypeOK
  <2>2. Frame(r) \in Frames
    BY <2>1 DEF Frame, Frames, Type, Fin, Kinds
  <2>3. wire' \in Seq(Frames)
    <3>1. wire' = wire \/ wire' = Append(wire, Frame(r))
      BY DEF Attempt, Write, Fails
    <3>2. wire \in Seq(Frames)
      BY <2>1 DEF TypeOK
    <3>. QED BY <2>2, <3>1, <3>2
  <2>4. next' \in [Requests -> 0 .. MaxPart + 1]
    BY <2>1 DEF TypeOK, Attempt, Write, Fails
  <2>5. srv' \in [Requests -> {"idle", "send", "sent", "failed"}]
    BY ZenonT(40), <2>1 DEF TypeOK, Attempt, Write, Fails
  <2>. QED BY <2>1, <2>3, <2>4, <2>5 DEF TypeOK, SendOnly
<1>2. \A q \in Requests : Of(q)'
  BY FailsOf, WriteOf DEF Attempt
<1>. QED BY <1>1, <1>2 DEF IInv

LEMMA SendingStep ==
    ASSUME IInv, NEW r \in Requests, Sending(r)
    PROVE  IInv'
<1>. USE Constants
<1>1. srv[r] = "send" /\ (Attempt(r) \/ Fails(r)) /\ SendOnly /\ UNCHANGED <<caps, destroyed>>
  BY DEF Sending, SendDirect, SendPart, BodyCut, SendChunk, GiveUp, SendOnly, session, client,
         upstream
<1>2. SendWindow \in [Requests -> 0 .. Window \cup {None}]
  BY DEF IInv, TypeOK
<1>3. Used(r) \in 0 .. Window
  BY <1>2 DEF Used
<1>4. SendWindow' \in [Requests -> 0 .. Window \cup {None}]
  BY <1>2, <1>3 DEF Sending, SendDirect, SendPart, BodyCut, SendChunk, GiveUp, TrySend, Admits
<1>. QED BY <1>1, <1>4, AttemptOK

-----------------------------------------------------------------------------
(* The network *)

LEMMA NetworkStep ==
    ASSUME IInv, Destroy \/ Lose \/ Cut
    PROVE  IInv'
<1>1. /\ wire' = wire \/ (wire' = <<>> /\ link' # "up")
      /\ link' = "up" => link = "up"
      /\ UNCHANGED <<caps, srv, kind, last, next, loop, httpStreamSess, stored, fwd, replies,
                     conn, got>>
  BY DEF Destroy, Lose, Cut, session, sender, client, upstream
<1>2. TypeOK'
  <2>1. TypeOK
    BY DEF IInv
  <2>2. wire' \in Seq(Frames)
    <3>1. wire \in Seq(Frames)
      BY <2>1 DEF TypeOK
    <3>2. <<>> \in Seq(Frames)
      OBVIOUS
    <3>3. CASE wire' = wire
      BY <3>1, <3>3
    <3>4. CASE wire' = <<>>
      BY <3>2, <3>4
    <3>. QED BY <1>1, <3>3, <3>4
  <2>3. link' \in {"up", "lost"} /\ destroyed' \in BOOLEAN
    BY <2>1 DEF TypeOK, Destroy, Lose, Cut, session
  <2>4. SendWindow' \in [Requests -> 0 .. Window \cup {None}]
    BY <2>1 DEF TypeOK, Destroy, Lose, Cut, sender
  <2>. QED BY <1>1, <2>1, <2>2, <2>3, <2>4 DEF TypeOK
<1>3. ASSUME NEW q \in Requests
      PROVE  Of(q)'
  <2>1. Same(q) /\ WireOf(q)
    BY <1>1 DEF Same, WireOf, InLoop
  <2>. QED BY <1>1, <2>1, OthersStay
<1>. QED BY <1>2, <1>3 DEF IInv

-----------------------------------------------------------------------------
(* The client *)

\* What is known of the frame that is read next, and of what is behind it.
LEMMA NextFrame ==
    ASSUME IInv, wire # <<>>, NEW r \in Requests, Head(wire).id = r
    PROVE  /\ Genuine(r, Head(wire)) /\ Head(wire) \in Frames
           /\ \E e \in 0 .. MaxPart :
                 /\ Flow(r, e) /\ Head(wire).part = e /\ e < next[r]
                 /\ Run(Tail(wire), r, e + 1, next[r])
                 /\ link = "up" => Full(Tail(wire), r, e + 1, next[r])
<1>. USE Constants
<1>1. wire \in Seq(Frames) /\ next[r] \in 0 .. MaxPart + 1
  BY DEF IInv, TypeOK
<1>2. Sender(r)
  BY DEF IInv, Of
<1>3. Len(wire) \in Nat /\ 1 \in 1 .. Len(wire) /\ Head(wire) = wire[1] /\ Head(wire) \in Frames
  BY <1>1, TailFacts
<1>4. Genuine(r, Head(wire))
  BY <1>2, <1>3 DEF Sender
<1>5. PICK e \in 0 .. MaxPart + 1 : Flow(r, e)
  BY DEF IInv, Of
<1>6. Run(wire, r, e, next[r]) /\ (link = "up" => Full(wire, r, e, next[r]))
  BY <1>5 DEF Flow
<1>7. /\ Head(wire).part = e /\ e < next[r]
      /\ Run(Tail(wire), r, e + 1, next[r])
      /\ link = "up" => Full(Tail(wire), r, e + 1, next[r])
  BY <1>1, <1>6, TailOwn
<1>8. e \in 0 .. MaxPart
  BY <1>1, <1>7
<1>. QED BY <1>3, <1>4, <1>5, <1>7, <1>8

\* What is left of the wire keeps to the kind of its request.
LEMMA SenderStays ==
    ASSUME IInv, NEW r \in Requests, wire # <<>>, wire' = Tail(wire),
           UNCHANGED <<srv, kind, last, next>>
    PROVE  Sender(r)'
<1>1. wire \in Seq(Frames) /\ Sender(r)
  BY DEF IInv, TypeOK, Of
<1>2. ASSUME NEW j \in 1 .. Len(wire'), wire'[j].id = r
      PROVE  Genuine(r, wire[j])'
  <2>1. j + 1 \in 1 .. Len(wire) /\ wire'[j] = wire[j + 1]
    BY <1>1, TailFacts
  <2>. QED BY <1>1, <1>2, <2>1 DEF Sender, Genuine, TypeAt
<1>. QED BY <1>1, <1>2 DEF Sender

ReadsOnly ==
    /\ loop = None /\ wire # <<>> /\ wire' = Tail(wire)
    /\ UNCHANGED <<caps, link, destroyed, srv, kind, last, next, SendWindow, replies, conn, got>>

LEMMA ClientReadsStep ==
    ASSUME IInv, ClientReads
    PROVE  IInv'
<1>. USE Constants
<1>1. ReadsOnly
  BY DEF ClientReads, ReadsOnly, session, sender, upstream
<1>2. TypeOK
  BY DEF IInv
<1>3. PICK m \in Frames, r \in Requests :
         m = Head(wire) /\ r = m.id /\ Tail(wire) \in Seq(Frames)
  <2>1. Head(wire) \in Frames /\ Tail(wire) \in Seq(Frames)
    BY <1>1, <1>2, TailFacts DEF TypeOK, ReadsOnly
  <2>2. Head(wire).id \in Requests
    BY <2>1 DEF Frames
  <2>. QED BY <2>1, <2>2
<1>4. Genuine(r, m)
  BY <1>1, <1>3, NextFrame DEF ReadsOnly
<1>5. PICK e \in 0 .. MaxPart :
         /\ Flow(r, e) /\ m.part = e /\ e < next[r]
         /\ Run(Tail(wire), r, e + 1, next[r])
         /\ link = "up" => Full(Tail(wire), r, e + 1, next[r])
  BY <1>1, <1>3, NextFrame DEF ReadsOnly
<1>6. Taking(r, e) /\ Sender(r)
  BY <1>3, <1>5 DEF Flow, IInv, Of
<1>7. /\ next[r] <= last[r] + 1 /\ last[r] \in Nat /\ next[r] \in Nat /\ kind[r] \in Kinds
      /\ kind[r] = "direct" => next[r] <= 1
  BY <1>2, <1>3, <1>6 DEF Sender, TypeOK
<1>8. /\ m.type = TypeAt(r, e) /\ (m.fin <=> e = last[r])
      /\ m.fin \/ kind[r] = "direct" => srv[r] = "sent"
  BY <1>4, <1>5 DEF Genuine
<1>9. ~InLoop(r) /\ e \in Nat /\ e + 1 \in 0 .. MaxPart + 1
  BY <1>1, <1>5 DEF ReadsOnly, InLoop
<1>10. SUFFICES /\ loop' \in Frames \cup {None} /\ httpStreamSess' \subseteq Requests
                /\ stored' \in [Requests -> 0 .. MaxPart + 1]
                /\ fwd' \in [Requests -> {"none", "dial", "read", "done"}]
                /\ \A q \in Requests : q # r => Same(q)
                /\ Taking(r, e + 1)'
  <2>1. ASSUME loop' \in Frames \cup {None}, httpStreamSess' \subseteq Requests,
               stored' \in [Requests -> 0 .. MaxPart + 1],
               fwd' \in [Requests -> {"none", "dial", "read", "done"}]
        PROVE  TypeOK'
    <3>1. wire' \in Seq(Frames)
      BY <1>1, <1>3 DEF ReadsOnly
    <3>. QED BY <1>1, <1>2, <2>1, <3>1 DEF TypeOK, ReadsOnly
  <2>2. ASSUME NEW q \in Requests, q # r, Same(q)
        PROVE  Of(q)'
    <3>1. WireOf(q) /\ link' = link
      BY <1>1, <1>3, <2>2 DEF WireOf, ReadsOnly
    <3>. QED BY <2>2, <3>1, OthersStay
  <2>3. ASSUME Taking(r, e + 1)' PROVE Of(r)'
    <3>1. Sender(r)'
      BY <1>1, <1>3, SenderStays DEF ReadsOnly
    <3>2. Run(wire, r, e + 1, next[r])' /\ (link' = "up" => Full(wire, r, e + 1, next[r])')
      BY <1>1, <1>5 DEF ReadsOnly
    <3>3. Flow(r, e + 1)'
      BY <2>3, <3>2 DEF Flow
    <3>. QED BY <1>9, <3>1, <3>3 DEF Of
  <2>. QED BY <2>1, <2>2, <2>3 DEF IInv
<1>11. /\ srv'[r] = srv[r] /\ kind'[r] = kind[r] /\ last'[r] = last[r] /\ replies'[r] = replies[r]
       /\ conn'[r] = conn[r] /\ got'[r] = got[r]
  BY <1>1 DEF ReadsOnly
<1>12. CASE /\ m.type = "direct"
            /\ fwd' = [fwd EXCEPT ![r] = "dial"]
            /\ UNCHANGED <<loop, httpStreamSess, stored>>
  <2>1. kind[r] = "direct" /\ e = 0
    BY <1>5, <1>7, <1>8, <1>9, <1>12 DEF TypeAt, Kinds
  <2>2. /\ fwd'[r] = "dial" /\ r \notin httpStreamSess' /\ ~InLoop(r)' /\ conn[r] = "none"
        /\ got[r] = <<>> /\ replies[r] = 0 /\ srv[r] = "sent"
    BY <1>2, <1>3, <1>6, <1>8, <1>9, <1>12, <2>1 DEF Taking, TypeOK, InLoop
  <2>3. Taking(r, e + 1)'
    BY <1>9, <1>11, <2>1, <2>2 DEF Taking
  <2>. QED BY <1>1, <1>2, <1>12, <2>3 DEF TypeOK, Same, InLoop, ReadsOnly
<1>13. CASE /\ m.type = "chunked"
            /\ stored' = [stored EXCEPT ![r] = @ + 1]
            /\ fwd' = IF m.fin THEN [fwd EXCEPT ![r] = "dial"] ELSE fwd
            /\ UNCHANGED <<loop, httpStreamSess>>
  <2>1. kind[r] = "chunked"
    BY <1>7, <1>8, <1>13 DEF TypeAt, Kinds
  <2>2. fwd[r] = "none" /\ stored[r] = e /\ conn[r] = "none" /\ replies[r] = 0
    BY <1>5, <1>6, <1>7, <1>9, <2>1 DEF Taking
  <2>3. /\ stored'[r] = e + 1 /\ fwd'[r] = (IF e = last[r] THEN "dial" ELSE "none")
        /\ e = last[r] => srv[r] = "sent"
    BY <1>2, <1>3, <1>8, <1>13, <2>2 DEF TypeOK
  <2>4. /\ r \notin httpStreamSess' /\ ~InLoop(r)'
        /\ \A i \in 1 .. Len(got[r]) : got[r][i] = i - 1
    BY <1>6, <1>9, <1>13, <2>1 DEF Taking, InLoop
  <2>5. Taking(r, e + 1)'
    BY <1>9, <1>11, <2>1, <2>2, <2>3, <2>4 DEF Taking
  <2>6. stored' \in [Requests -> 0 .. MaxPart + 1]
    BY <1>2, <1>3, <1>9, <1>13, <2>2 DEF TypeOK
  <2>. QED BY <1>1, <1>2, <1>13, <2>5, <2>6 DEF TypeOK, Same, InLoop, ReadsOnly
<1>14. CASE /\ \/ m.type = "head" /\ r \notin httpStreamSess
               \/ m.type = "body" /\ r \in httpStreamSess
            /\ loop' = m
            /\ httpStreamSess' = httpStreamSess \ {r}
            /\ UNCHANGED <<stored, fwd>>
  <2>1. kind[r] = "stream" /\ (m.type = "head" <=> e = 0)
    BY <1>7, <1>8, <1>14 DEF TypeAt, Kinds
  <2>2. /\ Len(got[r]) = e /\ fwd[r] = "none" /\ replies[r] = 0
        /\ conn[r] = (IF e = 0 THEN "none" ELSE "open")
        /\ \A i \in 1 .. Len(got[r]) : got[r][i] = i - 1
    BY <1>6, <1>14, <2>1 DEF Taking
  <2>3. /\ r \notin httpStreamSess' /\ InLoop(r)' /\ loop'.part = e
        /\ Genuine(r, loop)' /\ fwd'[r] = "none"
    BY <1>3, <1>4, <1>5, <1>11, <1>14, <2>2 DEF InLoop, Genuine, TypeAt
  <2>4. Taking(r, e + 1)'
    BY <1>9, <1>11, <2>1, <2>2, <2>3 DEF Taking
  <2>5. \A q \in Requests : q # r => ~InLoop(q) /\ ~InLoop(q)'
    BY <1>1, <1>3, <1>14 DEF InLoop, ReadsOnly
  <2>6. \A q \in Requests : q # r => Same(q)
    BY <1>1, <1>14, <2>5 DEF Same, ReadsOnly
  <2>. QED BY <1>2, <1>3, <1>14, <2>4, <2>6 DEF TypeOK
<1>15. CASE /\ \/ m.type = "head" /\ r \in httpStreamSess
               \/ m.type = "body" /\ r \notin httpStreamSess
            /\ UNCHANGED <<loop, httpStreamSess, stored, fwd>>
  <2>1. kind[r] = "stream" /\ (m.type = "head" <=> e = 0)
    BY <1>7, <1>8, <1>15 DEF TypeAt, Kinds
  <2>2. r \notin httpStreamSess' /\ ~InLoop(r)' /\ fwd'[r] = fwd[r]
    BY <1>6, <1>9, <1>15, <2>1 DEF Taking, InLoop
  <2>3. Taking(r, e + 1)'
    BY <1>6, <1>9, <1>11, <1>15, <2>1, <2>2 DEF Taking, InLoop
  <2>. QED BY <1>1, <1>2, <1>15, <2>3 DEF TypeOK, Same, InLoop, ReadsOnly
<1>. QED BY <1>3, <1>12, <1>13, <1>14, <1>15 DEF ClientReads, Taken

\* A step of the client that reads nothing: only what Taking says of r can change.
ClientOnly ==
    UNCHANGED <<caps, link, destroyed, srv, kind, last, next, SendWindow, wire, stored>>

LEMMA ClientStep ==
    ASSUME IInv, NEW r \in Requests, ClientOnly,
           loop' \in {loop, None}, InLoop(r) \/ loop' = loop,
           \A q \in Requests : q # r =>
               /\ q \in httpStreamSess' <=> q \in httpStreamSess
               /\ conn'[q] = conn[q] /\ got'[q] = got[q] /\ fwd'[q] = fwd[q]
               /\ replies'[q] = replies[q],
           httpStreamSess' \subseteq Requests, conn' \in [Requests -> {"none", "open", "closed"}],
           got' \in [Requests -> Seq(0 .. MaxPart)],
           fwd' \in [Requests -> {"none", "dial", "read", "done"}],
           replies' \in [Requests -> Nat],
           NEW e \in 0 .. MaxPart + 1, Flow(r, e), Taking(r, e)'
    PROVE  IInv'
<1>1. TypeOK /\ Sender(r)
  BY DEF IInv, Of
<1>2. TypeOK'
  BY <1>1 DEF TypeOK, ClientOnly
<1>3. ASSUME NEW q \in Requests, q # r
      PROVE  Of(q)'
  <2>1. (InLoop(q)' <=> InLoop(q)) /\ (InLoop(q) => loop' = loop)
    BY <1>3 DEF InLoop
  <2>2. Same(q) /\ WireOf(q) /\ link' = link
    BY <1>3, <2>1 DEF Same, WireOf, ClientOnly
  <2>. QED BY <2>2, OthersStay
<1>4. Of(r)'
  <2>1. Sender(r)'
    BY <1>1 DEF Sender, Genuine, TypeAt, ClientOnly
  <2>2. Flow(r, e)'
    BY DEF Flow, ClientOnly
  <2>. QED BY <2>1, <2>2 DEF Of
<1>. QED BY <1>2, <1>3, <1>4 DEF IInv

\* The read loop has dealt with its frame.
LEMMA DoneStep ==
    ASSUME IInv, HeadDone \/ BodyDone
    PROVE  IInv'
<1>. USE Constants
<1>1. TypeOK /\ loop # None /\ loop' = None /\ ClientOnly
  BY DEF IInv, HeadDone, BodyDone, ClientOnly, session, sender
<1>2. PICK m \in Frames, r \in Requests : m = loop /\ r = m.id
  <2>1. loop \in Frames
    BY <1>1 DEF TypeOK
  <2>2. loop.id \in Requests
    BY <2>1 DEF Frames
  <2>. QED BY <2>1, <2>2
<1>3. PICK e \in 0 .. MaxPart + 1 : Flow(r, e)
  BY DEF IInv, Of
<1>4. Taking(r, e) /\ InLoop(r) /\ ~InLoop(r)'
  BY <1>1, <1>2, <1>3 DEF Flow, InLoop
<1>5. /\ kind[r] = "stream" /\ m.part = e - 1 /\ Len(got[r]) = e - 1 /\ fwd[r] = "none"
      /\ conn[r] = (IF m.part = 0 THEN "none" ELSE "open") /\ replies[r] = 0
      /\ Genuine(r, m) /\ r \notin httpStreamSess /\ e # 0
      /\ \A i \in 1 .. Len(got[r]) : got[r][i] = i - 1
  BY <1>2, <1>4 DEF Taking
<1>6. /\ m.fin => srv[r] = "sent" /\ e = last[r] + 1
      /\ m.type = "head" => m.part = 0
      /\ e \in Nat /\ m.part \in 0 .. MaxPart /\ last[r] \in Nat
  BY <1>1, <1>2, <1>5 DEF Genuine, TypeAt, Frames, TypeOK
<1>7. /\ kind'[r] = "stream" /\ stored'[r] = stored[r] /\ srv'[r] = srv[r] /\ last'[r] = last[r]
  BY <1>1, <1>5 DEF ClientOnly
<1>8. CASE PassOn(m)
  <2>1. /\ conn' = [conn EXCEPT ![r] = "open"] /\ got' = [got EXCEPT ![r] = Append(@, m.part)]
        /\ httpStreamSess' = IF m.fin THEN httpStreamSess ELSE httpStreamSess \cup {r}
        /\ fwd' = IF m.fin THEN [fwd EXCEPT ![r] = "read"] ELSE fwd
        /\ replies' = replies
    BY <1>2, <1>8 DEF PassOn
  <2>2. got[r] \in Seq(0 .. MaxPart)
    BY <1>1 DEF TypeOK
  <2>3. got'[r] = Append(got[r], m.part) /\ got' \in [Requests -> Seq(0 .. MaxPart)]
    BY <1>1, <1>6, <2>1, <2>2 DEF TypeOK
  <2>4. Len(got'[r]) = e /\ \A i \in 1 .. Len(got'[r]) : got'[r][i] = i - 1
    <3>1. Len(Append(got[r], m.part)) = e /\ Append(got[r], m.part)[e] = m.part
      BY <1>5, <1>6, <2>2
    <3>2. \A i \in 1 .. e - 1 : Append(got[r], m.part)[i] = got[r][i]
      BY <1>5, <1>6, <2>2
    <3>. QED BY <1>5, <1>6, <2>3, <3>1, <3>2
  <2>5. /\ conn'[r] = "open" /\ fwd'[r] = (IF m.fin THEN "read" ELSE "none")
        /\ (r \in httpStreamSess') <=> ~m.fin
    BY <1>1, <1>5, <2>1 DEF TypeOK
  <2>6. Taking(r, e)'
    BY <1>4, <1>5, <1>6, <1>7, <2>1, <2>4, <2>5 DEF Taking
  <2>7. /\ httpStreamSess' \subseteq Requests /\ conn' \in [Requests -> {"none", "open", "closed"}]
        /\ fwd' \in [Requests -> {"none", "dial", "read", "done"}] /\ replies' \in [Requests -> Nat]
    BY <1>1, <2>1 DEF TypeOK
  <2>8. \A q \in Requests : q # r =>
            /\ q \in httpStreamSess' <=> q \in httpStreamSess
            /\ conn'[q] = conn[q] /\ got'[q] = got[q] /\ fwd'[q] = fwd[q]
            /\ replies'[q] = replies[q]
    BY <1>1, <2>1 DEF TypeOK
  <2>. QED BY <1>1, <1>3, <1>4, <2>3, <2>6, <2>7, <2>8, ClientStep
<1>9. CASE /\ conn' = [conn EXCEPT ![r] = "closed"] \/ (conn' = conn /\ m.type = "head")
           /\ replies' = [replies EXCEPT ![r] = @ + 1]
           /\ got' = got /\ httpStreamSess' = httpStreamSess /\ fwd' = fwd
  <2>1. conn'[r] # "open" /\ replies'[r] = 1
    BY <1>1, <1>5, <1>6, <1>9 DEF TypeOK
  <2>2. Taking(r, e)'
    BY <1>4, <1>5, <1>6, <1>7, <1>9, <2>1 DEF Taking
  <2>3. conn' \in [Requests -> {"none", "open", "closed"}] /\ replies' \in [Requests -> Nat]
    <3>1. conn \in [Requests -> {"none", "open", "closed"}] /\ replies \in [Requests -> Nat]
      BY <1>1 DEF TypeOK
    <3>2. [conn EXCEPT ![r] = "closed"] \in [Requests -> {"none", "open", "closed"}]
      BY <3>1
    <3>3. \A n \in Nat : [replies EXCEPT ![r] = n + 1] \in [Requests -> Nat]
      BY <3>1
    <3>4. replies[r] \in Nat /\ replies' = [replies EXCEPT ![r] = replies[r] + 1]
      BY <3>1, <1>9
    <3>5. replies' \in [Requests -> Nat]
      BY <3>3, <3>4
    <3>. QED BY <1>9, <3>1, <3>2, <3>5
  <2>4. \A q \in Requests : q # r => conn'[q] = conn[q] /\ replies'[q] = replies[q]
    BY <1>1, <1>9 DEF TypeOK
  <2>5. /\ got' \in [Requests -> Seq(0 .. MaxPart)] /\ httpStreamSess' \subseteq Requests
        /\ fwd' \in [Requests -> {"none", "dial", "read", "done"}]
    BY <1>1, <1>9 DEF TypeOK
  <2>. QED BY <1>1, <1>3, <1>4, <1>9, <2>2, <2>3, <2>4, <2>5, ClientStep
<1>. QED BY <1>2, <1>8, <1>9 DEF HeadDone, BodyDone, WriteFails, Refused, Answered, Closed, upstream

LEMMA ForwardingStep ==
    ASSUME IInv, NEW r \in Requests, Forwarding(r)
    PROVE  IInv'
<1>. USE Constants
<1>1. TypeOK /\ loop' = loop /\ ClientOnly /\ httpStreamSess' = httpStreamSess
  BY DEF IInv, Forwarding, Forward, ReadResponse, ClientOnly, session, sender
<1>2. PICK e \in 0 .. MaxPart + 1 : Flow(r, e)
  BY DEF IInv, Of
<1>3. Taking(r, e) /\ (InLoop(r)' <=> InLoop(r))
  BY <1>1, <1>2 DEF Flow, InLoop
<1>4. /\ e # 0 /\ r \notin httpStreamSess /\ ~InLoop(r) /\ replies[r] = 0 /\ srv[r] = "sent"
      /\ fwd[r] \in {"dial", "read"}
      /\ \A i \in 1 .. Len(got[r]) : got[r][i] = i - 1
  BY <1>3 DEF Forwarding, Forward, ReadResponse, Taking
<1>5. /\ last[r] \in 0 .. MaxPart /\ stored[r] \in 0 .. MaxPart + 1
      /\ kind'[r] = kind[r] /\ stored'[r] = stored[r] /\ srv'[r] = srv[r] /\ last'[r] = last[r]
  BY <1>1 DEF TypeOK, ClientOnly
<1>6. ASSUME NEW f \in {"done", "read"}, fwd' = [fwd EXCEPT ![r] = f],
             conn' \in [Requests -> {"none", "open", "closed"}],
             got' \in [Requests -> Seq(0 .. MaxPart)], replies' \in [Requests -> Nat],
             \A q \in Requests : q # r =>
                 conn'[q] = conn[q] /\ got'[q] = got[q] /\ replies'[q] = replies[q],
             Taking(r, e)'
      PROVE  IInv'
  <2>1. /\ fwd' \in [Requests -> {"none", "dial", "read", "done"}]
        /\ \A q \in Requests : q # r => fwd'[q] = fwd[q]
        /\ httpStreamSess' \subseteq Requests
    BY <1>1, <1>6 DEF TypeOK
  <2>. QED BY <1>1, <1>2, <1>6, <2>1, ClientStep
<1>7. CASE /\ fwd' = [fwd EXCEPT ![r] = "done"]
           /\ conn' = [conn EXCEPT ![r] = "closed"] \/ (conn' = conn /\ fwd[r] = "dial")
           /\ replies' = [replies EXCEPT ![r] = @ + 1]
           /\ got' = got
  <2>1. conn'[r] # "open" /\ replies'[r] = 1 /\ fwd'[r] = "done"
    BY <1>1, <1>3, <1>4, <1>7 DEF TypeOK, Taking
  <2>2. Taking(r, e)'
    BY <1>1, <1>3, <1>4, <1>5, <1>7, <2>1 DEF Taking
  <2>3. conn' \in [Requests -> {"none", "open", "closed"}] /\ replies' \in [Requests -> Nat]
    <3>1. conn \in [Requests -> {"none", "open", "closed"}] /\ replies \in [Requests -> Nat]
      BY <1>1 DEF TypeOK
    <3>2. [conn EXCEPT ![r] = "closed"] \in [Requests -> {"none", "open", "closed"}]
      BY <3>1
    <3>3. \A n \in Nat : [replies EXCEPT ![r] = n + 1] \in [Requests -> Nat]
      BY <3>1
    <3>4. replies[r] \in Nat /\ replies' = [replies EXCEPT ![r] = replies[r] + 1]
      BY <3>1, <1>7
    <3>5. replies' \in [Requests -> Nat]
      BY <3>3, <3>4
    <3>. QED BY <1>7, <3>1, <3>2, <3>5
  <2>. QED BY <1>1, <1>6, <1>7, <2>2, <2>3 DEF TypeOK
<1>8. CASE /\ fwd[r] = "dial" /\ fwd' = [fwd EXCEPT ![r] = "read"]
           /\ conn' = [conn EXCEPT ![r] = "open"]
           /\ got' = [got EXCEPT ![r] =
                         IF kind[r] = "direct" THEN [i \in 1 .. last[r] + 1 |-> i - 1]
                                               ELSE [i \in 1 .. stored[r] |-> i - 1]]
           /\ replies' = replies
  <2>1. kind[r] = "direct" \/ stored[r] = last[r] + 1
    BY <1>1, <1>3, <1>8 DEF Taking, TypeOK, Kinds
  <2>2. got'[r] = [i \in 1 .. last[r] + 1 |-> i - 1]
    BY <1>1, <1>8, <2>1 DEF TypeOK
  <2>3. [i \in 1 .. last[r] + 1 |-> i - 1] \in Seq(0 .. MaxPart)
    BY <1>5
  <2>4. /\ Len(got'[r]) = last[r] + 1 /\ \A i \in 1 .. Len(got'[r]) : got'[r][i] = i - 1
    BY <1>5, <2>2
  <2>5. conn'[r] = "open" /\ fwd'[r] = "read" /\ replies'[r] = 0
    BY <1>1, <1>4, <1>8 DEF TypeOK
  <2>6. Taking(r, e)'
    BY <1>1, <1>3, <1>4, <1>5, <1>8, <2>4, <2>5 DEF Taking
  <2>7. /\ conn' \in [Requests -> {"none", "open", "closed"}] /\ replies' \in [Requests -> Nat]
        /\ got' \in [Requests -> Seq(0 .. MaxPart)]
    BY <1>1, <1>8, <2>1, <2>2, <2>3 DEF TypeOK
  <2>. QED BY <1>1, <1>6, <1>8, <2>6, <2>7 DEF TypeOK
<1>. QED BY <1>7, <1>8 DEF Forwarding, Forward, ReadResponse, WriteFails, Refused, Answered,
           Closed, upstream

-----------------------------------------------------------------------------
LEMMA Inductive == IInv /\ [Next]_vars => IInv'
<1>. SUFFICES ASSUME IInv, [Next]_vars PROVE IInv'
  OBVIOUS
<1>1. ASSUME NEW r \in Requests, Begin(r) \/ Sending(r) \/ Forwarding(r)
      PROVE  IInv'
  BY <1>1, BeginStep, SendingStep, ForwardingStep
<1>2. CASE Reading
  BY <1>2, ClientReadsStep, DoneStep DEF Reading
<1>3. CASE Destroy \/ Lose \/ Cut
  BY <1>3, NetworkStep
<1>4. CASE UNCHANGED vars
  <2>1. UNCHANGED <<caps, link, destroyed, srv, kind, last, next, SendWindow, wire, loop,
                    httpStreamSess, stored, conn, got, fwd, replies>>
    BY <1>4 DEF vars, session, sender, client, upstream
  <2>2. TypeOK'
    BY <2>1 DEF IInv, TypeOK
  <2>3. \A q \in Requests : Same(q) /\ WireOf(q)
    BY <2>1 DEF Same, WireOf, InLoop
  <2>. QED BY <2>1, <2>2, <2>3, OthersStay DEF IInv
<1>. QED BY <1>1, <1>2, <1>3, <1>4 DEF Next

\* Every variable keeps to its range (RequestPath).
THEOREM TypeCorrect == Spec => []TypeOK
<1>1. IInv => TypeOK
  BY DEF IInv
<1>. QED BY <1>1, InitOK, Inductive, PTL DEF Spec

\* The upstream service is given the beginning of a request, and asked for an answer
\* only when it has all of it, though sessions break, windows run full and bodies are
\* cut off (handleHTTPRequest, processRequestStream).
THEOREM Whole == Spec => []UpstreamGetsWhole
<1>1. IInv => UpstreamGetsWhole
  <2>. SUFFICES ASSUME IInv, NEW r \in Requests
       PROVE  /\ \A i \in 1 .. Len(got[r]) : got[r][i] = i - 1
              /\ fwd[r] = "read" => srv[r] = "sent" /\ Len(got[r]) = last[r] + 1
    BY DEF UpstreamGetsWhole
  <2>1. PICK e \in 0 .. MaxPart + 1 : Taking(r, e)
    BY DEF IInv, Of, Flow
  <2>. QED BY <2>1 DEF Taking
<1>. QED BY <1>1, InitOK, Inductive, PTL DEF Spec

\* A request is answered once at most, and by then nothing of it is left with the client
\* (handleHTTPRequestStreamBody, forwardHTTPRequest).
THEOREM Once == Spec => []RepliesOnce
<1>1. IInv => RepliesOnce
  <2>. SUFFICES ASSUME IInv, NEW r \in Requests
       PROVE  /\ replies[r] <= 1
              /\ replies[r] = 1 => r \notin httpStreamSess /\ fwd[r] \in {"none", "done"}
    BY DEF RepliesOnce
  <2>1. PICK e \in 0 .. MaxPart + 1 : Taking(r, e)
    BY DEF IInv, Of, Flow
  <2>. QED BY <2>1 DEF Taking, IInv, TypeOK
<1>. QED BY <1>1, InitOK, Inductive, PTL DEF Spec

\* An open upstream connection is in one place, whoever takes it from the map and puts
\* it back (httpStreamSess).
THEOREM Owned == Spec => []OneOwner
<1>1. IInv => OneOwner
  <2>. SUFFICES ASSUME IInv, NEW r \in Requests
       PROVE  LET owners == {o \in {"map", "loop", "goroutine"} :
                                \/ o = "map" /\ r \in httpStreamSess
                                \/ o = "loop" /\ loop # None /\ loop.id = r /\ loop.type = "body"
                                \/ o = "goroutine" /\ fwd[r] = "read"}
              IN  IF conn[r] = "open" THEN \E o \in owners : owners = {o} ELSE owners = {}
    BY DEF OneOwner
  <2>1. PICK e \in 0 .. MaxPart + 1 : Taking(r, e)
    BY DEF IInv, Of, Flow
  <2>2. /\ r \in httpStreamSess => conn[r] = "open" /\ fwd[r] = "none" /\ ~InLoop(r)
        /\ InLoop(r) => /\ fwd[r] = "none" /\ r \notin httpStreamSess
                        /\ conn[r] = "open" <=> loop.type = "body"
        /\ fwd[r] = "read" => conn[r] = "open"
        /\ conn[r] = "open" => r \in httpStreamSess \/ InLoop(r) \/ fwd[r] = "read"
    BY <2>1 DEF Taking, Genuine, TypeAt
  <2>. QED BY <2>2 DEF InLoop
<1>. QED BY <1>1, InitOK, Inductive, PTL DEF Spec

=============================================================================
