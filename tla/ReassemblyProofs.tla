---------------------------- MODULE ReassemblyProofs ----------------------------
(***************************************************************************)
(* Proofs about Reassembly, for every number of read loops, messages,      *)
(* chunks, windows, generations and every set of capabilities.             *)
(*                                                                         *)
(* A chunk is in one place: on its way, with one read loop, or in streams. *)
(* A stream that is complete has taken every chunk of its message, so that *)
(* no other can complete under its id.                                     *)
(*                                                                         *)
(* Owed counts the goroutines that will release a window: what it lacks is *)
(* theirs.  Owners says who keeps a mutex over a step, and Unused what     *)
(* nobody touches where a capability was not agreed: nobody waits for      *)
(* ever in a circle.                                                       *)
(***************************************************************************)
EXTENDS Reassembly, TLAPS, FiniteSetTheorems, SequenceTheorems

\* Where a read loop is before its chunk is added.
Carrying == {"charge", "pauseGet", "pauseLock", "direct", "ensure", "lookup", "add"}
Carries(p, c) == pc[p] \in Carrying /\ job[p] = c

\* Pointers and jobs are there when they are used.
Placed ==
    \A p \in Readers :
        /\ pc[p] # "idle" => job[p] \in Ids \X Chunks
        /\ pc[p] \in {"pauseLock", "resumeLock"} => resumed[p] \in Objects
        /\ pc[p] = "add" => ref[p] \in Objects /\ ref[p][1] = job[p][1]
        /\ pc[p] \notin {"mark", "remove", "destroy"}

\* A stream is registered under its own id.
Registered == \A id \in Ids : entry[id] # None => entry[id][1] = id

\* The stream that the cleanup loop looks at stays registered until it is
\* destroyed, and ignores what comes once it is marked.
Cleaning ==
    /\ pc[Cleaner] \in {"idle", "mark", "remove", "destroy"}
    /\ pc[Cleaner] # "idle" =>
          /\ ref[Cleaner] \in Objects
          /\ entry[ref[Cleaner][1]] = ref[Cleaner]
          /\ pc[Cleaner] # "mark" => Ignores(ref[Cleaner])

\* What a stream has assembled is a beginning of its message.
Prefixes ==
    \A s \in Objects : Len(data[s]) <= Last + 1 /\ data[s] = Run(0, Len(data[s]))

Got(s, k) == k \in chunks[s] \/ k < Len(data[s])
Gone(id, k) == <<id, k>> \notin inflight /\ \A p \in Readers : ~Carries(p, <<id, k>>)

OnePlace ==
    /\ \A p \in Readers, c \in inflight : ~Carries(p, c)
    /\ \A p, q \in Readers : \A c \in Ids \X Chunks :
          Carries(p, c) /\ Carries(q, c) => p = q
    /\ \A s \in Objects, k \in Chunks : Got(s, k) => Gone(s[1], k)

Delivered ==
    \A id \in Ids :
        \/ out[id] = <<>>
        \/ out[id] = Run(0, Last + 1) /\ \A k \in Chunks : Gone(id, k)

\* Who calls OnComplete holds the stream, which stays registered meanwhile; and no
\* stream has the id of a message that is not streamed.
Locked ==
    /\ \A id \in Direct : entry[id] = None
    /\ \A p \in Readers :
          /\ pc[p] \in {"ensure", "lookup", "add"} => job[p][1] \in Streamed
          /\ pc[p] \in {"release", "resumeGet"} /\ job[p][1] \notin Direct =>
                /\ ref[p] \in Objects
                /\ sMu[ref[p]] = p
                /\ entry[job[p][1]] = ref[p]

Pointers == TypeOK /\ Placed /\ Registered /\ Cleaning

IInv ==
    /\ Pointers
    /\ NoWriteAfterDestroy
    /\ Prefixes /\ OnePlace /\ Delivered
    /\ Locked /\ ResumeLocksItself

-----------------------------------------------------------------------------
(* Reassembling *)

\* tryReassemble takes the chunks up to the first gap, and nothing past the last.
LEMMA ReadyRun ==
    ASSUME NEW n \in 0 .. Last + 1, NEW c
    PROVE  /\ Cardinality(Ready(n, c)) \in 0 .. Last + 1 - n
           /\ \A k \in n .. n + Cardinality(Ready(n, c)) - 1 : k \in c
<1> DEFINE R == Ready(n, c)
           m == Cardinality(R)
<1>1. Last \in Nat /\ n \in Nat
  BY ReassemblyAssumption
<1>2. /\ IsFiniteSet(n .. Last)
      /\ Cardinality(n .. Last) = Last + 1 - n
  BY <1>1, FS_Interval
<1>3. R \in SUBSET (n .. Last)
  BY DEF Ready
<1>4. IsFiniteSet(R) /\ m \in Nat /\ m <= Last + 1 - n
  BY <1>2, <1>3, FS_Subset, FS_CardinalityType
<1>5. R \subseteq n .. n + m - 1
  <2> SUFFICES ASSUME NEW k \in R PROVE k <= n + m - 1
    BY <1>1, <1>3
  <2>1. k \in n .. Last /\ n .. k \subseteq c
    BY DEF Ready
  <2>2. n .. k \in SUBSET R
    BY <1>1, <2>1 DEF Ready
  <2>3. Cardinality(n .. k) = k - n + 1
    BY <1>1, <2>1, FS_Interval
  <2>4. Cardinality(n .. k) <= m
    BY <1>4, <2>2, FS_Subset
  <2>5. QED
    BY <1>1, <1>4, <2>1, <2>3, <2>4
<1>6. IsFiniteSet(n .. n + m - 1) /\ Cardinality(n .. n + m - 1) = m
  <2> HIDE DEF m
  <2>1. n \in Int /\ n + m - 1 \in Int
    BY <1>1, <1>4
  <2>2. QED
    BY <1>1, <1>4, <2>1, FS_Interval
<1>7. R = n .. n + m - 1
  BY <1>5, <1>6, FS_Subset
<1>8. \A k \in R : k \in c
  BY <1>1 DEF Ready
<1>9. QED
  BY <1>1, <1>4, <1>7, <1>8

\* Run(n, m) is the sequence of the m numbers from n.
LEMMA RunIsSeq ==
    ASSUME NEW n \in Nat, NEW m \in Nat, n + m <= Last + 1
    PROVE  /\ Run(n, m) \in Seq(Chunks)
           /\ Len(Run(n, m)) = m
           /\ \A i \in 1 .. m : Run(n, m)[i] = n + i - 1
<1>1. Last \in Nat
  BY ReassemblyAssumption
<1>2. \A i \in 1 .. m : n + i - 1 \in Chunks
  BY <1>1 DEF Chunks
<1>3. Run(n, m) \in [1 .. m -> Chunks]
  BY <1>2 DEF Run
<1>4. QED
  BY <1>3 DEF Run

\* What tryReassemble appends carries the assembled data on.
LEMMA TryReassemble ==
    ASSUME NEW s \in Objects, NEW c, Len(data[s]) <= Last + 1,
           data[s] \in Seq(Chunks), data[s] = Run(0, Len(data[s]))
    PROVE  /\ Reassembled(s, c) \in Seq(Chunks)
           /\ Reassembled(s, c) = Run(0, Len(Reassembled(s, c)))
           /\ Len(Reassembled(s, c)) \in Len(data[s]) .. Last + 1
           /\ \A k \in Len(data[s]) .. Len(Reassembled(s, c)) - 1 : k \in c
<1> DEFINE n == Len(data[s])
           m == Cardinality(Ready(n, c))
           d == Reassembled(s, c)
<1> HIDE DEF n, m, d
<1>1. /\ Last \in Nat
      /\ n \in 0 .. Last + 1
      /\ data[s] = Run(0, n)
  BY ReassemblyAssumption DEF n
<1>2. /\ m \in 0 .. Last + 1 - n
      /\ \A k \in n .. n + m - 1 : k \in c
  BY <1>1, ReadyRun DEF m
<1>3. /\ Run(n, m) \in Seq(Chunks)
      /\ Len(Run(n, m)) = m
      /\ \A i \in 1 .. m : Run(n, m)[i] = n + i - 1
  <2>1. n \in Nat /\ m \in Nat /\ n + m <= Last + 1
    BY <1>1, <1>2
  <2>2. QED
    BY <2>1, RunIsSeq
<1>4. d = data[s] \o Run(n, m)
  BY DEF Reassembled, d, n, m
<1>5. /\ d \in Seq(Chunks)
      /\ Len(d) = n + m
      /\ \A i \in 1 .. n + m : d[i] = IF i <= n THEN data[s][i] ELSE Run(n, m)[i - n]
  <2> DEFINE e == Run(n, m)
             b == data[s]
  <2>1. b \in Seq(Chunks) /\ e \in Seq(Chunks) /\ d = b \o e /\ Len(b) = n /\ Len(e) = m
    BY <1>3, <1>4 DEF n
  <2> HIDE DEF e, b
  <2>2. /\ b \o e \in Seq(Chunks)
        /\ Len(b \o e) = Len(b) + Len(e)
        /\ \A i \in 1 .. Len(b) + Len(e) :
              (b \o e)[i] = IF i <= Len(b) THEN b[i] ELSE e[i - Len(b)]
    BY <2>1, ConcatProperties
  <2>3. QED
    BY <2>1, <2>2 DEF e, b
<1>6. /\ Run(0, n + m) \in Seq(Chunks)
      /\ Len(Run(0, n + m)) = n + m
      /\ \A i \in 1 .. n + m : Run(0, n + m)[i] = 0 + i - 1
  <2>1. n + m \in Nat /\ 0 + (n + m) <= Last + 1
    BY <1>1, <1>2
  <2>2. QED
    BY <2>1, RunIsSeq
<1>7. \A i \in 1 .. n : data[s][i] = 0 + i - 1
  <2>1. 0 \in Nat /\ n \in Nat /\ 0 + n <= Last + 1
    BY <1>1
  <2>2. \A i \in 1 .. n : Run(0, n)[i] = 0 + i - 1
    BY <2>1, RunIsSeq
  <2>3. QED
    BY <1>1, <2>2
<1>8. \A i \in 1 .. n + m : d[i] = Run(0, n + m)[i]
  <2> SUFFICES ASSUME NEW i \in 1 .. n + m PROVE d[i] = 0 + i - 1
    BY <1>6
  <2>1. CASE i <= n
    <3>1. i \in 1 .. n
      BY <1>1, <1>2, <2>1
    <3>2. d[i] = data[s][i]
      BY <1>5, <2>1
    <3>3. QED
      BY <1>7, <3>1, <3>2
  <2>2. CASE ~(i <= n)
    <3>1. i - n \in 1 .. m
      BY <1>1, <1>2, <2>2
    <3>2. Run(n, m)[i - n] = n + (i - n) - 1
      BY <1>3, <3>1
    <3>3. QED
      BY <1>1, <1>2, <1>5, <2>2, <3>2
  <2>3. QED
    BY <2>1, <2>2
<1>9. d = Run(0, n + m)
  BY <1>5, <1>6, <1>8, SeqEqual
<1>10. QED
  BY <1>1, <1>2, <1>5, <1>9 DEF d, n

-----------------------------------------------------------------------------
(* Types and places *)

\* A new adapter (NewBinaryProtocolAdapter) is in order.
LEMMA InitOK == Init => IInv
<1> SUFFICES ASSUME Init PROVE IInv
  OBVIOUS
<1>1. TypeOK
  BY ReassemblyAssumption DEF Init, TypeOK, Points
<1>2. /\ Placed /\ Registered /\ Cleaning
      /\ NoWriteAfterDestroy /\ Locked /\ ResumeLocksItself
  BY ReassemblyAssumption
     DEF Init, Placed, Registered, Cleaning, NoWriteAfterDestroy, Locked,
         ResumeLocksItself, Threads, Ids
<1>3. Prefixes
  <2>1. Run(0, 0) = <<>>
    BY DEF Run
  <2>2. QED
    BY <2>1, ReassemblyAssumption DEF Init, Prefixes
<1>4. OnePlace
  BY DEF Init, OnePlace, Got, Gone, Carries, Carrying, Chunks, Threads
<1>5. Delivered
  BY DEF Init, Delivered
<1>6. QED
  BY <1>1, <1>2, <1>3, <1>4, <1>5 DEF IInv, Pointers

LEMMA ExceptTyped ==
    ASSUME NEW S, NEW T, NEW f \in [S -> T], NEW x \in S, NEW y \in T
    PROVE  [f EXCEPT ![x] = y] \in [S -> T]
OBVIOUS

\* Whatever a goroutine does next keeps every variable in its range.
LEMMA TypeStep == ASSUME IInv, [Next]_vars PROVE TypeOK'
<1> USE ReassemblyAssumption DEF At
<1>1. TypeOK /\ Placed /\ Prefixes
  BY DEF IInv, Pointers
<1>2. ASSUME NEW p \in Readers, Read(p) PROVE TypeOK'
  BY <1>1, <1>2 DEF TypeOK, Points, Read, Charged, managed, Threads
<1>3. ASSUME NEW p \in Readers, Receive(p) PROVE TypeOK'
  <2>1. job[p][1] \in Ids
    BY <1>1, <1>3 DEF Receive, Placed
  <2> DEFINE w == IF window[job[p][1]] = None THEN MaxWindow ELSE window[job[p][1]]
  <2>2. w \in 0 .. MaxWindow /\ (w >= 1 => w - 1 \in 0 .. MaxWindow)
    BY <1>1, <2>1 DEF TypeOK, Points
  <2> HIDE DEF w
  <2>3. window' \in [Ids -> (0 .. MaxWindow) \cup {None}]
    <3>1. \/ w >= 1 /\ window' = [window EXCEPT ![job[p][1]] = w - 1]
          \/ window' = [window EXCEPT ![job[p][1]] = w]
      BY <1>3 DEF Receive, w
    <3>2. window \in [Ids -> (0 .. MaxWindow) \cup {None}]
      BY <1>1 DEF TypeOK
    <3>3. w \in (0 .. MaxWindow) \cup {None} /\ (w >= 1 => w - 1 \in (0 .. MaxWindow) \cup {None})
      BY <2>2
    <3>4. QED
      BY <2>1, <3>1, <3>2, <3>3, ExceptTyped
  <2>4. \/ pc' = [pc EXCEPT ![p] = Charged(job[p][1])] /\ fcMu' = fcMu
        \/ pc' = [pc EXCEPT ![p] = "pauseGet"] /\ fcMu' = p
    BY <1>3 DEF Receive
  <2>5. pc' \in [Threads -> Points] /\ fcMu' \in Threads \cup {None}
    <3>1. p \in Threads /\ Charged(job[p][1]) \in Points /\ "pauseGet" \in Points
      BY DEF Threads, Charged, Points
    <3>2. pc \in [Threads -> Points] /\ fcMu \in Threads \cup {None}
      BY <1>1 DEF TypeOK
    <3>3. QED
      BY <2>4, <3>1, <3>2
  <2>6. UNCHANGED <<caps, inflight, job, ref, resumed, smMu, sMu, managed>>
    BY <1>3 DEF Receive
  <2>7. QED
    BY <1>1, <2>3, <2>5, <2>6 DEF TypeOK, managed
<1>4. ASSUME NEW p \in Readers, PauseGet(p) PROVE TypeOK'
  <2>1. job[p][1] \in Ids
    BY <1>1, <1>4 DEF PauseGet, Placed
  <2>2. \/ pc' = [pc EXCEPT ![p] = Charged(job[p][1])] /\ fcMu' = None
        \/ pc' = [pc EXCEPT ![p] = "pauseLock"] /\ fcMu' = fcMu
    BY <1>4 DEF PauseGet
  <2>3. entry[job[p][1]] \in Objects \cup {None}
    BY <1>1, <2>1 DEF TypeOK, Points
  <2>4. resumed' \in [Readers -> Objects \cup {None}]
    BY <1>1, <1>4, <2>3 DEF TypeOK, Points, PauseGet
  <2>5. pc' \in [Threads -> Points] /\ fcMu' \in Threads \cup {None}
    <3>1. p \in Threads /\ Charged(job[p][1]) \in Points /\ "pauseLock" \in Points
      BY DEF Threads, Charged, Points
    <3>2. pc \in [Threads -> Points] /\ fcMu \in Threads \cup {None}
      BY <1>1 DEF TypeOK
    <3>3. QED
      BY <2>2, <3>1, <3>2
  <2>6. UNCHANGED <<caps, inflight, job, ref, window, smMu, sMu, managed>>
    BY <1>4 DEF PauseGet
  <2>7. QED
    BY <1>1, <2>4, <2>5, <2>6 DEF TypeOK, managed
<1>5. ASSUME NEW p \in Readers, Pause(p) PROVE TypeOK'
  BY <1>1, <1>5 DEF TypeOK, Points, Pause, Charged, Threads
<1>6. ASSUME NEW p \in Readers, Handle(p) PROVE TypeOK'
  BY <1>1, <1>6 DEF TypeOK, Points, Handle, Handled, managed, Threads
<1>7. ASSUME NEW p \in Readers, EnsureStream(p) PROVE TypeOK'
  <2>1. job[p][1] \in Ids
    BY <1>1, <1>7 DEF EnsureStream, Placed
  <2>2. /\ entry' \in [Ids -> Objects \cup {None}]
        /\ gen' \in [Ids -> 0 .. MaxGen]
    <3>1. CASE UNCHANGED <<entry, gen>>
      BY <1>1, <3>1 DEF TypeOK, Points
    <3>2. CASE /\ gen[job[p][1]] < MaxGen
               /\ gen' = [gen EXCEPT ![job[p][1]] = @ + 1]
               /\ entry' = [entry EXCEPT ![job[p][1]] = <<job[p][1], gen[job[p][1]] + 1>>]
      <4>1. gen[job[p][1]] + 1 \in 1 .. MaxGen
        BY <1>1, <2>1, <3>2 DEF TypeOK, Points
      <4>2. <<job[p][1], gen[job[p][1]] + 1>> \in Objects
        BY <2>1, <4>1 DEF Objects
      <4>3. gen' \in [Ids -> 0 .. MaxGen]
        BY <1>1, <2>1, <3>2, <4>1 DEF TypeOK, Points
      <4>4. entry' \in [Ids -> Objects \cup {None}]
        BY <1>1, <2>1, <3>2, <4>2 DEF TypeOK, Points
      <4>5. QED
        BY <4>3, <4>4
    <3>3. QED
      BY <1>7, <3>1, <3>2 DEF EnsureStream
  <2>3. QED
    BY <1>1, <1>7, <2>2 DEF TypeOK, Points, EnsureStream, Threads
<1>8. ASSUME NEW p \in Readers, Lookup(p) PROVE TypeOK'
  <2>1. job[p][1] \in Ids
    BY <1>1, <1>8 DEF Lookup, Placed
  <2>2. QED
    BY <1>1, <1>8, <2>1 DEF TypeOK, Points, Lookup, managed, Threads
<1>9. ASSUME NEW p \in Readers, AddChunk(p) PROVE TypeOK'
  <2> DEFINE s == ref[p]
             c == chunks[s] \cup {job[p][2]}
             d == Reassembled(s, c)
  <2>1. s \in Objects /\ s[1] \in Ids /\ job[p][2] \in Chunks /\ c \in SUBSET Chunks
    <3>1. pc[p] = "add" /\ job[p] \in Ids \X Chunks /\ s \in Objects
      BY <1>1, <1>9 DEF AddChunk, Placed
    <3>2. chunks[s] \in SUBSET Chunks
      BY <1>1, <3>1 DEF TypeOK
    <3>3. s[1] \in Ids /\ job[p][2] \in Chunks
      BY <3>1 DEF Objects
    <3>4. QED
      BY <3>1, <3>2, <3>3
  <2>2. d \in Seq(Chunks)
    BY <1>1, <2>1, TryReassemble DEF TypeOK, Points, Prefixes
  <2>3. out[s[1]] \o d \in Seq(Chunks)
    <3>1. out[s[1]] \in Seq(Chunks)
      BY <1>1, <2>1 DEF TypeOK, Points
    <3> HIDE DEF d
    <3>2. QED
      BY <2>2, <3>1, ConcatProperties
  <2>4. /\ chunks' \in [Objects -> SUBSET Chunks]
        /\ data' \in [Objects -> Seq(Chunks)]
        /\ state' \in [Objects -> {"active", "paused", "completed", "error"}]
        /\ out' \in [Ids -> Seq(Chunks)]
    <3> HIDE DEF d, c
    <3>1. /\ \/ chunks' = chunks
             \/ chunks' = [chunks EXCEPT ![s] = {k \in c : k >= Len(d)}]
          /\ data' = data \/ data' = [data EXCEPT ![s] = d]
          /\ state' = state \/ state' = [state EXCEPT ![s] = "completed"]
          /\ out' = out \/ out' = [out EXCEPT ![s[1]] = out[s[1]] \o d]
      BY <1>9, Zenon DEF AddChunk, c, d
    <3>2. chunks' \in [Objects -> SUBSET Chunks]
      <4>1. {k \in c : k >= Len(d)} \in SUBSET Chunks
        BY <2>1
      <4>2. chunks \in [Objects -> SUBSET Chunks]
        BY <1>1 DEF TypeOK
      <4> DEFINE pending == {k \in c : k >= Len(d)}
      <4>3. chunks' = chunks \/ chunks' = [chunks EXCEPT ![s] = pending]
        BY <3>1
      <4> HIDE DEF pending
      <4>4. CASE chunks' = chunks
        BY <4>2, <4>4
      <4>5. CASE chunks' = [chunks EXCEPT ![s] = pending]
        <5>1. pending \in SUBSET Chunks
          BY <4>1 DEF pending
        <5>2. QED
          BY <4>2, <4>5, <5>1
      <4>6. QED
        BY <4>3, <4>4, <4>5
    <3>3. data' \in [Objects -> Seq(Chunks)]
      <4>1. data' = data \/ data' = [data EXCEPT ![s] = d]
        BY <3>1
      <4>2. data \in [Objects -> Seq(Chunks)]
        BY <1>1 DEF TypeOK
      <4>3. QED
        BY <2>2, <4>1, <4>2
    <3>4. state' \in [Objects -> {"active", "paused", "completed", "error"}]
      BY ZenonT(40), <1>1, <3>1 DEF TypeOK, Points
    <3>5. out' \in [Ids -> Seq(Chunks)]
      <4>1. out' = out \/ out' = [out EXCEPT ![s[1]] = out[s[1]] \o d]
        BY <3>1
      <4>2. out \in [Ids -> Seq(Chunks)]
        BY <1>1 DEF TypeOK
      <4>3. QED
        BY <2>3, <4>1, <4>2
    <3>6. QED
      BY <3>2, <3>3, <3>4, <3>5
  <2>5. /\ pc' \in [Threads -> Points]
        /\ sMu' \in [Objects -> Threads \cup {None}]
    <3> HIDE DEF d, c
    <3>1. p \in Threads
      BY DEF Threads
    <3>2. /\ pc' = [pc EXCEPT ![p] = "idle"] \/ pc' = [pc EXCEPT ![p] = "release"]
          /\ sMu' = sMu \/ sMu' = [sMu EXCEPT ![s] = p]
      BY <1>9 DEF AddChunk, CallsLocked
    <3>3. pc' \in [Threads -> Points]
      BY ZenonT(40), <1>1, <3>1, <3>2 DEF TypeOK, Points
    <3>4. sMu' \in [Objects -> Threads \cup {None}]
      <4>1. sMu \in [Objects -> Threads \cup {None}] /\ p \in Threads \cup {None}
        BY <1>1, <3>1 DEF TypeOK
      <4>2. QED
        BY <2>1, <3>2, <4>1, ExceptTyped
    <3>5. QED
      BY <3>3, <3>4
  <2>6. QED
    BY <1>1, <1>9, <2>4, <2>5 DEF AddChunk, TypeOK
<1>10. ASSUME NEW p \in Readers, Release(p) PROVE TypeOK'
  <2>1. job[p][1] \in Ids
    BY <1>1, <1>10 DEF Release, Placed
  <2>2. window[job[p][1]] # None => Capped(window[job[p][1]] + Size(job[p][1])) \in 0 .. MaxWindow
    BY <1>1, <2>1 DEF TypeOK, Points, Capped, Size
  <2> DEFINE w == Capped(window[job[p][1]] + Size(job[p][1]))
  <2>3. window' \in [Ids -> (0 .. MaxWindow) \cup {None}]
    <3> HIDE DEF w
    <3>1. \/ window' = window
          \/ window[job[p][1]] # None /\ window' = [window EXCEPT ![job[p][1]] = w]
      BY <1>10, Zenon DEF Release, w
    <3>2. window[job[p][1]] # None => w \in (0 .. MaxWindow) \cup {None}
      BY <2>2 DEF w
    <3>3. window \in [Ids -> (0 .. MaxWindow) \cup {None}]
      BY <1>1 DEF TypeOK
    <3>4. QED
      BY <2>1, <3>1, <3>2, <3>3, ExceptTyped
  <2>4. /\ pc' = [pc EXCEPT ![p] = "idle"] \/ pc' = [pc EXCEPT ![p] = "resumeGet"]
        /\ fcMu' = fcMu \/ fcMu' = p
        /\ \/ sMu' = sMu
           \/ sMu' = [s \in Objects |-> IF sMu[s] = p THEN None ELSE sMu[s]]
    BY <1>10 DEF Release, Returns
  <2>5. sMu' \in [Objects -> Threads \cup {None}]
    BY <1>1, <2>4 DEF TypeOK, Points
  <2>6. pc' \in [Threads -> Points]
    BY ZenonT(40), <1>1, <2>4 DEF TypeOK, Points
  <2>7. fcMu' \in Threads \cup {None}
    BY <1>1, <2>4 DEF TypeOK, Threads
  <2>8. QED
    BY <1>1, <1>10, <2>3, <2>5, <2>6, <2>7 DEF TypeOK, Release, managed
<1>11. ASSUME NEW p \in Readers, ResumeGet(p) PROVE TypeOK'
  <2>1. job[p][1] \in Ids
    BY <1>1, <1>11 DEF ResumeGet, Placed
  <2>2. /\ pc' = [pc EXCEPT ![p] = "idle"] \/ pc' = [pc EXCEPT ![p] = "resumeLock"]
        /\ fcMu' = fcMu \/ fcMu' = None
        /\ \/ sMu' = sMu
           \/ sMu' = [s \in Objects |-> IF sMu[s] = p THEN None ELSE sMu[s]]
    BY <1>11 DEF ResumeGet, Returns
  <2>3. entry[job[p][1]] \in Objects \cup {None}
    BY <1>1, <2>1 DEF TypeOK, Points
  <2>4. resumed' \in [Readers -> Objects \cup {None}]
    BY <1>1, <1>11, <2>3 DEF TypeOK, Points, ResumeGet
  <2>5. sMu' \in [Objects -> Threads \cup {None}]
    BY <1>1, <2>2 DEF TypeOK, Points
  <2>6. pc' \in [Threads -> Points]
    BY ZenonT(40), <1>1, <2>2 DEF TypeOK, Points
  <2>7. fcMu' \in Threads \cup {None}
    BY <1>1, <2>2 DEF TypeOK
  <2>8. QED
    BY <1>1, <1>11, <2>4, <2>5, <2>6, <2>7 DEF TypeOK, ResumeGet, managed
<1>12. ASSUME NEW id \in Direct, RemoveWindow(id) PROVE TypeOK'
  BY <1>1, <1>12 DEF TypeOK, Points, RemoveWindow, managed
<1>13. ASSUME Cleanup PROVE TypeOK'
  <2>1. ASSUME Scan PROVE TypeOK'
    BY <1>1, <2>1 DEF TypeOK, Points, Scan, managed, Threads
  <2>2. ASSUME Mark PROVE TypeOK'
    BY ZenonT(40), <1>1, <2>2 DEF TypeOK, Points, Mark, Condemned, Threads
  <2>3. ASSUME Remove PROVE TypeOK'
    BY <1>1, <2>3 DEF TypeOK, Points, Remove, managed, Threads
  <2>4. ASSUME Destroy PROVE TypeOK'
    BY <1>1, <2>4 DEF TypeOK, Points, Destroy, Forget, Threads
  <2>5. QED
    BY <1>13, <2>1, <2>2, <2>3, <2>4 DEF Cleanup
<1>14. CASE UNCHANGED vars
  BY <1>1, <1>14 DEF TypeOK, Points, vars
<1>15. QED
  BY <1>2, <1>3, <1>4, <1>5, <1>6, <1>7, <1>8, <1>9, <1>10, <1>11, <1>12, <1>13, <1>14
     DEF Next, Reader
\* A goroutine uses the pointers it was given for what they are.
LEMMA PlacedStep == ASSUME Pointers, [Next]_vars PROVE Placed'
<1> USE ReassemblyAssumption DEF At, Threads
<1>1. TypeOK /\ Placed /\ Registered
  BY DEF Pointers
<1>2. ASSUME NEW p \in Readers, Read(p) PROVE Placed'
  BY <1>1, <1>2 DEF TypeOK, Placed, Read, Charged
<1>3. ASSUME NEW p \in Readers, Receive(p) PROVE Placed'
  BY <1>1, <1>3 DEF TypeOK, Placed, Receive, Charged
<1>4. ASSUME NEW p \in Readers, PauseGet(p) PROVE Placed'
  BY <1>1, <1>4 DEF TypeOK, Placed, PauseGet, Charged
<1>5. ASSUME NEW p \in Readers, Pause(p) PROVE Placed'
  BY <1>1, <1>5 DEF TypeOK, Placed, Pause, Charged
<1>6. ASSUME NEW p \in Readers, Handle(p) PROVE Placed'
  BY <1>1, <1>6 DEF TypeOK, Placed, Handle, Handled
<1>7. ASSUME NEW p \in Readers, EnsureStream(p) PROVE Placed'
  BY <1>1, <1>7 DEF TypeOK, Placed, EnsureStream
<1>8. ASSUME NEW p \in Readers, Lookup(p) PROVE Placed'
  BY <1>1, <1>8 DEF TypeOK, Placed, Registered, Lookup
<1>9. ASSUME NEW p \in Readers, AddChunk(p) PROVE Placed'
  <2>1. pc' = [pc EXCEPT ![p] = "idle"] \/ pc' = [pc EXCEPT ![p] = "release"]
    BY <1>9 DEF AddChunk
  <2>2. UNCHANGED <<job, resumed, ref>> /\ pc[p] = "add"
    BY <1>9 DEF AddChunk
  <2>3. QED
    BY <1>1, <2>1, <2>2 DEF TypeOK, Placed
<1>10. ASSUME NEW p \in Readers, Release(p) PROVE Placed'
  <2>1. pc' = [pc EXCEPT ![p] = "idle"] \/ pc' = [pc EXCEPT ![p] = "resumeGet"]
    BY <1>10 DEF Release, Returns
  <2>2. UNCHANGED <<job, resumed, ref>> /\ pc[p] = "release"
    BY <1>10 DEF Release
  <2>3. QED
    BY <1>1, <2>1, <2>2 DEF TypeOK, Placed
<1>11. ASSUME NEW p \in Readers, ResumeGet(p) PROVE Placed'
  BY <1>1, <1>11 DEF TypeOK, Placed, ResumeGet, Returns
<1>12. ASSUME NEW id \in Direct, RemoveWindow(id) PROVE Placed'
  BY <1>1, <1>12 DEF Placed, RemoveWindow
<1>13. ASSUME Cleanup PROVE Placed'
  BY <1>1, <1>13 DEF TypeOK, Placed, Cleanup, Scan, Mark, Remove, Destroy
<1>14. CASE UNCHANGED vars
  BY <1>1, <1>14 DEF Placed, vars
<1>15. QED
  BY <1>2, <1>3, <1>4, <1>5, <1>6, <1>7, <1>8, <1>9, <1>10, <1>11, <1>12, <1>13, <1>14
     DEF Next, Reader

\* A registration is made under the stream's own id, and undone as a whole.
LEMMA RegisteredStep == ASSUME Pointers, [Next]_vars PROVE Registered'
<1> USE ReassemblyAssumption
<1>1. TypeOK /\ Placed /\ Registered /\ Cleaning
  BY DEF Pointers
<1>2. CASE UNCHANGED entry
  BY <1>1, <1>2 DEF Registered
<1>3. ASSUME NEW p \in Readers, EnsureStream(p) PROVE Registered'
  BY <1>1, <1>3 DEF TypeOK, Registered, EnsureStream
<1>4. ASSUME Destroy PROVE Registered'
  BY <1>1, <1>4 DEF TypeOK, Registered, Destroy, Forget
<1>5. QED
  BY <1>2, <1>3, <1>4
     DEF Next, Reader, Cleanup, vars, managed, Read, Receive, PauseGet, Pause, Handle,
         Lookup, AddChunk, Release, ResumeGet, RemoveWindow, Scan, Mark, Remove

\* Once a stream is completed or an error, it ignores chunks for good.
LEMMA IgnoresForGood ==
    ASSUME Pointers, [Next]_vars, NEW s \in Objects, Ignores(s)
    PROVE  state'[s] \in {"completed", "error"}
<1>1. TypeOK
  BY DEF Pointers
<1>2. CASE UNCHANGED state
  BY <1>2 DEF Ignores
<1>3. ASSUME NEW p \in Readers, Pause(p) PROVE state'[s] \in {"completed", "error"}
  BY <1>1, <1>3 DEF TypeOK, Pause, Ignores
<1>4. ASSUME NEW p \in Readers, AddChunk(p) PROVE state'[s] \in {"completed", "error"}
  <2>1. state' = state \/ state' = [state EXCEPT ![ref[p]] = "completed"]
    BY <1>4 DEF AddChunk
  <2>2. QED
    BY <1>1, <2>1 DEF TypeOK, Ignores
<1>5. ASSUME Mark PROVE state'[s] \in {"completed", "error"}
  BY <1>1, <1>5 DEF TypeOK, Mark, Condemned, Ignores
<1>6. QED
  BY <1>2, <1>3, <1>4, <1>5
     DEF Next, Reader, Cleanup, vars, managed, Read, Receive, PauseGet, Handle,
         EnsureStream, Lookup, Release, ResumeGet, RemoveWindow, Scan, Remove, Destroy

\* The cleanup loop alone unregisters streams, so that what it holds on to stays.
LEMMA CleaningStep == ASSUME Pointers, [Next]_vars PROVE Cleaning'
<1> USE ReassemblyAssumption DEF At, Threads
<1>1. TypeOK /\ Placed /\ Registered /\ Cleaning
  BY DEF Pointers
<1>2. ASSUME UNCHANGED <<pc[Cleaner], ref[Cleaner]>>,
             \A id \in Ids : entry[id] # None => entry'[id] = entry[id]
      PROVE  Cleaning'
  <2>1. CASE pc[Cleaner] = "idle"
    BY <1>1, <1>2, <2>1 DEF Cleaning
  <2>2. CASE pc[Cleaner] # "idle"
    <3> DEFINE s == ref[Cleaner]
    <3>1. s \in Objects /\ s[1] \in Ids /\ entry[s[1]] = s /\ s # None
      BY <1>1, <2>2 DEF Cleaning, Objects
    <3>2. entry'[s[1]] = s
      BY <1>2, <3>1
    <3>3. pc[Cleaner] # "mark" => state'[s] \in {"completed", "error"}
      BY <1>1, <2>2, <3>1, IgnoresForGood DEF Cleaning
    <3>4. pc'[Cleaner] = pc[Cleaner] /\ ref'[Cleaner] = s
      BY <1>2
    <3>5. QED
      BY <1>1, <3>1, <3>2, <3>3, <3>4 DEF Cleaning, Ignores
  <2>3. QED
    BY <2>1, <2>2
<1>3. ASSUME NEW p \in Readers, Read(p) \/ Reader(p) PROVE Cleaning'
  <2>1. \E l \in Points : pc' = [pc EXCEPT ![p] = l]
    BY <1>3 DEF Read, Reader, Receive, PauseGet, Pause, Handle, EnsureStream, Lookup,
                AddChunk, Release, ResumeGet, Returns, Charged, Handled, Points
  <2>2. ref' = ref \/ ref' = [ref EXCEPT ![p] = entry[job[p][1]]]
    BY <1>3 DEF Read, Reader, Receive, PauseGet, Pause, Handle, EnsureStream, Lookup,
                AddChunk, Release, ResumeGet
  <2>3. UNCHANGED <<pc[Cleaner], ref[Cleaner]>>
    BY <1>1, <2>1, <2>2 DEF TypeOK
  <2>4. \A id \in Ids : entry[id] # None => entry'[id] = entry[id]
    <3>1. CASE EnsureStream(p)
      BY <1>1, <3>1 DEF TypeOK, EnsureStream
    <3>2. CASE ~EnsureStream(p)
      <4>1. entry' = entry
        BY <1>3, <3>2
           DEF managed, Read, Reader, Receive, PauseGet, Pause, Handle, Lookup, AddChunk,
               Release, ResumeGet
      <4>2. QED
        BY <4>1
    <3>3. QED
      BY <3>1, <3>2
  <2>5. QED
    BY <1>2, <2>3, <2>4
<1>4. ASSUME NEW id \in Direct, RemoveWindow(id) PROVE Cleaning'
  BY <1>2, <1>4 DEF RemoveWindow, managed
<1>5. ASSUME Scan PROVE Cleaning'
  BY <1>1, <1>5 DEF TypeOK, Registered, Cleaning, Scan, managed
<1>6. ASSUME Mark PROVE Cleaning'
  BY <1>1, <1>6 DEF TypeOK, Cleaning, Mark, Condemned, Ignores
<1>7. ASSUME Remove PROVE Cleaning'
  BY <1>1, <1>7 DEF TypeOK, Cleaning, Remove, managed, Ignores
<1>8. ASSUME Destroy PROVE Cleaning'
  BY <1>1, <1>8 DEF TypeOK, Cleaning, Destroy
<1>9. CASE UNCHANGED vars
  BY <1>2, <1>9 DEF vars
<1>10. QED
  BY <1>3, <1>4, <1>5, <1>6, <1>7, <1>8, <1>9 DEF Next, Cleanup

\* A stream leaves the map only when it ignores chunks: what still points to it
\* writes to it no more.
LEMMA LateWriteStep ==
    ASSUME Pointers, NoWriteAfterDestroy, [Next]_vars PROVE NoWriteAfterDestroy'
<1> USE ReassemblyAssumption DEF At, Threads
<1>1. TypeOK /\ Placed /\ Registered /\ Cleaning
  BY DEF Pointers
<1>2. SUFFICES ASSUME NEW q \in Readers, pc'[q] = "add", entry'[ref'[q][1]] # ref'[q]
               PROVE  state'[ref'[q]] \in {"completed", "error"}
  BY DEF NoWriteAfterDestroy, Ignores
<1>3. CASE pc[q] = "add" /\ ref'[q] = ref[q]
  <2> DEFINE s == ref[q]
  <2>1. s \in Objects /\ s[1] \in Ids
    BY <1>1, <1>3 DEF Placed, Objects
  <2>2. CASE entry[s[1]] # s
    BY <1>3, <2>1, <2>2, IgnoresForGood DEF NoWriteAfterDestroy
  <2>3. CASE entry[s[1]] = s
    <3>1. entry'[s[1]] # entry[s[1]] /\ entry[s[1]] # None
      BY <1>2, <1>3, <2>1, <2>3
    <3>2. ASSUME NEW p \in Readers, EnsureStream(p) PROVE FALSE
      BY <1>1, <2>1, <3>1, <3>2 DEF EnsureStream, TypeOK
    <3>3. Destroy
      <4>1. entry' # entry
        BY <3>1
      <4>2. QED
        BY <3>2, <4>1
           DEF Next, Reader, Cleanup, vars, managed, Read, Receive, PauseGet, Pause,
               Handle, Lookup, AddChunk, Release, ResumeGet, RemoveWindow, Scan, Mark,
               Remove
    <3>4. ref[Cleaner][1] = s[1]
      BY <1>1, <2>1, <3>1, <3>3 DEF Destroy, Forget, TypeOK
    <3>5. ref[Cleaner] = s /\ Ignores(s)
      BY <1>1, <2>3, <3>3, <3>4 DEF Destroy, Cleaning
    <3>6. QED
      BY <1>3, <2>1, <3>5, IgnoresForGood
  <2>4. QED
    BY <2>2, <2>3
<1>4. CASE ~(pc[q] = "add" /\ ref'[q] = ref[q])
  <2>1. ASSUME NEW p \in Readers, Lookup(p), p # q PROVE FALSE
    BY <1>1, <1>2, <1>4, <2>1 DEF Lookup, TypeOK
  <2>2. ASSUME NEW p \in Readers, Read(p) \/ Reader(p), ~Lookup(p) PROVE FALSE
    <3>1. ref' = ref /\ \E l \in Points \ {"add"} : pc' = [pc EXCEPT ![p] = l]
      BY <2>2 DEF Read, Reader, Receive, PauseGet, Pause, Handle, EnsureStream, AddChunk,
                  Release, ResumeGet, Returns, Charged, Handled, Points
    <3>2. QED
      BY <1>1, <1>2, <1>4, <3>1 DEF TypeOK
  <2>3. ASSUME Cleanup \/ UNCHANGED vars \/ \E id \in Direct : RemoveWindow(id)
        PROVE  FALSE
    BY <1>1, <1>2, <1>4, <2>3
       DEF Cleanup, Scan, Mark, Remove, Destroy, vars, RemoveWindow, TypeOK
  <2>4. Lookup(q)
    BY <2>1, <2>2, <2>3 DEF Next, Reader
  <2>5. ref'[q] = entry[job[q][1]] /\ entry' = entry /\ job[q][1] \in Ids
    BY <1>1, <2>4 DEF Lookup, managed, TypeOK, Placed
  <2>6. entry[job[q][1]] # None
    BY <1>1, <1>2, <2>4 DEF Lookup, TypeOK
  <2>7. QED
    BY <1>1, <1>2, <2>5, <2>6 DEF Registered
<1>5. QED
  BY <1>3, <1>4

-----------------------------------------------------------------------------
(* Where the chunks are *)

\* What a step that neither reads a chunk nor adds one leaves as it is: a chunk
\* may be dropped, and stays where it is otherwise.
Quiet ==
    /\ UNCHANGED <<inflight, job, data, out>>
    /\ \A p \in Readers : pc'[p] \in Carrying => pc[p] \in Carrying
    /\ \A s \in Objects : chunks'[s] \subseteq chunks[s]

LEMMA QuietStep ==
    ASSUME Pointers, [Next]_vars, ~\E p \in Readers : Read(p) \/ AddChunk(p) PROVE Quiet
<1> USE ReassemblyAssumption DEF At, Threads, Carrying
<1>1. TypeOK /\ Placed
  BY DEF Pointers
<1>2. UNCHANGED <<inflight, job, data, out>>
  BY DEF Next, Reader, Cleanup, vars, managed, Receive, PauseGet, Pause, Handle,
         EnsureStream, Lookup, Release, ResumeGet, RemoveWindow, Scan, Mark, Remove,
         Destroy
<1>3. \A s \in Objects : chunks'[s] \subseteq chunks[s]
  <2>1. chunks' = chunks \/ chunks' = [chunks EXCEPT ![ref[Cleaner]] = {}]
    BY DEF Next, Reader, Cleanup, vars, managed, Receive, PauseGet, Pause, Handle,
           EnsureStream, Lookup, Release, ResumeGet, RemoveWindow, Scan, Mark, Remove,
           Destroy
  <2>2. QED
    BY ZenonT(40), <1>1, <2>1 DEF TypeOK
<1>4. ASSUME NEW p \in Readers, Reader(p) PROVE Quiet
  <2>1. \E l \in Points : pc' = [pc EXCEPT ![p] = l] /\ (l \in Carrying => pc[p] \in Carrying)
    BY <1>4 DEF Reader, Receive, PauseGet, Pause, Handle, EnsureStream, Lookup, Release,
                ResumeGet, Returns, Charged, Handled, Points
  <2>2. \A q \in Readers : pc'[q] \in Carrying => pc[q] \in Carrying
    BY <1>1, <2>1 DEF TypeOK
  <2>3. QED
    BY <1>2, <1>3, <2>2 DEF Quiet
<1>5. CASE Cleanup \/ UNCHANGED vars \/ \E id \in Direct : RemoveWindow(id)
  <2>1. \A q \in Readers : pc'[q] \in Carrying => pc[q] \in Carrying
    BY <1>1, <1>5
       DEF Cleanup, Scan, Mark, Remove, Destroy, vars, RemoveWindow, TypeOK
  <2>2. QED
    BY <1>2, <1>3, <2>1 DEF Quiet
<1>6. QED
  BY <1>4, <1>5 DEF Next

\* What reading a chunk does.
LEMMA ReadStep ==
    ASSUME Pointers, NEW p \in Readers, Read(p)
    PROVE  /\ \E c \in inflight :
                 /\ c \in Ids \X Chunks
                 /\ inflight' = inflight \ {c}
                 /\ job' = [job EXCEPT ![p] = c]
           /\ \A q \in Readers : q # p => pc'[q] = pc[q]
           /\ pc[p] = "idle"
           /\ UNCHANGED <<chunks, data, out>>
  BY DEF Pointers, TypeOK, Read, managed, At, Threads

\* What adding a chunk does to where chunks are.
LEMMA AddStep ==
    ASSUME Pointers, Prefixes, NEW p \in Readers, AddChunk(p)
    PROVE  /\ UNCHANGED <<inflight, job>>
           /\ \A q \in Readers : q # p => pc'[q] = pc[q]
           /\ pc[p] = "add" /\ pc'[p] \in {"idle", "release"}
           /\ ref[p] \in Objects /\ ref[p][1] \in Ids /\ job[p][2] \in Chunks
           /\ job[p] = <<ref[p][1], job[p][2]>>
           /\ \A s \in Objects : s # ref[p] => chunks'[s] = chunks[s] /\ data'[s] = data[s]
           /\ \A k \in Chunks : k \in chunks'[ref[p]] \/ k < Len(data'[ref[p]]) =>
                 Got(ref[p], k) \/ k = job[p][2]
           /\ Len(data'[ref[p]]) <= Last + 1
           /\ data'[ref[p]] = Run(0, Len(data'[ref[p]]))
           /\ \/ out' = out
              \/ /\ out' = [out EXCEPT ![ref[p][1]] = @ \o data'[ref[p]]]
                 /\ Len(data'[ref[p]]) = Last + 1
<1> DEFINE s == ref[p]
           c == chunks[s] \cup {job[p][2]}
           d == Reassembled(s, c)
<1> USE ReassemblyAssumption
<1>1. TypeOK /\ Placed
  BY DEF Pointers
<1>2. /\ s \in Objects /\ s[1] \in Ids /\ s[1] = job[p][1]
      /\ job[p] \in Ids \X Chunks /\ pc[p] = "add"
  BY <1>1 DEF AddChunk, Placed, Objects
<1>3. job[p][2] \in Chunks /\ job[p] = <<s[1], job[p][2]>>
  BY <1>2
<1>4. UNCHANGED <<inflight, job>>
  BY DEF AddChunk
<1>5. /\ \A q \in Readers : q # p => pc'[q] = pc[q]
      /\ pc'[p] \in {"idle", "release"}
  <2>1. pc' = [pc EXCEPT ![p] = "idle"] \/ pc' = [pc EXCEPT ![p] = "release"]
    BY DEF AddChunk, At
  <2>2. QED
    BY <1>1, <2>1 DEF TypeOK, Threads
<1>6. /\ d \in Seq(Chunks)
      /\ d = Run(0, Len(d))
      /\ Len(d) \in Len(data[s]) .. Last + 1
      /\ \A k \in Len(data[s]) .. Len(d) - 1 : k \in c
  BY <1>1, <1>2, TryReassemble DEF TypeOK, Prefixes
<1>7. \/ UNCHANGED <<chunks, data, out>>
      \/ /\ chunks' = [chunks EXCEPT ![s] = {k \in c : k >= Len(d)}]
         /\ data' = [data EXCEPT ![s] = d]
         /\ \/ out' = out
            \/ out' = [out EXCEPT ![s[1]] = @ \o d] /\ Len(d) > Last
  BY DEF AddChunk, Complete
<1> HIDE DEF c, d
<1>8. CASE UNCHANGED <<chunks, data, out>>
  BY <1>1, <1>2, <1>3, <1>4, <1>5, <1>8 DEF Prefixes, Got, AddChunk
<1>9. CASE /\ chunks' = [chunks EXCEPT ![s] = {k \in c : k >= Len(d)}]
           /\ data' = [data EXCEPT ![s] = d]
           /\ \/ out' = out
              \/ out' = [out EXCEPT ![s[1]] = @ \o d] /\ Len(d) > Last
  <2>1. chunks'[s] = {k \in c : k >= Len(d)} /\ data'[s] = d
    BY <1>1, <1>2, <1>9 DEF TypeOK
  <2>2. \A t \in Objects : t # s => chunks'[t] = chunks[t] /\ data'[t] = data[t]
    BY <1>1, <1>9 DEF TypeOK
  <2>4. \A k \in Chunks : k \in chunks'[s] \/ k < Len(data'[s]) =>
           Got(s, k) \/ k = job[p][2]
    <3> SUFFICES ASSUME NEW k \in Chunks, k \in chunks'[s] \/ k < Len(data'[s])
                 PROVE  k \in chunks[s] \/ k < Len(data[s]) \/ k = job[p][2]
      BY DEF Got
    <3>1. Len(data[s]) \in Nat /\ Len(d) \in Nat /\ k \in Nat
      BY <1>1, <1>2, <1>6 DEF TypeOK, Chunks
    <3>2. k \in c \/ k < Len(data[s])
      BY <1>6, <2>1, <3>1
    <3>3. QED
      BY <3>2 DEF c
  <2>5. Len(d) <= Last + 1 /\ (Len(d) > Last => Len(d) = Last + 1)
    BY <1>1, <1>2, <1>6 DEF TypeOK
  <2>6. QED
    BY <1>2, <1>3, <1>4, <1>5, <1>6, <1>9, <2>1, <2>2, <2>4, <2>5
<1>10. QED
  BY <1>7, <1>8, <1>9

\* Streams assemble beginnings of messages.
LEMMA PrefixStep == ASSUME Pointers, Prefixes, [Next]_vars PROVE Prefixes'
<1>1. ASSUME NEW p \in Readers, AddChunk(p) PROVE Prefixes'
  <2> SUFFICES ASSUME NEW s \in Objects
               PROVE  Len(data'[s]) <= Last + 1 /\ data'[s] = Run(0, Len(data'[s]))
    BY DEF Prefixes, Run
  <2>1. QED
    BY <1>1, AddStep DEF Prefixes
<1>2. CASE UNCHANGED data
  BY <1>2 DEF Prefixes, Run
<1>3. QED
  BY <1>1, <1>2, QuietStep, ReadStep DEF Quiet

\* A chunk that is nowhere any more stays gone.
LEMMA GoneForGood ==
    ASSUME Pointers, Prefixes, [Next]_vars, NEW id \in Ids, NEW k \in Chunks, Gone(id, k)
    PROVE  Gone(id, k)'
<1>1. ASSUME NEW p \in Readers, Read(p) PROVE Gone(id, k)'
  <2>1. PICK c \in inflight : inflight' = inflight \ {c} /\ job' = [job EXCEPT ![p] = c]
    BY <1>1, ReadStep
  <2>2. \A q \in Readers : q # p => job'[q] = job[q] /\ pc'[q] = pc[q]
    BY <1>1, <2>1, ReadStep DEF Pointers, TypeOK
  <2>3. job'[p] = c /\ c # <<id, k>>
    BY <2>1 DEF Pointers, TypeOK, Gone
  <2>4. \A q \in Readers : ~(pc'[q] \in Carrying /\ job'[q] = <<id, k>>)
    BY <2>2, <2>3 DEF Gone, Carries
  <2>5. QED
    BY <2>1, <2>4 DEF Gone, Carries
<1>2. ASSUME NEW p \in Readers, AddChunk(p) PROVE Gone(id, k)'
  BY <1>2, AddStep DEF Gone, Carries, Carrying
<1>3. CASE Quiet
  BY <1>3 DEF Quiet, Gone, Carries
<1>4. QED
  BY <1>1, <1>2, <1>3, QuietStep

\* A chunk is in one place at a time.
LEMMA OnePlaceStep == ASSUME Pointers, Prefixes, OnePlace, [Next]_vars PROVE OnePlace'
<1>1. TypeOK
  BY DEF Pointers
<1>2. \A s \in Objects, k \in Chunks : s[1] \in Ids /\ (Got(s, k) => Gone(s[1], k)')
  BY GoneForGood DEF OnePlace, Objects
<1>3. ASSUME NEW p \in Readers, Read(p) PROVE OnePlace'
  <2>1. PICK c \in inflight :
           /\ c \in Ids \X Chunks
           /\ inflight' = inflight \ {c}
           /\ job' = [job EXCEPT ![p] = c]
    BY <1>3, ReadStep
  <2>2. job'[p] = c /\ \A q \in Readers : q # p => job'[q] = job[q] /\ pc'[q] = pc[q]
    BY <1>1, <1>3, <2>1, ReadStep DEF TypeOK
  <2>3. \A q \in Readers, x \in Ids \X Chunks :
           (pc'[q] \in Carrying /\ job'[q] = x) =>
              (q = p /\ x = c) \/ (q # p /\ Carries(q, x))
    BY <2>2 DEF Carries
  <2>4. \A q \in Readers : ~Carries(q, c)
    BY DEF OnePlace
  <2>5. \A q \in Readers, x \in inflight' : ~Carries(q, x)'
    BY <1>1, <2>1, <2>3 DEF OnePlace, TypeOK, Carries
  <2>6. \A q, r \in Readers : \A x \in Ids \X Chunks :
           Carries(q, x)' /\ Carries(r, x)' => q = r
    BY <2>3, <2>4 DEF OnePlace, Carries
  <2>7. \A s \in Objects, k \in Chunks : Got(s, k)' => Gone(s[1], k)'
    BY <1>2, <1>3, ReadStep DEF Got
  <2>8. QED
    BY <2>5, <2>6, <2>7 DEF OnePlace
<1>4. ASSUME NEW p \in Readers, AddChunk(p) PROVE OnePlace'
  <2>1. /\ UNCHANGED <<inflight, job>>
        /\ \A q \in Readers, x \in Ids \X Chunks : Carries(q, x)' => q # p /\ Carries(q, x)
    BY <1>4, AddStep DEF Carries, Carrying
  <2>2. /\ \A q \in Readers, x \in inflight' : ~Carries(q, x)'
        /\ \A q, r \in Readers : \A x \in Ids \X Chunks :
              Carries(q, x)' /\ Carries(r, x)' => q = r
    BY <1>1, <2>1 DEF OnePlace, TypeOK
  <2>3. PICK t \in Objects, j \in Chunks :
           t = ref[p] /\ j = job[p][2] /\ t[1] \in Ids /\ Carries(p, <<t[1], j>>)
    BY <1>4, AddStep DEF Carries, Carrying
  <2>4. Gone(t[1], j)'
    <3>1. <<t[1], j>> \in Ids \X Chunks /\ <<t[1], j>> \notin inflight'
      BY <2>1, <2>3 DEF OnePlace
    <3>2. \A q \in Readers : ~Carries(q, <<t[1], j>>)'
      BY <2>1, <2>3, <3>1 DEF OnePlace
    <3>3. QED
      BY <3>1, <3>2 DEF Gone
  <2>5. ASSUME NEW s \in Objects, NEW k \in Chunks, Got(s, k)' PROVE Gone(s[1], k)'
    <3>1. CASE s # t
      <4>1. Got(s, k)
        BY <1>4, <2>3, <2>5, <3>1, AddStep DEF Got
      <4>2. QED
        BY <1>2, <4>1
    <3>2. CASE s = t
      <4>1. Got(s, k) \/ k = j
        BY <1>4, <2>3, <2>5, <3>2, AddStep DEF Got
      <4>2. QED
        BY <1>2, <2>4, <3>2, <4>1
    <3>3. QED
      BY <3>1, <3>2
  <2>6. QED
    BY <2>2, <2>5 DEF OnePlace
<1>5. CASE Quiet
  <2>1. /\ inflight' = inflight
        /\ \A q \in Readers, x \in Ids \X Chunks : Carries(q, x)' => Carries(q, x)
    BY <1>5 DEF Quiet, Carries
  <2>2. /\ \A q \in Readers, x \in inflight' : ~Carries(q, x)'
        /\ \A q, r \in Readers : \A x \in Ids \X Chunks :
              Carries(q, x)' /\ Carries(r, x)' => q = r
    BY <1>1, <2>1 DEF OnePlace, TypeOK
  <2>3. \A s \in Objects, k \in Chunks : Got(s, k)' => Got(s, k)
    BY <1>5 DEF Quiet, Got
  <2>4. QED
    BY <1>2, <2>2, <2>3 DEF OnePlace
<1>6. QED
  BY <1>3, <1>4, <1>5, QuietStep

\* A handler is given a whole message, by the read loop that had its last chunk.
LEMMA DeliveredStep ==
    ASSUME Pointers, Prefixes, OnePlace, Delivered, [Next]_vars
    PROVE  /\ Delivered'
           /\ \/ out' = out
              \/ \E id \in Ids :
                    out[id] = <<>> /\ out' = [out EXCEPT ![id] = Run(0, Last + 1)]
<1>1. TypeOK
  BY DEF Pointers
<1>2. CASE out' = out
  <2>1. ASSUME NEW id \in Ids, out[id] # <<>>
        PROVE  out'[id] = Run(0, Last + 1) /\ \A k \in Chunks : Gone(id, k)'
    BY <1>2, <2>1, GoneForGood DEF Delivered
  <2>2. QED
    BY <1>2, <2>1 DEF Delivered, Run
<1>3. ASSUME NEW p \in Readers, AddChunk(p), out' # out
      PROVE  /\ Delivered'
             /\ \E id \in Ids :
                   out[id] = <<>> /\ out' = [out EXCEPT ![id] = Run(0, Last + 1)]
  <2>1. PICK s \in Objects, j \in Chunks :
           /\ s = ref[p] /\ s[1] \in Ids
           /\ pc[p] = "add" /\ job[p] = <<s[1], j>>
           /\ out' = [out EXCEPT ![s[1]] = @ \o data'[s]]
           /\ Len(data'[s]) = Last + 1 /\ data'[s] = Run(0, Last + 1)
    <3>1. /\ ref[p] \in Objects /\ job[p][2] \in Chunks /\ ref[p][1] \in Ids
          /\ pc[p] = "add" /\ job[p] = <<ref[p][1], job[p][2]>>
      BY <1>3, AddStep
    <3>2. /\ out' = [out EXCEPT ![ref[p][1]] = @ \o data'[ref[p]]]
          /\ Len(data'[ref[p]]) = Last + 1
          /\ data'[ref[p]] = Run(0, Len(data'[ref[p]]))
      BY <1>3, AddStep
    <3>3. data'[ref[p]] = Run(0, Last + 1)
      BY <3>2
    <3>4. QED
      BY <3>1, <3>2, <3>3
  <2>2. ~Gone(s[1], j)
    BY <2>1 DEF Gone, Carries, Carrying
  <2>3. out[s[1]] = <<>>
    BY <2>1, <2>2 DEF Delivered
  <2>4. Run(0, Last + 1) \in Seq(Chunks)
    <3>1. 0 \in Nat /\ Last + 1 \in Nat /\ 0 + (Last + 1) <= Last + 1
      BY ReassemblyAssumption
    <3>2. QED
      BY <3>1, RunIsSeq
  <2>5. <<>> \o Run(0, Last + 1) = Run(0, Last + 1)
    BY <2>4, ConcatEmptySeq
  <2>6. out' = [out EXCEPT ![s[1]] = Run(0, Last + 1)]
    BY <2>1, <2>3, <2>5
  <2>7. \A k \in Chunks : Gone(s[1], k)'
    <3>1. OnePlace'
      BY <1>3, OnePlaceStep
    <3>2. \A k \in Chunks : k < Len(data'[s])
      BY <2>1, ReassemblyAssumption DEF Chunks
    <3>3. QED
      BY <3>1, <3>2 DEF OnePlace, Got
  <2>8. ASSUME NEW id \in Ids
        PROVE  \/ out'[id] = <<>>
               \/ out'[id] = Run(0, Last + 1) /\ \A k \in Chunks : Gone(id, k)'
    <3>1. CASE id = s[1]
      <4>1. out'[id] = Run(0, Last + 1)
        BY <1>1, <2>6, <3>1 DEF TypeOK
      <4>2. QED
        BY <2>7, <3>1, <4>1
    <3>2. CASE id # s[1]
      <4>1. out'[id] = out[id]
        BY <1>1, <2>6, <3>2 DEF TypeOK
      <4>2. QED
        BY <4>1, GoneForGood DEF Delivered
    <3>3. QED
      BY <3>1, <3>2
  <2>9. Delivered'
    BY <2>8 DEF Delivered, Run
  <2>10. QED
    BY <2>1, <2>3, <2>6, <2>9
<1>4. QED
  BY <1>2, <1>3, QuietStep, ReadStep DEF Quiet

-----------------------------------------------------------------------------
(* Who holds a stream *)

\* A stream's mutex stays with the goroutine that calls OnComplete, and the stream
\* stays registered.
LEMMA HeldStep ==
    ASSUME IInv, [Next]_vars, NEW q \in Readers, NEW s \in Objects, sMu[s] = q,
           pc'[q] \in {"release", "resumeGet", "resumeLock"}
    PROVE  /\ sMu'[s] = q
           /\ \A id \in Ids : entry[id] = s => entry'[id] = s
<1> USE ReassemblyAssumption DEF At, Threads
<1>1. TypeOK /\ Cleaning
  BY DEF IInv, Pointers
<1>2. q # None /\ s # None
  OBVIOUS
<1>3. sMu'[s] = q
  <2>1. CASE sMu' = sMu
    BY <2>1
  <2>2. ASSUME NEW p \in Readers, AddChunk(p) PROVE sMu'[s] = q
    <3>1. \/ sMu' = sMu
          \/ sMu[ref[p]] = None /\ sMu' = [sMu EXCEPT ![ref[p]] = p]
      BY <2>2 DEF AddChunk, CallsLocked
    <3>2. QED
      BY <1>1, <1>2, <3>1 DEF TypeOK
  <2>3. ASSUME NEW p \in Readers, Returns(p) PROVE sMu'[s] = q
    <3>1. p # q
      BY <1>1, <2>3 DEF TypeOK, Returns
    <3>2. QED
      BY <2>3, <3>1 DEF Returns
  <2>4. QED
    BY <2>1, <2>2, <2>3
       DEF Next, Reader, Cleanup, vars, managed, Read, Receive, PauseGet, Pause, Handle,
           EnsureStream, Lookup, Release, ResumeGet, RemoveWindow, Scan, Mark, Remove,
           Destroy
<1>4. ASSUME NEW id \in Ids, entry[id] = s PROVE entry'[id] = s
  <2>1. CASE entry' = entry
    BY <1>4, <2>1
  <2>2. ASSUME NEW p \in Readers, EnsureStream(p) PROVE entry'[id] = s
    BY <1>1, <1>2, <1>4, <2>2 DEF EnsureStream, TypeOK
  <2>3. ASSUME Destroy PROVE entry'[id] = s
    <3>1. ref[Cleaner] # s /\ entry[ref[Cleaner][1]] = ref[Cleaner]
      BY <1>1, <1>2, <2>3 DEF Destroy, Cleaning
    <3>2. id # ref[Cleaner][1]
      BY <1>4, <3>1
    <3>3. QED
      BY <1>1, <1>4, <2>3, <3>2 DEF Destroy, Forget, TypeOK
  <2>4. QED
    BY <2>1, <2>2, <2>3
       DEF Next, Reader, Cleanup, vars, managed, Read, Receive, PauseGet, Pause, Handle,
           Lookup, AddChunk, Release, ResumeGet, RemoveWindow, Scan, Mark, Remove
<1>5. QED
  BY <1>3, <1>4

\* No stream has the id of a message that is not streamed.
LEMMA StreamedStep ==
    ASSUME IInv, [Next]_vars
    PROVE  /\ \A id \in Direct : entry'[id] = None
           /\ \A p \in Readers :
                 pc'[p] \in {"ensure", "lookup", "add"} => job'[p][1] \in Streamed
<1> USE ReassemblyAssumption DEF At, Threads
<1>1. TypeOK /\ Placed /\ Cleaning /\ Locked
  BY DEF IInv, Pointers
<1>2. ASSUME NEW id \in Direct PROVE entry'[id] = None
  <2>1. entry[id] = None /\ id \in Ids
    BY <1>1 DEF Locked, Ids
  <2>2. ASSUME NEW p \in Readers, EnsureStream(p) PROVE entry'[id] = None
    <3>1. job[p][1] # id
      BY <1>1, <2>2 DEF EnsureStream, Locked
    <3>2. QED
      BY <1>1, <2>1, <2>2, <3>1 DEF EnsureStream, TypeOK
  <2>3. ASSUME Destroy PROVE entry'[id] = None
    BY <1>1, <2>1, <2>3 DEF Destroy, Forget, TypeOK
  <2>4. QED
    BY <2>1, <2>2, <2>3
       DEF Next, Reader, Cleanup, vars, managed, Read, Receive, PauseGet, Pause, Handle,
           Lookup, AddChunk, Release, ResumeGet, RemoveWindow, Scan, Mark, Remove
<1>3. ASSUME NEW q \in Readers, pc'[q] \in {"ensure", "lookup", "add"}
      PROVE  job'[q][1] \in Streamed
  <2>1. ASSUME NEW p \in Readers, Read(p) PROVE job'[q][1] \in Streamed
    BY <1>1, <1>3, <2>1 DEF Read, Charged, Streams, TypeOK, Locked
  <2>2. ASSUME NEW p \in Readers, Reader(p) PROVE job'[q][1] \in Streamed
    <3>1. /\ job' = job
          /\ \E l \in Points :
                /\ pc' = [pc EXCEPT ![p] = l]
                /\ l \in {"ensure", "lookup", "add"} =>
                      Streams(job[p][1]) \/ pc[p] \in {"ensure", "lookup", "add"}
      BY <2>2 DEF Reader, Receive, PauseGet, Pause, Handle, EnsureStream, Lookup, AddChunk,
                  Release, ResumeGet, Returns, Charged, Handled, Points
    <3>2. QED
      BY <1>1, <1>3, <3>1 DEF TypeOK, Locked, Streams
  <2>3. CASE Cleanup \/ UNCHANGED vars \/ \E id \in Direct : RemoveWindow(id)
    BY <1>1, <1>3, <2>3
       DEF Cleanup, Scan, Mark, Remove, Destroy, vars, RemoveWindow, TypeOK, Locked
  <2>4. QED
    BY <2>1, <2>2, <2>3 DEF Next
<1>4. QED
  BY <1>2, <1>3

\* OnComplete is called with the stream's mutex held, and the stream that a resume
\* looks up from there is that very one.
LEMMA LockedStep == ASSUME IInv, [Next]_vars PROVE Locked' /\ ResumeLocksItself'
<1> USE ReassemblyAssumption DEF At, Threads
<1>1. TypeOK /\ Placed /\ Cleaning /\ Locked /\ NoWriteAfterDestroy /\ ResumeLocksItself
  BY DEF IInv, Pointers
<1>2. ASSUME NEW q \in Readers, pc'[q] \in {"release", "resumeGet"}, job'[q][1] \notin Direct
      PROVE  ref'[q] \in Objects /\ sMu'[ref'[q]] = q /\ entry'[job'[q][1]] = ref'[q]
  <2>1. CASE UNCHANGED <<job[q], ref[q]>> /\ pc[q] \in {"release", "resumeGet"}
    <3>1. /\ ref[q] \in Objects /\ sMu[ref[q]] = q
          /\ job[q][1] \in Ids /\ entry[job[q][1]] = ref[q]
      BY <1>1, <1>2, <2>1 DEF Locked, Placed
    <3>2. QED
      BY <1>2, <2>1, <3>1, HeldStep
  <2>2. ASSUME AddChunk(q) PROVE ref'[q] \in Objects /\ sMu'[ref'[q]] = q /\ entry'[job'[q][1]] = ref'[q]
    <3>1. ref[q] \in Objects /\ ref[q][1] = job[q][1] /\ pc[q] = "add" /\ pc'[q] # "idle"
      BY <1>1, <1>2, <2>2 DEF AddChunk, Placed
    <3>2. ~Ignores(ref[q]) /\ sMu' = [sMu EXCEPT ![ref[q]] = q]
      BY <1>1, <2>2, <3>1 DEF AddChunk, CallsLocked, TypeOK
    <3>3. entry[ref[q][1]] = ref[q]
      BY <1>1, <3>1, <3>2 DEF NoWriteAfterDestroy
    <3>4. UNCHANGED <<ref, job, entry>>
      BY <2>2 DEF AddChunk
    <3>5. QED
      BY <1>1, <3>1, <3>2, <3>3, <3>4 DEF TypeOK
  <2>3. ASSUME NEW p \in Readers, p # q, Read(p) \/ Reader(p)
        PROVE  UNCHANGED <<job[q], ref[q]>> /\ pc[q] \in {"release", "resumeGet"}
    <3>1. /\ \E l \in Points : pc' = [pc EXCEPT ![p] = l]
          /\ ref' = ref \/ ref' = [ref EXCEPT ![p] = entry[job[p][1]]]
          /\ job' = job \/ \E c \in inflight : job' = [job EXCEPT ![p] = c]
      BY <2>3 DEF Read, Reader, Receive, PauseGet, Pause, Handle, EnsureStream, Lookup,
                  AddChunk, Release, ResumeGet, Returns, Charged, Handled, Points
    <3>2. QED
      BY <1>1, <1>2, <2>3, <3>1 DEF TypeOK
  <2>4. ASSUME Read(q) \/ Reader(q), ~AddChunk(q)
        PROVE  UNCHANGED <<job[q], ref[q]>> /\ pc[q] \in {"release", "resumeGet"}
    <3>1. ~Handle(q)
      BY <1>1, <1>2 DEF Handle, Handled, TypeOK
    <3>2. Release(q)
      BY <1>1, <1>2, <2>4, <3>1
         DEF Read, Reader, Receive, PauseGet, Pause, EnsureStream, Lookup, ResumeGet,
             Returns, Charged, TypeOK
    <3>3. QED
      BY <3>2 DEF Release
  <2>5. CASE Cleanup \/ UNCHANGED vars \/ \E id \in Direct : RemoveWindow(id)
    BY <1>1, <1>2, <2>1, <2>5
       DEF Cleanup, Scan, Mark, Remove, Destroy, vars, RemoveWindow, TypeOK
  <2>6. QED
    BY <2>1, <2>2, <2>3, <2>4, <2>5 DEF Next
<1>3. ASSUME NEW q \in Readers, pc'[q] = "resumeLock" PROVE sMu'[resumed'[q]] = q
  <2>1. CASE pc[q] = "resumeLock" /\ resumed'[q] = resumed[q]
    <3>1. resumed[q] \in Objects /\ sMu[resumed[q]] = q
      BY <1>1, <2>1 DEF Placed, ResumeLocksItself
    <3>2. QED
      BY <1>3, <2>1, <3>1, HeldStep
  <2>2. ASSUME ResumeGet(q) PROVE sMu'[resumed'[q]] = q
    <3>1. pc[q] = "resumeGet" /\ job[q][1] \in Ids
      BY <1>1, <2>2 DEF ResumeGet, Placed
    <3>2. entry[job[q][1]] # None /\ sMu' = sMu /\ resumed'[q] = entry[job[q][1]]
      BY <1>1, <1>3, <2>2, <3>1 DEF ResumeGet, Returns, TypeOK
    <3>3. QED
      BY <1>1, <3>1, <3>2 DEF Locked
  <2>3. ASSUME NEW p \in Readers, Read(p) \/ Reader(p), ~ResumeGet(q)
        PROVE  pc[q] = "resumeLock" /\ resumed'[q] = resumed[q]
    <3>1. ASSUME ~ResumeGet(p)
          PROVE  /\ \E l \in Points \ {"resumeLock"} : pc' = [pc EXCEPT ![p] = l]
                 /\ resumed' = resumed \/ resumed' = [resumed EXCEPT ![p] = entry[job[p][1]]]
      BY <2>3, <3>1
         DEF Read, Reader, Receive, PauseGet, Pause, Handle, EnsureStream, Lookup,
             AddChunk, Release, Returns, Charged, Handled, Points
    <3>2. p # q
      BY <1>1, <1>3, <2>3, <3>1 DEF TypeOK
    <3>3. QED
      BY <1>1, <1>3, <2>3, <3>1, <3>2 DEF TypeOK, ResumeGet, Returns
  <2>4. CASE Cleanup \/ UNCHANGED vars \/ \E id \in Direct : RemoveWindow(id)
    BY <1>1, <1>3, <2>1, <2>4
       DEF Cleanup, Scan, Mark, Remove, Destroy, vars, RemoveWindow, TypeOK
  <2>5. QED
    BY <2>1, <2>2, <2>3, <2>4 DEF Next
<1>4. QED
  BY <1>2, <1>3, StreamedStep DEF Locked, ResumeLocksItself

-----------------------------------------------------------------------------
(* The window of a TCP stream *)

\* The goroutines that owe id's window a release: what a window lacks was charged by
\* one of them.  One that found the window empty owes nothing and releases all the same.
Owes(p, id) == job[p] # None /\ job[p][1] = id /\ pc[p] \in {"direct", "release"}
Debtors(id) == {p \in Readers : Owes(p, id)}
Owed ==
    \A id \in Direct :
        /\ IsFiniteSet(Debtors(id))
        /\ window[id] # None => MaxWindow <= window[id] + Cardinality(Debtors(id))

\* Where flow control is not agreed, nobody charges or releases and no mutex is kept over
\* a step but the manager's; where streaming is not, there is no stream.
Unused ==
    /\ ~Flow =>
          /\ \A p \in Readers : pc[p] \in {"idle", "direct", "ensure", "lookup", "add"}
          /\ \A s \in Objects : sMu[s] = None
          /\ \A id \in Ids : window[id] = None
    /\ "streaming" \notin caps =>
          /\ \A id \in Ids : entry[id] = None
          /\ \A p \in Readers : pc[p] \notin {"pauseLock", "ensure", "lookup", "add", "resumeLock"}
          /\ pc[Cleaner] = "idle"

\* Who keeps a mutex over a step.
Owners ==
    /\ fcMu # None => /\ fcMu \in Readers
                      /\ pc[fcMu] \in {"pauseGet", "pauseLock", "resumeGet", "resumeLock"}
    /\ smMu # None => smMu = Cleaner /\ pc[Cleaner] = "destroy"

\* One goroutine moves: it joins the debtors of id, leaves them, or neither.
LEMMA DebtorsStep ==
    ASSUME NEW p \in Readers, NEW id, IsFiniteSet(Debtors(id)),
           \A q \in Readers \ {p} : pc'[q] = pc[q] /\ job'[q] = job[q]
    PROVE  /\ IsFiniteSet(Debtors(id)')
           /\ Cardinality(Debtors(id)) \in Nat /\ Cardinality(Debtors(id)') \in Nat
           /\ Cardinality(Debtors(id)') >= Cardinality(Debtors(id)) - 1
           /\ Owes(p, id) => Cardinality(Debtors(id)) >= 1
           /\ (Owes(p, id)' \/ ~Owes(p, id)) => Cardinality(Debtors(id)') >= Cardinality(Debtors(id))
           /\ (Owes(p, id)' /\ ~Owes(p, id)) => Cardinality(Debtors(id)') = Cardinality(Debtors(id)) + 1
<1>1. \A q \in Readers \ {p} : Owes(q, id)' <=> Owes(q, id)
  BY DEF Owes
<1>2. PICK D, E : D = Debtors(id) /\ E = Debtors(id)'
  OBVIOUS
<1>3. /\ p \in D <=> Owes(p, id)
      /\ p \in E <=> Owes(p, id)'
      /\ E = D \/ E = D \cup {p} \/ E = D \ {p}
  BY <1>1, <1>2 DEF Debtors
<1>4. /\ IsFiniteSet(D) /\ Cardinality(D) \in Nat
      /\ IsFiniteSet(D \cup {p}) /\ IsFiniteSet(D \ {p})
      /\ Cardinality(D \cup {p}) = IF p \in D THEN Cardinality(D) ELSE Cardinality(D) + 1
      /\ Cardinality(D \ {p}) = IF p \in D THEN Cardinality(D) - 1 ELSE Cardinality(D)
      /\ Cardinality(D \ {p}) \in Nat
  BY <1>2, FS_AddElement, FS_RemoveElement, FS_CardinalityType
<1>5. /\ IsFiniteSet(E) /\ Cardinality(E) \in Nat /\ Cardinality(E) >= Cardinality(D) - 1
      /\ p \in D => Cardinality(D) >= 1
      /\ (p \in E \/ p \notin D) => Cardinality(E) >= Cardinality(D)
      /\ (p \in E /\ p \notin D) => Cardinality(E) = Cardinality(D) + 1
  <2>1. CASE E = D
    BY <1>4, <2>1
  <2>2. CASE E = D \cup {p}
    BY <1>4, <2>2
  <2>3. CASE E = D \ {p}
    BY <1>4, <2>3
  <2>4. QED
    BY <1>3, <2>1, <2>2, <2>3
<1>6. /\ IsFiniteSet(Debtors(id)')
      /\ Cardinality(Debtors(id)) \in Nat /\ Cardinality(Debtors(id)') \in Nat
      /\ Cardinality(Debtors(id)') >= Cardinality(Debtors(id)) - 1
  BY <1>2, <1>4, <1>5
<1>7. /\ Owes(p, id) => Cardinality(Debtors(id)) >= 1
      /\ (Owes(p, id)' \/ ~Owes(p, id)) => Cardinality(Debtors(id)') >= Cardinality(Debtors(id))
      /\ (Owes(p, id)' /\ ~Owes(p, id)) => Cardinality(Debtors(id)') = Cardinality(Debtors(id)) + 1
  BY <1>2, <1>3, <1>5
<1>8. QED
  BY <1>6, <1>7

\* A read loop moves nobody else, and never keeps the manager's mutex over a step.
LEMMA ReaderFrame ==
    ASSUME TypeOK, NEW p \in Readers, Read(p) \/ Reader(p)
    PROVE  /\ smMu' = smMu /\ pc'[Cleaner] = pc[Cleaner]
           /\ \A q \in Readers \ {p} : pc'[q] = pc[q] /\ job'[q] = job[q]
<1> USE ReassemblyAssumption DEF At
<1>1. smMu' = smMu
  BY DEF Read, Reader, Receive, PauseGet, Pause, Handle, EnsureStream, Lookup, AddChunk,
         Release, ResumeGet
<1>2. \E l : pc' = [pc EXCEPT ![p] = l]
  <2>1. CASE Read(p) \/ Receive(p) \/ PauseGet(p)
    BY <2>1 DEF Read, Receive, PauseGet
  <2>2. CASE Pause(p) \/ Handle(p) \/ EnsureStream(p)
    BY <2>2 DEF Pause, Handle, EnsureStream
  <2>3. CASE Lookup(p) \/ AddChunk(p)
    BY <2>3 DEF Lookup, AddChunk
  <2>4. CASE Release(p) \/ ResumeGet(p)
    BY <2>4 DEF Release, ResumeGet, Returns
  <2>5. QED
    BY <2>1, <2>2, <2>3, <2>4 DEF Reader
<1>3. job' = job \/ \E c : job' = [job EXCEPT ![p] = c]
  <2>1. CASE Read(p) \/ Receive(p) \/ PauseGet(p)
    BY <2>1 DEF Read, Receive, PauseGet
  <2>2. CASE Pause(p) \/ Handle(p) \/ EnsureStream(p)
    BY <2>2 DEF Pause, Handle, EnsureStream
  <2>3. CASE Lookup(p) \/ AddChunk(p)
    BY <2>3 DEF Lookup, AddChunk
  <2>4. CASE Release(p) \/ ResumeGet(p)
    BY <2>4 DEF Release, ResumeGet, Returns
  <2>5. QED
    BY <2>1, <2>2, <2>3, <2>4 DEF Reader
<1>4. /\ pc \in [Threads -> Points] /\ p \in Threads /\ Cleaner \in Threads /\ p # Cleaner
      /\ Readers \subseteq Threads
      /\ Readers \subseteq DOMAIN job
  BY DEF TypeOK, Threads
<1>5. QED
  BY <1>1, <1>2, <1>3, <1>4

LEMMA OwnersStep == ASSUME Pointers, Owners, [Next]_vars PROVE Owners'
<1> USE ReassemblyAssumption DEF At, Threads, Owners
<1>1. TypeOK /\ Placed
  BY DEF Pointers
<1>2. ASSUME NEW p \in Readers, Read(p) \/ Reader(p) PROVE Owners'
  <2>1. smMu' = smMu /\ pc'[Cleaner] = pc[Cleaner] /\ \A q \in Readers \ {p} : pc'[q] = pc[q]
    BY <1>1, <1>2, ReaderFrame
  <2>2. \/ fcMu' = None
        \/ fcMu' = p /\ pc'[p] \in {"pauseGet", "pauseLock", "resumeGet", "resumeLock"}
        \/ /\ fcMu' = fcMu
           /\ fcMu # p \/ pc[p] \notin {"pauseGet", "pauseLock", "resumeGet", "resumeLock"}
    <3>1. pc[p] \notin {"pauseGet", "pauseLock", "resumeGet"} => pc[p] # "resumeLock"
      BY <1>2
         DEF Read, Reader, Receive, PauseGet, Pause, Handle, EnsureStream, Lookup, AddChunk,
             Release, ResumeGet
    <3>2. CASE Receive(p)
      BY <1>1, <3>2 DEF Receive, TypeOK
    <3>3. CASE PauseGet(p)
      BY <1>1, <3>3 DEF PauseGet, TypeOK
    <3>4. CASE Pause(p)
      BY <3>4 DEF Pause
    <3>5. CASE Release(p)
      BY <1>1, <3>5 DEF Release, Returns, TypeOK
    <3>6. CASE ResumeGet(p)
      BY <1>1, <3>6 DEF ResumeGet, Returns, TypeOK
    <3>7. CASE Read(p) \/ Handle(p) \/ EnsureStream(p) \/ Lookup(p) \/ AddChunk(p)
      BY <3>7 DEF Read, Handle, EnsureStream, Lookup, AddChunk
    <3>8. QED
      BY <1>2, <3>2, <3>3, <3>4, <3>5, <3>6, <3>7 DEF Reader
  <2>3. QED
    BY <2>1, <2>2
<1>3. CASE UNCHANGED vars \/ \E id \in Direct : RemoveWindow(id)
  BY <1>3 DEF vars, RemoveWindow
<1>4. CASE Cleanup
  <2>1. fcMu' = fcMu /\ \A q \in Readers : pc'[q] = pc[q]
    BY <1>1, <1>4 DEF Cleanup, Scan, Mark, Remove, Destroy, TypeOK
  <2>2. smMu' # None => smMu' = Cleaner /\ pc'[Cleaner] = "destroy"
    BY <1>1, <1>4 DEF Cleanup, Scan, Mark, Remove, Destroy, TypeOK
  <2>3. QED
    BY <2>1, <2>2
<1>5. QED
  BY <1>2, <1>3, <1>4 DEF Next

LEMMA UnusedStep == ASSUME Pointers, Unused, [Next]_vars PROVE Unused'
<1> USE ReassemblyAssumption DEF At, Threads
<1>1. /\ TypeOK /\ Placed /\ Registered /\ Cleaning
      /\ caps' = caps /\ (Flow' <=> Flow)
  BY DEF Pointers, Next, Read, Reader, Receive, PauseGet, Pause, Handle, EnsureStream, Lookup,
         AddChunk, Release, ResumeGet, RemoveWindow, Cleanup, Scan, Mark, Remove, Destroy, vars,
         Flow
<1>2. ASSUME NEW p \in Readers, Read(p) \/ Reader(p), ~Flow
      PROVE  /\ \A q \in Readers : pc'[q] \in {"idle", "direct", "ensure", "lookup", "add"}
             /\ sMu' = sMu /\ window' = window
  <2>1. pc[p] \in {"idle", "direct", "ensure", "lookup", "add"}
    BY <1>2 DEF Unused
  <2>2. ~(Receive(p) \/ PauseGet(p) \/ Pause(p) \/ Release(p) \/ ResumeGet(p))
    BY <2>1 DEF Receive, PauseGet, Pause, Release, ResumeGet
  <2>3. /\ sMu' = sMu /\ window' = window
        /\ \E l \in {"idle", "direct", "ensure", "lookup", "add"} : pc' = [pc EXCEPT ![p] = l]
    <3>1. CASE AddChunk(p)
      BY <1>2, <3>1 DEF AddChunk
    <3>2. CASE Read(p)
      BY <1>2, <3>2 DEF Read, Charged
    <3>3. CASE Handle(p)
      BY <1>2, <3>3 DEF Handle, Handled
    <3>4. CASE EnsureStream(p) \/ Lookup(p)
      BY <3>4 DEF EnsureStream, Lookup
    <3>5. QED
      BY <1>2, <2>2, <3>1, <3>2, <3>3, <3>4 DEF Reader
  <2>4. QED
    BY <1>1, <1>2, <2>3 DEF Unused, TypeOK
<1>3. ASSUME NEW p \in Readers, Read(p) \/ Reader(p), "streaming" \notin caps
      PROVE  /\ \A q \in Readers : pc'[q] \notin {"pauseLock", "ensure", "lookup", "add", "resumeLock"}
             /\ entry' = entry /\ pc'[Cleaner] = pc[Cleaner]
  <2>1. /\ pc[p] \notin {"pauseLock", "ensure", "lookup", "add", "resumeLock"}
        /\ \A id \in Ids : entry[id] = None
    BY <1>3 DEF Unused
  <2>2. pc[p] # "idle" => job[p][1] \in Ids
    BY <1>1 DEF Placed
  <2>3. \A id : Charged(id) = "direct"
    BY <1>3 DEF Charged, Streams
  <2>4. entry' = entry /\ pc'[Cleaner] = pc[Cleaner] /\ \A q \in Readers \ {p} : pc'[q] = pc[q]
    <3>1. pc'[Cleaner] = pc[Cleaner] /\ \A q \in Readers \ {p} : pc'[q] = pc[q]
      BY <1>1, <1>3, ReaderFrame
    <3>2. entry' = entry
      BY <1>3, <2>1 DEF Read, Reader, Receive, PauseGet, Pause, Handle, EnsureStream, Lookup,
                        AddChunk, Release, ResumeGet, managed
    <3>3. QED
      BY <3>1, <3>2
  <2>5. pc'[p] \in {"idle", "charge", "pauseGet", "direct", "release", "resumeGet"}
    <3>1. \E l \in {"idle", "charge", "pauseGet", "direct", "release", "resumeGet"} :
             pc' = [pc EXCEPT ![p] = l]
      <4>1. CASE Read(p)
        BY <2>3, <4>1 DEF Read
      <4>2. CASE Receive(p)
        BY <2>3, <4>2 DEF Receive
      <4>3. CASE PauseGet(p)
        BY <2>1, <2>2, <2>3, <4>3 DEF PauseGet
      <4>4. CASE Handle(p)
        BY <4>4 DEF Handle, Handled
      <4>5. CASE Release(p) \/ ResumeGet(p)
        BY <2>1, <2>2, <4>5 DEF Release, ResumeGet, Returns
      <4>6. ~(Pause(p) \/ EnsureStream(p) \/ Lookup(p) \/ AddChunk(p))
        BY <2>1 DEF Pause, EnsureStream, Lookup, AddChunk
      <4>7. QED
        BY <1>3, <4>1, <4>2, <4>3, <4>4, <4>5, <4>6 DEF Reader
    <3>2. QED
      BY <1>1, <3>1 DEF TypeOK
  <2>6. QED
    BY <1>3, <2>4, <2>5 DEF Unused
<1>4. CASE \E p \in Readers : Read(p) \/ Reader(p)
  BY <1>1, <1>2, <1>3, <1>4 DEF Unused
<1>5. CASE UNCHANGED vars
  BY <1>5 DEF Unused, vars, Flow
<1>6. CASE \E id \in Direct : RemoveWindow(id)
  <2>1. Flow
    BY <1>6 DEF Unused, RemoveWindow, Ids
  <2>2. QED
    BY <1>1, <1>6, <2>1 DEF Unused, RemoveWindow, managed
<1>7. CASE Cleanup
  <2>1. sMu' = sMu /\ window' = window /\ \A q \in Readers : pc'[q] = pc[q]
    BY <1>1, <1>7 DEF Cleanup, Scan, Mark, Remove, Destroy, TypeOK
  <2>2. "streaming" \in caps
    BY <1>7 DEF Unused, Cleanup, Scan, Mark, Remove, Destroy
  <2>3. QED
    BY <1>1, <2>1, <2>2 DEF Unused
<1>8. QED
  BY <1>4, <1>5, <1>6, <1>7 DEF Next

\* A read loop's step, for one window: what is charged is owed, and who released owes
\* nothing any more.
LEMMA OwedByReader ==
    ASSUME IInv, Unused, Owed, NEW p \in Readers, Read(p) \/ Reader(p), NEW id \in Direct
    PROVE  /\ IsFiniteSet(Debtors(id)')
           /\ window'[id] # None => MaxWindow <= window'[id] + Cardinality(Debtors(id)')
<1> USE ReassemblyAssumption DEF At, Threads
<1>1. /\ TypeOK /\ Placed
      /\ id \in Ids /\ id \notin Streamed
      /\ window[id] \in (0 .. MaxWindow) \cup {None}
      /\ MaxWindow \in Nat /\ None \notin Nat
      /\ pc[p] # "idle" => job[p] \in Ids \X Chunks /\ job[p][1] \in Ids /\ job[p] # None
  <2>1. TypeOK /\ Placed /\ id \in Ids /\ id \notin Streamed
    BY DEF IInv, Pointers, Ids
  <2>2. window[id] \in (0 .. MaxWindow) \cup {None}
    BY <2>1 DEF TypeOK
  <2>3. pc[p] # "idle" => job[p] \in Ids \X Chunks
    BY <2>1 DEF Placed
  <2>4. QED
    BY <2>1, <2>2, <2>3
<1>2. \A q \in Readers \ {p} : pc'[q] = pc[q] /\ job'[q] = job[q]
  BY <1>1, ReaderFrame
<1>3. /\ IsFiniteSet(Debtors(id)')
      /\ Cardinality(Debtors(id)) \in Nat /\ Cardinality(Debtors(id)') \in Nat
      /\ Cardinality(Debtors(id)') >= Cardinality(Debtors(id)) - 1
      /\ Owes(p, id) => Cardinality(Debtors(id)) >= 1
      /\ (Owes(p, id)' \/ ~Owes(p, id)) => Cardinality(Debtors(id)') >= Cardinality(Debtors(id))
      /\ (Owes(p, id)' /\ ~Owes(p, id)) => Cardinality(Debtors(id)') = Cardinality(Debtors(id)) + 1
  BY <1>2, DebtorsStep DEF Owed
<1>4. window[id] # None => MaxWindow <= window[id] + Cardinality(Debtors(id))
  BY DEF Owed
<1>5. ASSUME window'[id] = window[id], Owes(p, id)' \/ ~Owes(p, id) \/ window[id] = None
      PROVE  window'[id] # None => MaxWindow <= window'[id] + Cardinality(Debtors(id)')
  BY <1>1, <1>3, <1>4, <1>5
<1>6. CASE Receive(p)
  <2>1. pc[p] = "charge" /\ ~Owes(p, id) /\ job' = job
    BY <1>6 DEF Receive, Owes
  <2>2. CASE job[p][1] # id
    <3>1. window'[id] = window[id]
      BY <1>1, <1>6, <2>1, <2>2 DEF Receive, TypeOK
    <3>2. QED
      BY <1>3, <1>5, <2>1, <3>1
  <2>3. CASE job[p][1] = id /\ window'[id] = window[id]
    BY <1>3, <1>5, <2>1, <2>3
  <2>4. CASE job[p][1] = id /\ window'[id] # window[id]
    <3>1. PICK w \in 0 .. MaxWindow : w = IF window[id] = None THEN MaxWindow ELSE window[id]
      BY <1>1
    <3>2. \/ w >= 1 /\ window'[id] = w - 1 /\ pc'[p] = Charged(id)
          \/ w < 1 /\ window[id] = None /\ window'[id] = w
      BY <1>1, <1>6, <2>4, <3>1 DEF Receive, TypeOK
    <3>3. CASE w >= 1 /\ window'[id] = w - 1 /\ pc'[p] = Charged(id)
      <4>1. Owes(p, id)'
        BY <1>1, <2>1, <2>4, <3>3 DEF Owes, Charged, Streams
      <4>2. MaxWindow <= w + Cardinality(Debtors(id))
        BY <1>1, <1>3, <1>4, <3>1
      <4>3. QED
        BY <1>1, <1>3, <2>1, <3>1, <3>3, <4>1, <4>2
    <3>4. CASE w < 1 /\ window[id] = None /\ window'[id] = w
      BY <1>1, <1>3, <3>1, <3>4
    <3>5. QED
      BY <3>2, <3>3, <3>4
  <2>5. QED
    BY <1>3, <2>2, <2>3, <2>4
<1>7. CASE Release(p)
  <2>1. pc[p] = "release" /\ job' = job /\ (Owes(p, id) <=> job[p][1] = id)
    BY <1>1, <1>7 DEF Release, Owes
  <2>2. CASE job[p][1] # id
    <3>1. window'[id] = window[id]
      BY <1>1, <1>7, <2>1, <2>2 DEF Release, TypeOK
    <3>2. QED
      BY <1>3, <1>5, <2>1, <2>2, <3>1
  <2>3. CASE job[p][1] = id /\ window[id] = None
    <3>1. window'[id] = window[id]
      BY <1>7, <2>3 DEF Release
    <3>2. QED
      BY <1>3, <2>3, <3>1
  <2>4. CASE job[p][1] = id /\ window[id] # None
    <3>1. window'[id] = Capped(window[id] + 1)
      BY <1>1, <1>7, <2>4 DEF Release, Size, TypeOK
    <3>2. window'[id] = MaxWindow \/ window'[id] = window[id] + 1
      BY <3>1 DEF Capped
    <3>3. QED
      BY <1>1, <1>3, <1>4, <2>4, <3>2
  <2>5. QED
    BY <2>2, <2>3, <2>4
<1>8. CASE Handle(p)
  <2>1. pc[p] = "direct" /\ UNCHANGED <<job, window>> /\ pc'[p] = Handled(job[p][1])
    BY <1>1, <1>8 DEF Handle, TypeOK
  <2>2. ~Flow => window[id] = None
    BY <1>1 DEF Unused
  <2>3. Flow /\ Owes(p, id) => Owes(p, id)'
    BY <2>1 DEF Owes, Handled
  <2>4. QED
    BY <1>3, <1>5, <2>1, <2>2, <2>3
<1>9. CASE ~(Receive(p) \/ Release(p) \/ Handle(p))
  <2>1. window' = window /\ pc[p] \notin {"direct", "release"}
    BY <1>9
       DEF Read, Reader, PauseGet, Pause, EnsureStream, Lookup, AddChunk, ResumeGet
  <2>2. QED
    BY <1>3, <1>5, <2>1 DEF Owes
<1>10. QED
  BY <1>6, <1>7, <1>8, <1>9

LEMMA OwedStep == ASSUME IInv, Unused, Owed, [Next]_vars PROVE Owed'
<1> USE ReassemblyAssumption DEF At, Threads
<1>1. CASE \E p \in Readers : Read(p) \/ Reader(p)
  BY <1>1, OwedByReader DEF Owed
<1>2. CASE UNCHANGED vars \/ Cleanup \/ \E id \in Direct : RemoveWindow(id)
  <2>1. \A p \in Readers : pc'[p] = pc[p] /\ job'[p] = job[p]
    BY <1>2
       DEF IInv, Pointers, TypeOK, vars, Cleanup, Scan, Mark, Remove, Destroy, RemoveWindow
  <2>2. \A id : Debtors(id)' = Debtors(id)
    BY <2>1 DEF Debtors, Owes
  <2>3. \A id \in Direct : window'[id] = window[id] \/ window'[id] = None
    BY <1>2
       DEF IInv, Pointers, TypeOK, Ids, vars, Cleanup, Scan, Mark, Remove, Destroy,
           RemoveWindow
  <2>4. QED
    BY <2>2, <2>3 DEF Owed
<1>3. QED
  BY <1>1, <1>2 DEF Next

-----------------------------------------------------------------------------
(* The theorems *)

\* The inductive invariant holds of every run of the adapter.
LEMMA Invariant == Spec => []IInv
<1>1. IInv /\ [Next]_vars => IInv'
  <2> SUFFICES ASSUME IInv, [Next]_vars PROVE IInv'
    OBVIOUS
  <2>1. Pointers /\ NoWriteAfterDestroy /\ Prefixes /\ OnePlace /\ Delivered
    BY DEF IInv
  <2>2. Pointers'
    BY <2>1, TypeStep, PlacedStep, RegisteredStep, CleaningStep DEF Pointers
  <2>3. NoWriteAfterDestroy'
    BY <2>1, LateWriteStep
  <2>4. Prefixes' /\ OnePlace' /\ Delivered'
    BY <2>1, PrefixStep, OnePlaceStep, DeliveredStep
  <2>5. Locked' /\ ResumeLocksItself'
    BY LockedStep
  <2>6. QED
    BY <2>2, <2>3, <2>4, <2>5 DEF IInv
<1>2. QED
  BY <1>1, InitOK, PTL DEF Spec

\* Every variable keeps to its range (TypeOK), whatever handleBinaryMessage and the
\* cleanup loop do.
THEOREM TypeCorrect == Spec => []TypeOK
<1>1. IInv => TypeOK
  BY DEF IInv, Pointers
<1>2. QED
  BY <1>1, Invariant, PTL

\* StreamManager.AddChunk uses a pointer it read under a mutex it has let go of;
\* no chunk is ever written into a stream that RemoveStream has destroyed.
THEOREM NoLateWrite == Spec => []NoWriteAfterDestroy
<1>1. IInv => NoWriteAfterDestroy
  BY DEF IInv
<1>2. QED
  BY <1>1, Invariant, PTL

\* handleBackpressure never resumes a stream but from the OnComplete of that very
\* stream, whose mutex its goroutine then holds and Stream.Resume asks for again.
THEOREM SelfLock == Spec => []ResumeLocksItself
<1>1. IInv => ResumeLocksItself
  BY DEF IInv
<1>2. QED
  BY <1>1, Invariant, PTL

\* The invariants about windows and mutexes, which rest on the other.
LEMMA MoreInvariant == Spec => [](IInv /\ Owners /\ Unused /\ Owed)
<1> DEFINE More == Owners /\ Unused /\ Owed
<1>1. Init => More
  <2> SUFFICES ASSUME Init PROVE More
    OBVIOUS
  <2>1. Owners /\ Unused
    BY ReassemblyAssumption DEF Init, Owners, Unused, Threads
  <2>2. \A id \in Direct : window[id] = None /\ Debtors(id) = {}
    BY DEF Init, Debtors, Owes, Ids
  <2>3. QED
    BY <2>1, <2>2, FS_EmptySet DEF Owed
<1>2. IInv /\ More /\ [Next]_vars => More'
  BY OwnersStep, UnusedStep, OwedStep DEF IInv
<1>3. QED
  BY <1>1, <1>2, Invariant, PTL DEF Spec

\* What FlowController.Receive charges a TCP stream, ReleaseReceiveWindow gives back: a
\* window that is there and not full has a message that is being handled.
THEOREM WindowComesBack == Spec => []WindowRestored
<1>1. IInv /\ Owed => WindowRestored
  <2> SUFFICES ASSUME IInv, Owed, NEW id \in Direct, window[id] # None, window[id] # MaxWindow
               PROVE  \E p \in Readers : Owes(p, id)
    BY DEF WindowRestored, Owes
  <2>1. window[id] \in 0 .. MaxWindow /\ MaxWindow \in Nat
    BY ReassemblyAssumption DEF IInv, Pointers, TypeOK, Ids
  <2>2. Cardinality(Debtors(id)) # 0
    BY <2>1, FS_CardinalityType DEF Owed
  <2>3. Debtors(id) # {}
    BY <2>2, FS_EmptySet
  <2>4. QED
    BY <2>3 DEF Debtors
<1>2. QED
  BY <1>1, MoreInvariant, PTL

\* The order of the mutexes FlowController.mu, StreamManager.mu and Stream.mu is not the
\* same everywhere; without both features agreed no goroutines wait in a circle for them.
THEOREM NoCircle == Spec => []NoCircularWait
<1>1. IInv /\ Owners /\ Unused => NoCircularWait
  <2> SUFFICES ASSUME IInv, Owners, Unused, caps # {"streaming", "flowControl"},
                      NEW S \in (SUBSET Threads) \ {{}}
               PROVE  \E t \in S : Blocks(t) \cap S = {}
    BY DEF NoCircularWait
  <2>1. TypeOK /\ Placed /\ Cleaning
    BY DEF IInv, Pointers
  <2>2. None \notin Threads /\ Cleaner \notin Readers
    BY ReassemblyAssumption
  <2>3. CASE ~Flow
    <3>1. /\ fcMu = None /\ \A s \in Objects : sMu[s] = None
          /\ \A p \in Readers : pc[p] \in {"idle", "direct", "ensure", "lookup", "add"}
      BY <2>3 DEF Owners, Unused
    <3>2. \A t \in Threads : pc[t] \in {"mark", "destroy"} => ref[t] \in Objects
      BY <2>1, <3>1 DEF Cleaning, Threads
    <3>3. \A p \in Readers : pc[p] = "add" => ref[p] \in Objects
      BY <2>1 DEF Placed
    <3>4. \A t \in Threads : pc[t] \notin {"pauseLock", "resumeLock"}
      BY <2>1, <3>1 DEF Cleaning, Threads
    <3>5. \A t \in Threads : pc[t] \in {"add", "mark", "destroy"} => ref[t] \in Objects
      BY <2>1, <3>2, <3>3 DEF Cleaning, Threads
    <3>6. \A t \in Threads : \A m \in Blocks(t) :
             m = Cleaner /\ pc[Cleaner] = "destroy" /\ pc[t] # "destroy"
      BY <2>2, <3>1, <3>4, <3>5 DEF Blocks, Owners
    <3>7. CASE Cleaner \in S /\ pc[Cleaner] = "destroy"
      BY <3>6, <3>7
    <3>8. CASE ~(Cleaner \in S /\ pc[Cleaner] = "destroy")
      BY <3>6, <3>8
    <3>9. QED
      BY <3>7, <3>8
  <2>4. CASE "streaming" \notin caps
    <3>1. /\ pc[Cleaner] = "idle" /\ smMu = None
          /\ \A t \in Threads : pc[t] \in Points \ {"pauseLock", "resumeLock", "add", "mark",
                                                    "destroy", "ensure", "lookup", "remove"}
      BY <2>1, <2>2, <2>4 DEF Unused, Owners, Threads, Placed, TypeOK
    <3>2. \A t \in Threads : \A m \in Blocks(t) :
             m = fcMu /\ pc[t] \in {"charge", "release"}
      BY <2>2, <3>1 DEF Blocks
    <3>3. fcMu # None => fcMu \in Readers /\ pc[fcMu] \notin {"charge", "release"}
      BY DEF Owners
    <3>4. CASE fcMu \in S
      BY <2>2, <3>2, <3>3, <3>4
    <3>5. CASE fcMu \notin S
      BY <3>2, <3>5
    <3>6. QED
      BY <3>4, <3>5
  <2>5. Flow /\ "streaming" \in caps => caps = {"streaming", "flowControl"}
    <3>1. caps \in SUBSET {"streaming", "flowControl"}
      BY <2>1, ReassemblyAssumption DEF TypeOK
    <3>2. QED
      BY <3>1 DEF Flow
  <2>6. QED
    BY <2>3, <2>4, <2>5
<1>2. QED
  BY <1>1, MoreInvariant, PTL

\* Reassembly keeps the promise of WholeDelivery: a handler is given a whole
\* message once, or nothing, whatever the order of chunks and evictions.
THEOREM Implements == Spec => WholeOrNothing
<1>1. Delivery!Whole = Run(0, Last + 1)
  <2>1. \A i \in 1 .. Last + 1 : 0 + i - 1 = i - 1
    BY ReassemblyAssumption
  <2>2. QED
    BY <2>1 DEF Delivery!Whole, Run
<1>2. Init => Delivery!Init
  BY DEF Init, Delivery!Init
<1>3. IInv /\ [Next]_vars => [Delivery!Next]_out
  <2> SUFFICES ASSUME IInv, [Next]_vars PROVE [Delivery!Next]_out
    OBVIOUS
  <2>1. \/ out' = out
        \/ \E id \in Ids : out[id] = <<>> /\ out' = [out EXCEPT ![id] = Run(0, Last + 1)]
    BY DeliveredStep DEF IInv
  <2>2. QED
    BY <1>1, <2>1 DEF Delivery!Next, Delivery!Deliver
<1>4. QED
  BY <1>2, <1>3, Invariant, PTL DEF Spec, WholeOrNothing, Delivery!Spec
=============================================================================
