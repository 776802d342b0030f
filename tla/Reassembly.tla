------------------------------ MODULE Reassembly ------------------------------
(***************************************************************************)
(* The receiving side of a protocol adapter: handleBinaryMessage of        *)
(* internal/server/protocol/binary.go with the reassembly of               *)
(* stream_manager.go and the receive window of flow_controller.go.         *)
(*                                                                         *)
(* Several goroutines call it on one adapter: the read loops of the        *)
(* monitor and data channels, and the manager's cleanup loop.  They meet   *)
(* at three kinds of mutex: FlowController.mu, StreamManager.mu and the    *)
(* mu of each Stream.  A goroutine takes its steps between the points where *)
(* it acquires one of them.                                                *)
(*                                                                         *)
(* A stream id stays for a message; a Stream object is <<id, generation>>, *)
(* since an evicted stream may be created again under its id.  Every chunk *)
(* counts 1 against the window.                                            *)
(***************************************************************************)
EXTENDS Naturals, FiniteSets, Sequences

CONSTANTS
    Readers,      \* read loops
    Cleaner,      \* the cleanup loop of the stream manager
    Streamed,     \* ids of messages whose type may be streamed (HTTP)
    Direct,       \* ids of the others (TCP data)
    Last,         \* sequence number of a message's last chunk
    MaxWindow,    \* MaxWindowSize
    Negotiable,   \* capability sets the two ends may agree on
    MaxGen,       \* bound: generations of a stream
    None          \* "no stream", "no window", "no goroutine"

Ids     == Streamed \cup Direct
Chunks  == 0 .. Last
Objects == Ids \X (1 .. MaxGen)
Threads == Readers \cup {Cleaner}

ASSUME ReassemblyAssumption ==
    /\ Cleaner \notin Readers
    /\ None \notin Threads
    /\ None \notin Objects \cup (Ids \X Chunks)
    /\ None \notin Nat
    /\ Streamed \cap Direct = {}
    /\ Last \in Nat
    /\ MaxWindow \in Nat
    /\ MaxGen \in Nat \ {0}
    /\ Negotiable \subseteq SUBSET {"streaming", "flowControl"}

VARIABLES
    caps,     \* the negotiated capabilities
    inflight, \* <<id, seq>> of the chunks that are yet to be read
    pc,       \* Threads -> where the goroutine is
    job,      \* Readers -> the <<id, seq>> it handles
    ref,      \* Threads -> the Stream pointer it uses
    resumed,  \* Readers -> the pointer handleBackpressure looked up
    entry,    \* Ids -> the object StreamManager.streams holds
    gen,      \* Ids -> generations so far
    state,    \* Objects -> State of the Stream
    chunks,   \* Objects -> Stream.Chunks, the set of pending numbers
    data,     \* Objects -> Stream.CompletedData
    window,   \* Ids -> ReceiveWindow
    fcMu,     \* owner of FlowController.mu
    smMu,     \* owner of StreamManager.mu, write-locked
    sMu,      \* Objects -> owner of Stream.mu
    out       \* Ids -> what the handler was given

vars == <<caps, inflight, pc, job, ref, resumed, entry, gen, state, chunks, data,
          window, fcMu, smMu, sMu, out>>
managed == <<entry, gen, state, chunks, data, out>>

Init ==
    /\ caps \in Negotiable
    /\ inflight = Ids \X Chunks
    /\ pc = [t \in Threads |-> "idle"]
    /\ job = [p \in Readers |-> None]
    /\ ref = [t \in Threads |-> None]
    /\ resumed = [p \in Readers |-> None]
    /\ entry = [id \in Ids |-> None]
    /\ gen = [id \in Ids |-> 0]
    /\ state = [s \in Objects |-> "active"]
    /\ chunks = [s \in Objects |-> {}]
    /\ data = [s \in Objects |-> <<>>]
    /\ window = [id \in Ids |-> None]
    /\ fcMu = None
    /\ smMu = None
    /\ sMu = [s \in Objects |-> None]
    /\ out = [id \in Ids |-> <<>>]

-----------------------------------------------------------------------------
Flow      == "flowControl" \in caps
Streams(id) == id \in Streamed /\ "streaming" \in caps
At(t, l)  == pc' = [pc EXCEPT ![t] = l]

\* Where handleBinaryMessage goes on once the chunk has been charged.
Charged(id) == IF Streams(id) THEN "ensure" ELSE "direct"

\* Faulty variants (HandledUnreleased, LookupCreates, LastSeen, IgnoresCompleted,
\* Uncapped, NotCondemned) come just before what they vary; nothing uses
\* them but the tests of the properties.

\* A read loop reads the next message of its connection.
Read(p) ==
    /\ pc[p] = "idle"
    /\ \E c \in inflight :
          /\ inflight' = inflight \ {c}
          /\ job' = [job EXCEPT ![p] = c]
          /\ At(p, IF Flow THEN "charge" ELSE Charged(c[1]))
    /\ UNCHANGED <<caps, ref, resumed, window, fcMu, smMu, sMu, managed>>

\* FlowController.Receive.  A full window is not charged; the controller still
\* holds its mutex when it calls onBackpressure.
Receive(p) ==
    LET id == job[p][1]
        w  == IF window[id] = None THEN MaxWindow ELSE window[id] IN
    /\ pc[p] = "charge"
    /\ fcMu = None
    /\ IF w >= 1
         THEN /\ window' = [window EXCEPT ![id] = w - 1]
              /\ At(p, Charged(id))
              /\ UNCHANGED fcMu
         ELSE /\ window' = [window EXCEPT ![id] = w]
              /\ At(p, "pauseGet")
              /\ fcMu' = p
    /\ UNCHANGED <<caps, inflight, job, ref, resumed, smMu, sMu, managed>>

\* handleBackpressure(pause) looks the stream up; without a stream manager or a
\* stream there is nothing to pause, and Receive returns.
PauseGet(p) ==
    LET id == job[p][1] IN
    /\ pc[p] = "pauseGet"
    /\ smMu = None
    /\ resumed' = [resumed EXCEPT ![p] = entry[id]]
    /\ IF entry[id] = None
         THEN At(p, Charged(id)) /\ fcMu' = None
         ELSE At(p, "pauseLock") /\ UNCHANGED fcMu
    /\ UNCHANGED <<caps, inflight, job, ref, window, smMu, sMu, managed>>

\* Stream.Pause.  The refused message is handled all the same, 100 ms later.
Pause(p) ==
    LET s == resumed[p] IN
    /\ pc[p] = "pauseLock"
    /\ sMu[s] = None
    /\ state' = [state EXCEPT ![s] = IF @ = "active" THEN "paused" ELSE @]
    /\ fcMu' = None
    /\ At(p, Charged(job[p][1]))
    /\ UNCHANGED <<caps, inflight, job, ref, resumed, window, smMu, sMu, entry, gen,
                   chunks, data, out>>

\* A message that is not streamed goes to its handlers, then the window is
\* released, except for HTTP, where handleBinaryMessage has returned by then.
HandledUnreleased(id) == "idle"
Handled(id) == IF Flow /\ id \in Direct THEN "release" ELSE "idle"
Handle(p) ==
    /\ pc[p] = "direct"
    /\ At(p, Handled(job[p][1]))
    /\ UNCHANGED <<caps, inflight, job, ref, resumed, window, fcMu, smMu, sMu, managed>>

\* GetStream, then EnsureStream: the first registration wins.  (MaxGen bounds the
\* evictions, see Stale, so that it never stops a reader here.)
EnsureStream(p) ==
    LET id == job[p][1] IN
    /\ pc[p] = "ensure"
    /\ smMu = None
    /\ IF entry[id] # None
         THEN UNCHANGED <<entry, gen>>
         ELSE /\ gen[id] < MaxGen
              /\ gen' = [gen EXCEPT ![id] = @ + 1]
              /\ entry' = [entry EXCEPT ![id] = <<id, gen[id] + 1>>]
    /\ At(p, "lookup")
    /\ UNCHANGED <<caps, inflight, job, ref, resumed, state, chunks, data, out, window,
                   fcMu, smMu, sMu>>

\* The AddChunk of before, which created the stream while it held the mutex.
LookupCreates(p) ==
    LET id == job[p][1] IN
    /\ pc[p] = "lookup"
    /\ smMu = None
    /\ ref' = [ref EXCEPT ![p] = entry[id]]
    /\ At(p, IF entry[id] = None THEN "ensure" ELSE "add")
    /\ smMu' = IF entry[id] = None THEN p ELSE None
    /\ UNCHANGED <<caps, inflight, job, resumed, window, fcMu, sMu, managed>>

\* StreamManager.AddChunk reads the pointer under the manager's mutex and uses it
\* after; a chunk whose stream is gone by then is dropped.
Lookup(p) ==
    LET id == job[p][1] IN
    /\ pc[p] = "lookup"
    /\ smMu = None
    /\ ref' = [ref EXCEPT ![p] = entry[id]]
    /\ At(p, IF entry[id] = None THEN "idle" ELSE "add")
    /\ UNCHANGED <<caps, inflight, job, resumed, window, fcMu, smMu, sMu, managed>>

\* tryReassemble appends the pending chunks that come next, up to the first gap.
Ready(n, c) == {k \in n .. Last : n .. k \subseteq c}
Run(n, m) == [i \in 1 .. m |-> n + i - 1]
Reassembled(s, c) ==
    data[s] \o Run(Len(data[s]), Cardinality(Ready(Len(data[s]), c)))

\* Stream.AddChunk.  The last chunk in place completes the stream and hands the
\* data to OnComplete, which runs under Stream.mu; data that do not decompress
\* are dropped there.
IgnoresCompleted(s) == state[s] = "completed"
Ignores(s) == state[s] \in {"completed", "error"}
LastSeen(c, d) == Last \in c
Complete(c, d) == Len(d) > Last
CallsLocked(p, s) == sMu' = [sMu EXCEPT ![s] = p]
AddChunk(p) ==
    LET s == ref[p]
        c == chunks[s] \cup {job[p][2]}
        d == Reassembled(s, c) IN
    /\ pc[p] = "add"
    /\ sMu[s] = None
    /\ \/ /\ Ignores(s)
          /\ At(p, "idle")
          /\ UNCHANGED <<state, chunks, data, out, sMu>>
       \/ /\ ~Ignores(s)
          /\ chunks' = [chunks EXCEPT ![s] = {k \in c : k >= Len(d)}]
          /\ data' = [data EXCEPT ![s] = d]
          /\ IF ~Complete(c, d)
               THEN /\ At(p, "idle")
                    /\ UNCHANGED <<state, out, sMu>>
               ELSE /\ state' = [state EXCEPT ![s] = "completed"]
                    /\ \/ At(p, "idle") /\ UNCHANGED <<out, sMu>>
                       \/ /\ out' = [out EXCEPT ![s[1]] = @ \o d]
                          /\ IF Flow THEN CallsLocked(p, s) /\ At(p, "release")
                                     ELSE At(p, "idle") /\ UNCHANGED sMu
    /\ UNCHANGED <<caps, inflight, job, ref, resumed, window, fcMu, smMu, entry, gen>>

\* The goroutine is done with the message and gives up whatever mutex it holds.
Returns(p) ==
    /\ At(p, "idle")
    /\ sMu' = [s \in Objects |-> IF sMu[s] = p THEN None ELSE sMu[s]]

\* ReleaseReceiveWindow: a whole streamed message at once, or one direct one; a
\* window that is gone stays gone.
Size(id) == IF id \in Streamed THEN Last + 1 ELSE 1
Uncapped(w) == w
Capped(w) == IF w > MaxWindow THEN MaxWindow ELSE w
Release(p) ==
    LET id == job[p][1]
        w  == Capped(window[id] + Size(id)) IN
    /\ pc[p] = "release"
    /\ fcMu = None
    /\ \/ window[id] = None /\ Returns(p) /\ UNCHANGED <<window, fcMu>>
       \/ /\ window[id] # None
          /\ window' = [window EXCEPT ![id] = w]
          /\ IF w > MaxWindow \div 2
               THEN At(p, "resumeGet") /\ fcMu' = p /\ UNCHANGED sMu
               ELSE Returns(p) /\ UNCHANGED fcMu
    /\ UNCHANGED <<caps, inflight, job, ref, resumed, smMu, managed>>

\* handleBackpressure(resume), under FlowController.mu.  A stream it finds is the
\* one whose OnComplete this is (ResumeLocksItself): Stream.Resume asks for the
\* mutex its own caller holds, and nothing follows "resumeLock".
ResumeGet(p) ==
    LET id == job[p][1] IN
    /\ pc[p] = "resumeGet"
    /\ smMu = None
    /\ resumed' = [resumed EXCEPT ![p] = entry[id]]
    /\ IF entry[id] = None
         THEN Returns(p) /\ fcMu' = None
         ELSE At(p, "resumeLock") /\ UNCHANGED <<fcMu, sMu>>
    /\ UNCHANGED <<caps, inflight, job, ref, window, smMu, managed>>

\* RemoveDataChannelForStream: the window goes with the TCP stream's channel.  (The
\* stream manager has no stream of such an id.)
RemoveWindow(id) ==
    /\ id \in Direct
    /\ fcMu = None
    /\ window[id] # None
    /\ window' = [window EXCEPT ![id] = None]
    /\ UNCHANGED <<caps, inflight, pc, job, ref, resumed, fcMu, smMu, sMu, managed>>

-----------------------------------------------------------------------------
(* The cleanup loop *)

\* cleanup reads the pointer of one of the ids it listed.
Scan ==
    /\ pc[Cleaner] = "idle"
    /\ smMu = None
    /\ \E id \in Ids :
          /\ entry[id] # None
          /\ ref' = [ref EXCEPT ![Cleaner] = entry[id]]
    /\ At(Cleaner, "mark")
    /\ UNCHANGED <<caps, inflight, job, resumed, window, fcMu, smMu, sMu, managed>>

\* A finished stream is removed; one that is unfinished and stale first becomes
\* an error, so that late chunks are ignored; one that is not stale stays.
Stale(s) == state[s] \in {"active", "paused"} /\ s[2] < MaxGen
NotCondemned(s) == state
Condemned(s) == [state EXCEPT ![s] = "error"]
Mark ==
    LET s == ref[Cleaner] IN
    /\ pc[Cleaner] = "mark"
    /\ sMu[s] = None
    /\ \/ Ignores(s) /\ At(Cleaner, "remove") /\ UNCHANGED state
       \/ Stale(s) /\ At(Cleaner, "remove") /\ state' = Condemned(s)
       \/ ~Ignores(s) /\ At(Cleaner, "idle") /\ UNCHANGED state
    /\ UNCHANGED <<caps, inflight, job, ref, resumed, window, fcMu, smMu, sMu, entry, gen,
                   chunks, data, out>>

\* RemoveStream takes the manager's mutex and, holding it, the stream's.
Remove ==
    /\ pc[Cleaner] = "remove"
    /\ smMu = None
    /\ smMu' = Cleaner
    /\ At(Cleaner, "destroy")
    /\ UNCHANGED <<caps, inflight, job, ref, resumed, window, fcMu, sMu, managed>>

Forget(id) == entry' = [entry EXCEPT ![id] = None]
Destroy ==
    LET s == ref[Cleaner] IN
    /\ pc[Cleaner] = "destroy"
    /\ sMu[s] = None
    /\ chunks' = [chunks EXCEPT ![s] = {}]
    /\ Forget(s[1])
    /\ smMu' = None
    /\ At(Cleaner, "idle")
    /\ UNCHANGED <<caps, inflight, job, ref, resumed, window, fcMu, sMu, gen, state, data,
                   out>>

-----------------------------------------------------------------------------
Reader(p) ==
    \/ Receive(p) \/ PauseGet(p) \/ Pause(p) \/ Handle(p)
    \/ EnsureStream(p) \/ Lookup(p) \/ AddChunk(p)
    \/ Release(p) \/ ResumeGet(p)

Cleanup == Scan \/ Mark \/ Remove \/ Destroy

Next ==
    \/ \E p \in Readers : Read(p) \/ Reader(p)
    \/ \E id \in Direct : RemoveWindow(id)
    \/ Cleanup

Spec == Init /\ [][Next]_vars

\* Every goroutine that has begun goes on when it can.  Mutexes are not fair,
\* but one that is free time and again is taken in the end (sync.Mutex hands
\* over to a waiter that starves).
FairSpec ==
    /\ Spec
    /\ \A p \in Readers : SF_vars(Reader(p))
    /\ SF_vars(Mark \/ Remove \/ Destroy)
-----------------------------------------------------------------------------
(* What must hold *)

\* Every variable keeps to its range.
Points == {"idle", "charge", "pauseGet", "pauseLock", "direct", "ensure", "lookup", "add",
           "release", "resumeGet", "resumeLock", "mark", "remove", "destroy"}
TypeOK ==
    /\ caps \in Negotiable
    /\ inflight \subseteq Ids \X Chunks
    /\ pc \in [Threads -> Points]
    /\ job \in [Readers -> (Ids \X Chunks) \cup {None}]
    /\ ref \in [Threads -> Objects \cup {None}]
    /\ resumed \in [Readers -> Objects \cup {None}]
    /\ entry \in [Ids -> Objects \cup {None}]
    /\ gen \in [Ids -> 0 .. MaxGen]
    /\ state \in [Objects -> {"active", "paused", "completed", "error"}]
    /\ chunks \in [Objects -> SUBSET Chunks]
    /\ data \in [Objects -> Seq(Chunks)]
    /\ window \in [Ids -> (0 .. MaxWindow) \cup {None}]
    /\ fcMu \in Threads \cup {None}
    /\ smMu \in Threads \cup {None}
    /\ sMu \in [Objects -> Threads \cup {None}]
    /\ out \in [Ids -> Seq(Chunks)]

\* stream_manager.go tryReassemble: whatever the order the chunks are read in,
\* and whatever cleanup evicts meanwhile, a handler is given a whole message
\* once or nothing.
Delivery == INSTANCE WholeDelivery WITH Ids <- Ids, Last <- Last, out <- out
WholeOrNothing == Delivery!Spec

\* A goroutine adds a chunk only to a stream that is still in the map, or that
\* refuses it: Destroy sets Chunks to nil and a write into it would panic.
NoWriteAfterDestroy ==
    \A p \in Readers :
        (pc[p] = "add" /\ entry[ref[p][1]] # ref[p]) => Ignores(ref[p])

\* flow_controller.go: what a TCP stream was charged is released when its
\* message is handled, so that the window is full again when none is.
WindowRestored ==
    \A id \in Direct :
        \/ window[id] = None
        \/ window[id] = MaxWindow
        \/ \E p \in Readers :
              job[p] # None /\ job[p][1] = id /\ pc[p] \in {"direct", "release"}

\* binary.go handleBackpressure: a goroutine that is about to resume a stream
\* holds that stream's mutex itself, so nobody can ever let it go on.
ResumeLocksItself ==
    \A p \in Readers : pc[p] = "resumeLock" => sMu[resumed[p]] = p

\* The owners a goroutine cannot go on before: of FlowController.mu, of
\* StreamManager.mu, or of the mutex of the stream it has a pointer to.
Blocks(t) ==
    {m \in Threads :
        \/ pc[t] \in {"charge", "release"} /\ m = fcMu
        \/ pc[t] \in {"pauseGet", "ensure", "lookup", "resumeGet", "remove"} /\ m = smMu
        \/ pc[t] \in {"pauseLock", "resumeLock"} /\ m = sMu[resumed[t]]
        \/ pc[t] \in {"add", "mark", "destroy"} /\ m = sMu[ref[t]]}

\* stream_manager.go, flow_controller.go: RemoveStream takes a stream's mutex under
\* the manager's, Receive the manager's and a stream's under the controller's, the
\* completion of a stream the controller's under the stream's.  Unless both features
\* are agreed, no goroutines wait for each other in a circle, nor for themselves.
NoCircularWait ==
    (caps # {"streaming", "flowControl"}) =>
        \A S \in (SUBSET Threads) \ {{}} : \E t \in S : Blocks(t) \cap S = {}

\* docs/features/NEW_PROTOCOL_ISSUES.md, item 1: the reentrant locking is gone;
\* handleBinaryMessage comes back, whatever the streams and the window do.
HandlerReturns == \A p \in Readers : (pc[p] # "idle") ~> (pc[p] = "idle")
=============================================================================
