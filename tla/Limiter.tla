-------------------------------- MODULE Limiter --------------------------------
(***************************************************************************)
(* The bandwidth limiter (internal/server/limiter/bandwidth.go): the       *)
(* buckets of the clients and the one they share, the relays and request   *)
(* handlers that ask it about every message, and the reload that replaces  *)
(* its limits under them.                                                  *)
(*                                                                         *)
(* Each bucket has a mutex, the limiter's fields another; a check takes    *)
(* them one after the other and lets go in between, so that every          *)
(* statement of it is a step.  The field of the shared bucket it reads     *)
(* under none: a bucket that is there for `if` may be another, or gone,    *)
(* for the call behind it, and nil cannot be asked.  A limiter makes at most one bucket for an   *)
(* owner between two updates: a bucket is named by the update before it    *)
(* and its owner.  CheckUpload and CheckDownload are one code over two     *)
(* disjoint sets of buckets: this is either of them.                       *)
(*                                                                         *)
(* A bucket fills by what time has passed when it is asked; here it may    *)
(* gain a byte at any time, each at its own pace.  SetClientLimit and      *)
(* RemoveClientLimit, which nothing in the program calls, are left out,    *)
(* and so is what a panic takes with it: net/http recovers one in a        *)
(* handler, and one in a relay ends the process.                           *)
(***************************************************************************)
EXTENDS Naturals

CONSTANTS
    Checks,    \* goroutines that relay
    Clients,   \* client ids with or without a limit of their own
    Anonymous, \* the client id ""
    Shared,    \* the owner of the bucket all clients share
    Sizes,     \* bytes of a message
    Limits,    \* limits a document may set: [own: [Clients -> rate or None], all: rate or None]
    None,
    MaxUpdates, MaxGain \* bounds: reloads; bytes a bucket gains

Senders == Clients \cup {Anonymous}
Owners  == Clients \cup {Shared}
Epochs  == 0 .. MaxUpdates
Buckets == Epochs \X Owners

ASSUME LimiterAssumption ==
    /\ Anonymous \notin Clients /\ Shared \notin Clients
    /\ Sizes \subseteq Nat /\ None \notin Nat /\ None \notin Buckets
    /\ Limits \subseteq [own : [Clients -> Nat \cup {None}], all : Nat \cup {None}]
    /\ MaxUpdates \in Nat /\ MaxGain \in Nat

VARIABLES
    limits,   \* the limits in force
    epoch,    \* updates so far: names the current set of buckets
    capacity, \* Buckets -> its capacity, None before it is made
    tokens,   \* Buckets -> the bytes it has left
    gained,   \* Buckets -> bytes it has gained since it was made
    pc,       \* Checks -> where CheckUpload is
    sender,   \* Checks -> whose message it checks
    bytes,    \* Checks -> the message's size
    limit,    \* Checks -> the client's limit as it was read
    bucket,   \* Checks -> the client's bucket, or None
    began,    \* Checks -> the epoch it began in
    seen,     \* Checks -> the epoch in which it last found the shared bucket there
    admitted, \* Clients -> bytes let through, of checks begun since the last update
    total     \* the same for all senders; both are counted only where there is a limit

check   == <<sender, bytes, limit, bucket, began, seen>>
passed  == <<admitted, total>>
windows == <<capacity, tokens, gained>>
vars    == <<limits, epoch, windows, pc, check, passed>>

\* Faulty variants (NeverExists, OnlyWithoutOwn, KeptOwn) come just before what
\* they vary; nothing uses them but the tests of the properties.

At(k, l) == pc' = [pc EXCEPT ![k] = l]

\* NewTokenBucket: full.
Make(b, rate) ==
    /\ capacity' = [capacity EXCEPT ![b] = rate]
    /\ tokens' = [tokens EXCEPT ![b] = rate]
Full(c) == [b \in Buckets |-> IF c[b] = None THEN 0 ELSE c[b]]

\* NewBandwidthLimiter makes the shared bucket; a client's is made when it is asked
\* for first.
Init ==
    /\ limits \in Limits
    /\ epoch = 0
    /\ capacity = [b \in Buckets |-> IF b = <<0, Shared>> THEN limits.all ELSE None]
    /\ tokens = Full(capacity)
    /\ gained = [b \in Buckets |-> 0]
    /\ pc = [k \in Checks |-> "idle"]
    /\ sender = [k \in Checks |-> Anonymous]
    /\ bytes = [k \in Checks |-> 0]
    /\ limit = [k \in Checks |-> None]
    /\ bucket = [k \in Checks |-> None]
    /\ began = [k \in Checks |-> 0]
    /\ seen = [k \in Checks |-> 0]
    /\ admitted = [c \in Clients |-> 0]
    /\ total = 0

\* The bucket of all clients.
All == <<epoch, Shared>>
HasAll == capacity[All] # None

Enough(b, n) == tokens[b] >= n
Take(b, n) == tokens' = [tokens EXCEPT ![b] = @ - n]

-----------------------------------------------------------------------------
(* CheckUpload and CheckDownload *)

Begin(k) ==
    /\ pc[k] = "idle"
    /\ \E c \in Senders, n \in Sizes :
          /\ sender' = [sender EXCEPT ![k] = c]
          /\ bytes' = [bytes EXCEPT ![k] = n]
          /\ At(k, IF c = Anonymous THEN "alone" ELSE "limit")
    /\ began' = [began EXCEPT ![k] = epoch]
    /\ UNCHANGED <<limits, epoch, windows, limit, bucket, seen, passed>>

Ends(k) ==
    /\ At(k, "idle")
    /\ limit' = [limit EXCEPT ![k] = None]
    /\ bucket' = [bucket EXCEPT ![k] = None]
    /\ sender' = [sender EXCEPT ![k] = Anonymous]
    /\ bytes' = [bytes EXCEPT ![k] = 0]
    /\ began' = [began EXCEPT ![k] = 0]
    /\ seen' = [seen EXCEPT ![k] = 0]
Refuses(k) == Ends(k) /\ UNCHANGED <<tokens, passed>>
Goes(k, l) == At(k, l) /\ UNCHANGED <<check, passed>>
Limited(c) == c \in Clients /\ limits.own[c] # None
Allows(k) ==
    /\ Ends(k)
    /\ admitted' = [c \in Clients |->
                       IF c = sender[k] /\ Limited(c) /\ began[k] = epoch
                       THEN admitted[c] + bytes[k] ELSE admitted[c]]
    /\ total' = IF HasAll /\ began[k] = epoch THEN total + bytes[k] ELSE total

\* A statement about the shared bucket is two: whether there is one, ...
Finds(k, l) ==
    /\ HasAll
    /\ seen' = [seen EXCEPT ![k] = epoch]
    /\ At(k, l)
    /\ UNCHANGED <<tokens, sender, bytes, limit, bucket, began, passed>>

\* ... and the call of what the field holds, or has held at a moment since: the compiler
\* may read it once or twice.  Where a reload has left none in between, the call panics.
Found(k) == {<<e, Shared>> : e \in seen[k] .. epoch}
Panics(k) == Goes(k, "panicked") /\ UNCHANGED tokens

\* Without a client id only the shared bucket counts.
CheckAlone(k) ==
    /\ pc[k] = "alone"
    /\ \/ ~HasAll /\ Allows(k) /\ UNCHANGED tokens
       \/ Finds(k, "consume")
    /\ UNCHANGED <<limits, epoch, capacity, gained>>

ConsumeAlone(k) ==
    /\ pc[k] = "consume"
    /\ \E b \in Found(k) :
          \/ capacity[b] = None /\ Panics(k)
          \/ capacity[b] # None /\ Enough(b, bytes[k]) /\ Take(b, bytes[k]) /\ Allows(k)
          \/ capacity[b] # None /\ ~Enough(b, bytes[k]) /\ Refuses(k)
    /\ UNCHANGED <<limits, epoch, capacity, gained>>

\* getClientUploadBucket: the limit under the read lock, ...
ReadLimit(k) ==
    /\ pc[k] = "limit"
    /\ limit' = [limit EXCEPT ![k] = limits.own[sender[k]]]
    /\ At(k, IF limits.own[sender[k]] = None THEN "canAll" ELSE "bucket")
    /\ UNCHANGED <<limits, epoch, windows, sender, bytes, bucket, began, seen, passed>>

\* ... then the bucket under the write lock, made of what was read if there is none.
NeverExists(b) == FALSE
Exists(b) == capacity[b] # None
GetBucket(k) ==
    LET b == <<epoch, sender[k]>> IN
    /\ pc[k] = "bucket"
    /\ bucket' = [bucket EXCEPT ![k] = b]
    /\ IF Exists(b) THEN UNCHANGED <<capacity, tokens>> ELSE Make(b, limit[k])
    /\ At(k, "canOwn")
    /\ UNCHANGED <<limits, epoch, gained, sender, bytes, limit, began, seen, passed>>

\* CanConsume of the client's bucket.
CanOwn(k) ==
    /\ pc[k] = "canOwn"
    /\ IF Enough(bucket[k], bytes[k])
         THEN Goes(k, "canAll") /\ UNCHANGED tokens
         ELSE Refuses(k)
    /\ UNCHANGED <<limits, epoch, capacity, gained>>

\* CanConsume of the shared bucket.
CanAll(k) ==
    /\ pc[k] = "canAll"
    /\ \/ ~HasAll /\ Goes(k, "takeAll") /\ UNCHANGED tokens
       \/ Finds(k, "askAll")
    /\ UNCHANGED <<limits, epoch, capacity, gained>>

AskAll(k) ==
    /\ pc[k] = "askAll"
    /\ \E b \in Found(k) :
          \/ capacity[b] = None /\ Panics(k)
          \/ capacity[b] # None /\ Enough(b, bytes[k]) /\ Goes(k, "takeAll") /\ UNCHANGED tokens
          \/ capacity[b] # None /\ ~Enough(b, bytes[k]) /\ Refuses(k)
    /\ UNCHANGED <<limits, epoch, capacity, gained>>

\* Consume of the shared bucket, which may have been emptied since.
OnlyWithoutOwn(k) == HasAll /\ bucket[k] = None
Counts(k) == HasAll
TakeAll(k) ==
    /\ pc[k] = "takeAll"
    /\ \/ ~Counts(k) /\ Goes(k, "takeOwn") /\ UNCHANGED tokens
       \/ Counts(k) /\ Finds(k, "giveAll")
    /\ UNCHANGED <<limits, epoch, capacity, gained>>

GiveAll(k) ==
    /\ pc[k] = "giveAll"
    /\ \E b \in Found(k) :
          \/ capacity[b] = None /\ Panics(k)
          \/ capacity[b] # None /\ Enough(b, bytes[k]) /\ Take(b, bytes[k]) /\ Goes(k, "takeOwn")
          \/ capacity[b] # None /\ ~Enough(b, bytes[k]) /\ Refuses(k)
    /\ UNCHANGED <<limits, epoch, capacity, gained>>

\* Consume of the client's; what the shared bucket has given is not put back.
TakeOwn(k) ==
    LET b == bucket[k] IN
    /\ pc[k] = "takeOwn"
    /\ \/ b = None /\ Allows(k) /\ UNCHANGED tokens
       \/ b # None /\ Enough(b, bytes[k]) /\ Take(b, bytes[k]) /\ Allows(k)
       \/ b # None /\ ~Enough(b, bytes[k]) /\ Refuses(k)
    /\ UNCHANGED <<limits, epoch, capacity, gained>>

-----------------------------------------------------------------------------
\* UpdateLimits replaces every bucket by a full one, under the write lock.  Whoever
\* has an old bucket goes on with that.
KeptOwn(l) ==
    [b \in Buckets |->
        CASE b = <<epoch + 1, Shared>> -> l.all
          [] b[1] = epoch + 1 /\ b[2] # Shared -> capacity[<<epoch, b[2]>>]
          [] OTHER -> capacity[b]]
Rebuilt(l) ==
    [b \in Buckets |->
        CASE b = <<epoch + 1, Shared>> -> l.all
          [] b[1] = epoch + 1 /\ b[2] # Shared -> l.own[b[2]]
          [] OTHER -> capacity[b]]
UpdateLimits ==
    /\ epoch < MaxUpdates
    /\ epoch' = epoch + 1
    /\ \E l \in Limits :
          /\ limits' = l
          /\ capacity' = Rebuilt(l)
    /\ tokens' = [b \in Buckets |-> IF b[1] = epoch + 1 THEN Full(capacity')[b] ELSE tokens[b]]
    /\ admitted' = [c \in Clients |-> 0]
    /\ total' = 0
    /\ UNCHANGED <<gained, pc, check>>

\* refill: up to the capacity.
Refill(b) ==
    /\ Exists(b) /\ tokens[b] < capacity[b]
    /\ gained[b] < MaxGain
    /\ tokens' = [tokens EXCEPT ![b] = @ + 1]
    /\ gained' = [gained EXCEPT ![b] = @ + 1]
    /\ UNCHANGED <<limits, epoch, capacity, pc, check, passed>>

-----------------------------------------------------------------------------
Check(k) ==
    \/ Begin(k) \/ CheckAlone(k) \/ ConsumeAlone(k) \/ ReadLimit(k) \/ GetBucket(k)
    \/ CanOwn(k) \/ CanAll(k) \/ AskAll(k) \/ TakeAll(k) \/ GiveAll(k) \/ TakeOwn(k)

Next ==
    \/ \E k \in Checks : Check(k)
    \/ \E b \in Buckets : Refill(b)
    \/ UpdateLimits

Spec == Init /\ [][Next]_vars

-----------------------------------------------------------------------------
Labels == {"idle", "alone", "consume", "limit", "bucket", "canOwn", "canAll", "askAll",
           "takeAll", "giveAll", "takeOwn", "panicked"}

\* Every variable keeps to its range: no bucket is overdrawn or holds more than its
\* capacity, though what CanConsume has seen is gone when Consume comes.
TypeOK ==
    /\ limits \in Limits
    /\ epoch \in Epochs
    /\ capacity \in [Buckets -> Nat \cup {None}]
    /\ tokens \in [Buckets -> Nat]
    /\ \A b \in Buckets : Exists(b) => tokens[b] <= capacity[b]
    /\ gained \in [Buckets -> 0 .. MaxGain]
    /\ pc \in [Checks -> Labels]
    /\ sender \in [Checks -> Senders]
    /\ bytes \in [Checks -> Sizes \cup {0}]
    /\ limit \in [Checks -> Nat \cup {None}]
    /\ bucket \in [Checks -> Buckets \cup {None}]
    /\ began \in [Checks -> Epochs]
    /\ seen \in [Checks -> Epochs]
    /\ admitted \in [Clients -> Nat]
    /\ total \in Nat

\* bandwidth.go:192: "client cannot exceed its own limit".  What a client has been
\* allowed since the last reload is no more than its bucket held and has gained since,
\* however many of its relays ask at once.
OwnRateKept ==
    \A c \in Clients :
        Limited(c) =>
            LET b == <<epoch, c>> IN
            admitted[c] <= IF Exists(b) THEN capacity[b] + gained[b] ELSE 0

\* bandwidth.go:193: "all clients' total bandwidth cannot exceed global limit", with and
\* without limits of their own.
TotalRateKept == HasAll => total <= capacity[All] + gained[All]

\* A check that begins after a reload is measured by what the reload has set, even if a
\* check from before it makes the client's bucket; and it does not lose the shared bucket
\* between asking whether there is one and asking it.
LimitsFollow ==
    \A k \in Checks : began[k] = epoch =>
        /\ bucket[k] # None =>
              bucket[k] = <<epoch, sender[k]>> /\ capacity[bucket[k]] = limits.own[sender[k]]
        /\ pc[k] # "panicked"
=============================================================================
