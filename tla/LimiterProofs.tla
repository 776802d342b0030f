------------------------------ MODULE LimiterProofs ------------------------------
(***************************************************************************)
(* Proofs about Limiter, for every number of relays, clients, sizes,       *)
(* limits, reloads and gains.                                              *)
(*                                                                         *)
(* Places says what a check knows where it is; Future, that nothing is     *)
(* known of the buckets of updates to come; Current, that the clients'     *)
(* buckets of the last update are those of its limits.  With these three   *)
(* LimitsFollow is inductive, and so is Conserved, from which OwnRateKept  *)
(* follows: what a client's bucket has left and what the client was        *)
(* allowed add up to no more than it had and gained.                       *)
(*                                                                         *)
(* For the bucket all clients share this does not do: a check takes from   *)
(* it and is counted some steps later, and any number of checks may be in  *)
(* between.  Reserved lays what these hold side by side in one stretch of  *)
(* bytes, which with what is left and what is counted fits the bucket.     *)
(***************************************************************************)
EXTENDS Limiter, TLAPS

Own(c) == <<epoch, c>>

\* After its bucket has been asked for, a check of the last update has the bucket of
\* its sender if that has a limit, and none otherwise.
Asked == {"canOwn", "canAll", "askAll", "takeAll", "giveAll", "takeOwn"}

\* Where a check has found the shared bucket there and is about to call it.
Calling == {"consume", "askAll", "giveAll"}

PlacesOf(k) ==
    /\ pc[k] \in {"limit", "bucket"} \cup Asked => sender[k] \in Clients
    /\ pc[k] \in {"alone", "consume"} => sender[k] = Anonymous
    /\ pc[k] = "bucket" => limit[k] # None
    /\ bucket[k] # None => pc[k] \in Asked \cup {"panicked"} /\ Exists(bucket[k])
    /\ pc[k] = "canOwn" => bucket[k] # None
    /\ began[k] <= epoch
    /\ pc[k] \in Calling =>
          began[k] <= seen[k] /\ seen[k] <= epoch /\ Exists(<<seen[k], Shared>>)
    /\ pc[k] = "panicked" => began[k] < epoch
    /\ pc[k] = "bucket" /\ began[k] = epoch => limit[k] = limits.own[sender[k]]
    /\ pc[k] \in Asked /\ began[k] = epoch =>
          bucket[k] = IF Limited(sender[k]) THEN Own(sender[k]) ELSE None
Places == \A k \in Checks : PlacesOf(k)

Future ==
    \A b \in Buckets : b[1] > epoch => ~Exists(b) /\ tokens[b] = 0 /\ gained[b] = 0

Current ==
    \A c \in Clients :
        Limited(c) => /\ Exists(Own(c)) => capacity[Own(c)] = limits.own[c]
                      /\ epoch > 0 => Exists(Own(c))

Conserved ==
    \A c \in Clients :
        Limited(c) => IF Exists(Own(c))
                      THEN admitted[c] + tokens[Own(c)] <= capacity[Own(c)] + gained[Own(c)]
                      ELSE admitted[c] = 0

IInv == TypeOK /\ Places /\ Future /\ Current /\ Conserved

-----------------------------------------------------------------------------
LEMMA BucketFacts ==
    /\ \A b \in Buckets : b = <<b[1], b[2]>> /\ b[1] \in Epochs /\ b[2] \in Owners
    /\ \A e \in Epochs : \A o \in Owners : <<e, o>> \in Buckets
    /\ Clients \subseteq Owners /\ Shared \in Owners /\ Shared \notin Clients
    /\ Anonymous \notin Clients
    /\ None \notin Nat /\ None \notin Buckets
    /\ MaxUpdates \in Nat /\ MaxGain \in Nat /\ Sizes \subseteq Nat
    /\ \A e \in Epochs : e \in Nat
BY LimiterAssumption DEF Buckets, Owners, Epochs

LEMMA LimitFacts ==
    ASSUME NEW l \in Limits
    PROVE  /\ l.own \in [Clients -> Nat \cup {None}]
           /\ l.all \in Nat \cup {None}
BY LimiterAssumption

\* What a check knows of epochs.
LEMMA EpochFacts ==
    ASSUME IInv
    PROVE  /\ epoch \in Nat
           /\ \A k \in Checks :
                 /\ began[k] \in Nat /\ seen[k] \in Nat /\ began[k] <= epoch
                 /\ pc[k] = "panicked" => began[k] < epoch
<1>1. epoch \in Nat /\ \A k \in Checks : began[k] \in Nat /\ seen[k] \in Nat
  BY BucketFacts DEF IInv, TypeOK
<1>. QED BY <1>1 DEF IInv, Places, PlacesOf

\* What it has in hand.
LEMMA PlaceFacts ==
    ASSUME IInv, NEW k \in Checks
    PROVE  /\ pc[k] \in {"limit", "bucket"} \cup Asked => sender[k] \in Clients
           /\ pc[k] = "bucket" => limit[k] \in Nat /\ bucket[k] = None
           /\ bucket[k] # None => bucket[k] \in Buckets /\ Exists(bucket[k])
<1>1. /\ limit[k] \in Nat \cup {None} /\ bucket[k] \in Buckets \cup {None}
  BY DEF IInv, TypeOK
<1>2. PlacesOf(k)
  BY DEF IInv, Places
<1>. QED BY <1>1, <1>2 DEF PlacesOf, Asked

-----------------------------------------------------------------------------
LEMMA InitOK == Init => IInv
<1>. SUFFICES ASSUME Init PROVE IInv
  OBVIOUS
<1>. USE BucketFacts
<1>1. limits.own \in [Clients -> Nat \cup {None}] /\ limits.all \in Nat \cup {None}
  BY LimitFacts DEF Init
<1>2. 0 \in Epochs /\ epoch = 0
  BY DEF Init, Epochs
<1>3. capacity \in [Buckets -> Nat \cup {None}]
  BY <1>1 DEF Init
<1>4. /\ tokens \in [Buckets -> Nat]
      /\ \A b \in Buckets : Exists(b) => tokens[b] <= capacity[b]
      /\ \A b \in Buckets : ~Exists(b) => tokens[b] = 0
  BY <1>3 DEF Init, Full, Exists
<1>5. \A b \in Buckets : Exists(b) => b = <<0, Shared>>
  BY DEF Init, Exists
<1>6. TypeOK
  BY <1>2, <1>3, <1>4 DEF Init, TypeOK, Senders, Labels
<1>7. Places
  <2>1. ASSUME NEW k \in Checks
        PROVE  pc[k] = "idle" /\ bucket[k] = None /\ began[k] = 0
    BY DEF Init
  <2>2. ASSUME NEW k \in Checks
        PROVE  PlacesOf(k)
    <3>1. pc[k] = "idle" /\ bucket[k] = None /\ began[k] <= epoch
      BY <1>2, <2>1
    <3>. QED BY <3>1 DEF PlacesOf, Asked, Calling
  <2>. QED BY <2>2 DEF Places
<1>8. Future
  BY <1>2, <1>4, <1>5 DEF Init, Future
<1>9. \A c \in Clients : Own(c) \in Buckets /\ ~Exists(Own(c))
  BY <1>2, <1>5 DEF Own
<1>10. Current
  BY <1>2, <1>9 DEF Current
<1>11. Conserved
  BY <1>9 DEF Init, Conserved
<1>. QED BY <1>6, <1>7, <1>8, <1>10, <1>11 DEF IInv

-----------------------------------------------------------------------------
(* Steps that move a check and leave the buckets as they are *)

LEMMA BeginStep ==
    ASSUME IInv, NEW k \in Checks, Begin(k)
    PROVE  IInv'
<1>. USE BucketFacts
<1>1. PICK c \in Senders, n \in Sizes :
         /\ pc[k] = "idle"
         /\ sender' = [sender EXCEPT ![k] = c]
         /\ bytes' = [bytes EXCEPT ![k] = n]
         /\ pc' = [pc EXCEPT ![k] = IF c = Anonymous THEN "alone" ELSE "limit"]
         /\ began' = [began EXCEPT ![k] = epoch]
         /\ UNCHANGED <<limits, epoch, capacity, tokens, gained, limit, bucket, seen, admitted,
                       total>>
  BY DEF Begin, At, windows, passed
<1>2. TypeOK'
  BY <1>1 DEF IInv, TypeOK, Exists, Labels
<1>3. Places'
  BY <1>1 DEF IInv, TypeOK, Places, PlacesOf, Asked, Calling, Senders, Exists, Limited, Own
<1>4. Future' /\ Current' /\ Conserved'
  BY <1>1 DEF IInv, Future, Current, Conserved, Exists, Limited, Own
<1>. QED BY <1>2, <1>3, <1>4 DEF IInv

LEMMA ReadLimitStep ==
    ASSUME IInv, NEW k \in Checks, ReadLimit(k)
    PROVE  IInv'
<1>. USE BucketFacts
<1>1. /\ pc[k] = "limit"
      /\ limit' = [limit EXCEPT ![k] = limits.own[sender[k]]]
      /\ pc' = [pc EXCEPT ![k] = IF limits.own[sender[k]] = None THEN "canAll" ELSE "bucket"]
      /\ UNCHANGED <<limits, epoch, capacity, tokens, gained, sender, bytes, bucket, began,
                     seen, admitted, total>>
  BY DEF ReadLimit, At, windows, passed
<1>2. sender[k] \in Clients /\ limits.own[sender[k]] \in Nat \cup {None}
  BY <1>1, LimitFacts, PlaceFacts DEF IInv, TypeOK
<1>3. TypeOK'
  BY <1>1, <1>2 DEF IInv, TypeOK, Exists, Labels
<1>4. Places'
  BY <1>1, <1>2 DEF IInv, TypeOK, Places, PlacesOf, Asked, Calling, Exists, Limited, Own
<1>5. Future' /\ Current' /\ Conserved'
  BY <1>1 DEF IInv, Future, Current, Conserved, Exists, Limited, Own
<1>. QED BY <1>3, <1>4, <1>5 DEF IInv

\* How a check goes on: it ends; it has found the shared bucket there; it has not, or has
\* called it; or the call has panicked.
Moves(k) ==
    \/ Ends(k)
    \/ /\ pc[k] = "alone" /\ Finds(k, "consume")
    \/ /\ pc[k] \in Asked /\ \E l \in Asked \cap Calling : Finds(k, l)
    \/ /\ UNCHANGED check /\ pc[k] \in Asked
       /\ \E l \in Asked \ ({"canOwn"} \cup Calling) : At(k, l)
    \/ /\ UNCHANGED check /\ pc[k] \in Calling /\ At(k, "panicked")
       /\ \E b \in Found(k) : ~Exists(b)

\* Until the next reload the call is of the bucket that was found; without a reload
\* there is none to panic.
LEMMA FoundFacts ==
    ASSUME IInv, NEW k \in Checks, pc[k] \in Calling, NEW b \in Found(k)
    PROVE  /\ b \in Buckets
           /\ began[k] = epoch => b = All
           /\ ~Exists(b) => began[k] < epoch
<1>1. /\ began[k] \in Nat /\ seen[k] \in Nat /\ epoch \in Nat /\ epoch <= MaxUpdates
      /\ began[k] <= seen[k] /\ seen[k] <= epoch /\ Exists(<<seen[k], Shared>>)
  BY BucketFacts DEF IInv, TypeOK, Places, PlacesOf, Epochs
<1>2. PICK e \in seen[k] .. epoch : b = <<e, Shared>>
  BY DEF Found
<1>3. e \in Epochs
  BY <1>1, <1>2, BucketFacts DEF Epochs
<1>4. began[k] = epoch => seen[k] = epoch /\ e = epoch
  BY <1>1, <1>2
<1>. QED BY <1>1, <1>2, <1>3, <1>4, BucketFacts DEF All

\* A check that goes on keeps Places.
LEMMA PlacesKept ==
    ASSUME IInv, NEW k \in Checks, UNCHANGED <<limits, epoch, capacity>>, Moves(k)
    PROVE  Places'
<1>. USE BucketFacts
<1>1. CASE Ends(k)
  BY <1>1 DEF IInv, TypeOK, Places, PlacesOf, Ends, At, Asked, Calling, Exists, Limited, Own
<1>2. CASE \/ pc[k] = "alone" /\ Finds(k, "consume")
           \/ pc[k] \in Asked /\ \E l \in Asked \cap Calling : Finds(k, l)
  <2>1. /\ seen' = [seen EXCEPT ![k] = epoch] /\ Exists(<<epoch, Shared>>)
        /\ UNCHANGED <<sender, bytes, limit, bucket, began>>
        /\ began[k] <= epoch /\ epoch <= epoch
    BY <1>2, EpochFacts DEF Finds, HasAll, All, Exists
  <2>2. PICK l \in Calling : /\ pc' = [pc EXCEPT ![k] = l]
                            /\ \/ l = "consume" /\ pc[k] = "alone"
                               \/ l \in {"askAll", "giveAll"} /\ pc[k] \in Asked
    BY <1>2 DEF Finds, At, Asked, Calling
  <2>3. \A j \in Checks : /\ PlacesOf(j)
                          /\ pc'[j] = IF j = k THEN l ELSE pc[j]
                          /\ seen'[j] = IF j = k THEN epoch ELSE seen[j]
    BY <2>1, <2>2 DEF IInv, TypeOK, Places
  <2>. SUFFICES ASSUME NEW j \in Checks PROVE PlacesOf(j)'
    BY DEF Places
  <2>4. CASE j = k
    <3>1. /\ pc'[j] = l /\ seen'[j] = epoch
          /\ l = "consume" => sender[j] = Anonymous /\ bucket[j] = None
          /\ l # "consume" => pc[j] \in Asked
      BY <2>2, <2>3, <2>4 DEF PlacesOf, Asked
    <3>2. l # "consume" => l \in {"askAll", "giveAll"}
      BY <2>2
    <3>. QED BY <2>1, <2>3, <3>1, <3>2 DEF PlacesOf, Asked, Calling, Exists, Limited, Own
  <2>5. CASE j # k
    BY <2>1, <2>3, <2>5 DEF PlacesOf, Exists, Limited, Own
  <2>. QED BY <2>4, <2>5
<1>3. CASE /\ UNCHANGED check /\ pc[k] \in Asked
           /\ \E l \in Asked \ ({"canOwn"} \cup Calling) : At(k, l)
  BY <1>3 DEF IInv, TypeOK, Places, PlacesOf, At, Asked, Calling, Exists, Limited, Own, check
<1>4. CASE /\ UNCHANGED check /\ pc[k] \in Calling /\ At(k, "panicked")
           /\ \E b \in Found(k) : ~Exists(b)
  <2>1. began[k] < epoch
    BY <1>4, FoundFacts
  <2>2. bucket[k] # None => Exists(bucket[k])
    BY DEF IInv, Places, PlacesOf
  <2>. QED BY <1>4, <2>1, <2>2 DEF IInv, TypeOK, Places, PlacesOf, At, Asked, Calling, Exists,
              Limited, Own, check
<1>. QED BY <1>1, <1>2, <1>3, <1>4 DEF Moves

\* The types of what belongs to a check.
LEMMA ChecksTyped ==
    ASSUME IInv, NEW k \in Checks, Moves(k)
    PROVE  /\ pc' \in [Checks -> Labels]
           /\ sender' \in [Checks -> Senders]
           /\ bytes' \in [Checks -> Sizes \cup {0}]
           /\ limit' \in [Checks -> Nat \cup {None}]
           /\ bucket' \in [Checks -> Buckets \cup {None}]
           /\ began' \in [Checks -> Epochs]
           /\ seen' \in [Checks -> Epochs]
<1>1. 0 \in Epochs
  BY BucketFacts DEF Epochs
<1>. QED BY <1>1 DEF IInv, TypeOK, Moves, Ends, Finds, At, check, Asked, Calling, Senders, Labels

\* Nothing is taken and nobody is allowed anything.
LEMMA QuietStep ==
    ASSUME IInv, NEW k \in Checks, CanOwn(k) \/ CanAll(k) \/ AskAll(k) \/ TakeAll(k)
    PROVE  IInv'
<1>. USE BucketFacts
<1>1. UNCHANGED <<limits, epoch, capacity, tokens, gained, admitted, total>>
  BY DEF CanOwn, CanAll, AskAll, TakeAll, Panics, Refuses, Goes, Finds, passed
<1>2. Moves(k)
  BY DEF CanOwn, CanAll, AskAll, TakeAll, Panics, Refuses, Goes, Moves, Asked, Calling, Exists
<1>3. TypeOK'
  BY <1>1, <1>2, ChecksTyped DEF IInv, TypeOK, Exists
<1>4. Places'
  BY <1>1, <1>2, PlacesKept
<1>5. Future' /\ Current' /\ Conserved'
  BY <1>1 DEF IInv, Future, Current, Conserved, Exists, Limited, Own
<1>. QED BY <1>3, <1>4, <1>5 DEF IInv

-----------------------------------------------------------------------------
(* Steps that take from a bucket or allow a message *)

\* What a bucket has left after a message is its own matter.
LEMMA TakeFacts ==
    ASSUME IInv, NEW b \in Buckets, NEW n \in Sizes \cup {0}, Enough(b, n), Take(b, n)
    PROVE  /\ tokens' \in [Buckets -> Nat]
           /\ tokens'[b] = tokens[b] - n
           /\ \A d \in Buckets : d # b => tokens'[d] = tokens[d]
           /\ \A d \in Buckets : tokens'[d] <= tokens[d]
BY BucketFacts DEF IInv, TypeOK, Take, Enough

\* A step of a check in which no bucket gains, and in which no client is allowed more than its
\* own bucket gives.
LEMMA Spending ==
    ASSUME IInv, NEW k \in Checks,
           UNCHANGED <<limits, epoch, capacity, gained>>,
           tokens' \in [Buckets -> Nat],
           \A b \in Buckets : tokens'[b] <= tokens[b],
           admitted' \in [Clients -> Nat], total' \in Nat,
           \A c \in Clients : Limited(c) => IF Exists(Own(c))
                                            THEN admitted'[c] + tokens'[Own(c)]
                                                    <= admitted[c] + tokens[Own(c)]
                                            ELSE admitted'[c] = admitted[c],
           Moves(k)
    PROVE  IInv'
<1>. USE BucketFacts
<1>1. \A b \in Buckets : Exists(b) => /\ capacity[b] \in Nat /\ tokens[b] \in Nat
                                      /\ tokens'[b] \in Nat /\ tokens'[b] <= capacity[b]
  BY DEF IInv, TypeOK, Exists
<1>2. TypeOK'
  BY <1>1, ChecksTyped DEF IInv, TypeOK, Exists
<1>3. Places'
  BY PlacesKept
<1>4. Future'
  BY DEF IInv, TypeOK, Future, Exists
<1>5. Current'
  BY DEF IInv, Current, Exists, Limited, Own
<1>6. Conserved'
  <2>. SUFFICES ASSUME NEW c \in Clients, Limited(c)
                PROVE  IF Exists(Own(c))
                       THEN admitted'[c] + tokens'[Own(c)] <= capacity[Own(c)] + gained[Own(c)]
                       ELSE admitted'[c] = 0
    BY DEF Conserved, Exists, Limited, Own
  <2>1. Own(c) \in Buckets
    BY DEF Own, IInv, TypeOK
  <2>2. /\ admitted[c] \in Nat /\ admitted'[c] \in Nat
        /\ tokens[Own(c)] \in Nat /\ tokens'[Own(c)] \in Nat /\ gained[Own(c)] \in Nat
        /\ Exists(Own(c)) => capacity[Own(c)] \in Nat
    BY <1>1, <2>1 DEF IInv, TypeOK
  <2>3. IF Exists(Own(c))
        THEN admitted[c] + tokens[Own(c)] <= capacity[Own(c)] + gained[Own(c)]
        ELSE admitted[c] = 0
    BY DEF IInv, Conserved
  <2>. QED BY <2>2, <2>3
<1>. QED BY <1>2, <1>3, <1>4, <1>5, <1>6 DEF IInv

\* The counts stay what they are made of.
LEMMA AllowsTyped ==
    ASSUME IInv, NEW k \in Checks, Allows(k)
    PROVE  /\ admitted' \in [Clients -> Nat]
           /\ total' \in Nat
           /\ \A c \in Clients : ~(c = sender[k] /\ Limited(c) /\ began[k] = epoch)
                                    => admitted'[c] = admitted[c]
           /\ \A c \in Clients : admitted'[c] \in {admitted[c], admitted[c] + bytes[k]}
<1>1. bytes[k] \in Nat
  BY BucketFacts DEF IInv, TypeOK
<1>. QED BY <1>1 DEF IInv, TypeOK, Allows

LEMMA AloneStep ==
    ASSUME IInv, NEW k \in Checks, CheckAlone(k) \/ ConsumeAlone(k)
    PROVE  IInv'
<1>. USE BucketFacts
<1>1. sender[k] = Anonymous /\ bytes[k] \in Sizes \cup {0}
  BY DEF IInv, TypeOK, Places, PlacesOf, CheckAlone, ConsumeAlone
<1>2. UNCHANGED <<limits, epoch, capacity, gained>>
  BY DEF CheckAlone, ConsumeAlone
<1>3. tokens' \in [Buckets -> Nat] /\ \A b \in Buckets : tokens'[b] <= tokens[b]
  <2>1. CASE UNCHANGED tokens
    BY <2>1 DEF IInv, TypeOK
  <2>2. CASE ConsumeAlone(k) /\ \E b \in Found(k) : Enough(b, bytes[k]) /\ Take(b, bytes[k])
    <3>1. PICK b \in Found(k) : Enough(b, bytes[k]) /\ Take(b, bytes[k])
      BY <2>2
    <3>2. b \in Buckets
      BY <2>2, FoundFacts DEF ConsumeAlone, Calling
    <3>. QED BY <1>1, <3>1, <3>2, TakeFacts
  <2>. QED BY <2>1, <2>2 DEF CheckAlone, ConsumeAlone, Refuses, Panics, Finds
<1>4. /\ admitted' \in [Clients -> Nat] /\ total' \in Nat
      /\ \A c \in Clients : admitted'[c] = admitted[c]
  <2>1. CASE Allows(k)
    BY <1>1, <2>1, AllowsTyped DEF Allows
  <2>2. CASE UNCHANGED <<admitted, total>>
    BY <2>2 DEF IInv, TypeOK
  <2>. QED BY <2>1, <2>2 DEF CheckAlone, ConsumeAlone, Refuses, Panics, Finds, Goes, passed
<1>5. \A c \in Clients : Own(c) \in Buckets
  BY DEF Own, IInv, TypeOK
<1>6. \A c \in Clients : admitted'[c] + tokens'[Own(c)] <= admitted[c] + tokens[Own(c)]
  BY <1>3, <1>4, <1>5 DEF IInv, TypeOK
<1>7. Moves(k)
  BY DEF CheckAlone, ConsumeAlone, Allows, Refuses, Panics, Goes, Moves, Calling, Exists
<1>. QED BY <1>2, <1>3, <1>4, <1>6, <1>7, Spending

LEMMA GiveAllStep ==
    ASSUME IInv, NEW k \in Checks, GiveAll(k)
    PROVE  IInv'
<1>. USE BucketFacts
<1>1. bytes[k] \in Sizes \cup {0}
  BY DEF IInv, TypeOK
<1>2. UNCHANGED <<limits, epoch, capacity, gained, admitted, total>>
  BY DEF GiveAll, Panics, Refuses, Goes, passed
<1>3. tokens' \in [Buckets -> Nat] /\ \A b \in Buckets : tokens'[b] <= tokens[b]
  <2>1. CASE UNCHANGED tokens
    BY <2>1 DEF IInv, TypeOK
  <2>2. CASE \E b \in Found(k) : Enough(b, bytes[k]) /\ Take(b, bytes[k])
    <3>1. PICK b \in Found(k) : Enough(b, bytes[k]) /\ Take(b, bytes[k])
      BY <2>2
    <3>2. b \in Buckets
      BY FoundFacts DEF GiveAll, Calling
    <3>. QED BY <1>1, <3>1, <3>2, TakeFacts
  <2>. QED BY <2>1, <2>2 DEF GiveAll, Refuses, Panics
<1>4. Moves(k)
  BY DEF GiveAll, Panics, Refuses, Goes, Moves, Asked, Calling, Exists
<1>5. \A c \in Clients : Own(c) \in Buckets
  BY DEF Own, IInv, TypeOK
<1>6. \A c \in Clients : admitted'[c] + tokens'[Own(c)] <= admitted[c] + tokens[Own(c)]
  BY <1>2, <1>3, <1>5 DEF IInv, TypeOK
<1>7. admitted' \in [Clients -> Nat] /\ total' \in Nat
  BY <1>2 DEF IInv, TypeOK
<1>. QED BY <1>2, <1>3, <1>4, <1>6, <1>7, Spending

\* What a client is allowed is what its own bucket of the last update has just given.
LEMMA TakeOwnStep ==
    ASSUME IInv, NEW k \in Checks, TakeOwn(k)
    PROVE  IInv'
<1>. USE BucketFacts
<1>1. /\ pc[k] = "takeOwn" /\ "takeOwn" \in Asked
      /\ bytes[k] \in Sizes \cup {0}
      /\ UNCHANGED <<limits, epoch, capacity, gained>>
  BY DEF IInv, TypeOK, TakeOwn, Asked
<1>2. \A c \in Clients : Own(c) \in Buckets /\ admitted[c] \in Nat /\ tokens[Own(c)] \in Nat
  BY DEF Own, IInv, TypeOK
<1>3. CASE Refuses(k)
  <2>1. Ends(k) /\ UNCHANGED <<tokens, admitted, total>>
    BY <1>3 DEF Refuses, passed
  <2>2. /\ tokens' \in [Buckets -> Nat] /\ \A b \in Buckets : tokens'[b] <= tokens[b]
        /\ admitted' \in [Clients -> Nat] /\ total' \in Nat
    BY <2>1 DEF IInv, TypeOK
  <2>3. \A c \in Clients : admitted'[c] + tokens'[Own(c)] <= admitted[c] + tokens[Own(c)]
    BY <2>1, <1>2
  <2>. QED BY <1>1, <2>1, <2>2, <2>3, Spending DEF Moves
<1>4. CASE bucket[k] = None /\ Allows(k) /\ UNCHANGED tokens
  <2>1. \A c \in Clients : admitted'[c] = admitted[c]
    <3>. SUFFICES ASSUME NEW c \in Clients, c = sender[k], Limited(c), began[k] = epoch
                  PROVE  FALSE
      BY <1>4, AllowsTyped
    <3>1. bucket[k] = Own(c)
      BY <1>1 DEF IInv, Places, PlacesOf
    <3>. QED BY <3>1, <1>2, <1>4
  <2>2. /\ tokens' \in [Buckets -> Nat] /\ \A b \in Buckets : tokens'[b] <= tokens[b]
        /\ admitted' \in [Clients -> Nat] /\ total' \in Nat
    BY <1>4, AllowsTyped DEF IInv, TypeOK
  <2>3. \A c \in Clients : admitted'[c] + tokens'[Own(c)] <= admitted[c] + tokens[Own(c)]
    BY <2>1, <1>4, <1>2
  <2>. QED BY <1>1, <1>4, <2>1, <2>2, <2>3, Spending DEF Allows, Moves
<1>5. CASE /\ bucket[k] # None
           /\ Enough(bucket[k], bytes[k]) /\ Take(bucket[k], bytes[k]) /\ Allows(k)
  <2>1. bucket[k] \in Buckets /\ Exists(bucket[k]) /\ bytes[k] \in Nat
    BY <1>1, <1>5, PlaceFacts DEF IInv, TypeOK
  <2>2. /\ tokens' \in [Buckets -> Nat]
        /\ \A b \in Buckets : tokens'[b] <= tokens[b]
        /\ tokens'[bucket[k]] = tokens[bucket[k]] - bytes[k]
    BY <1>1, <1>5, <2>1, TakeFacts
  <2>3. admitted' \in [Clients -> Nat] /\ total' \in Nat
    BY <1>5, AllowsTyped
  <2>4. ASSUME NEW c \in Clients, Limited(c)
        PROVE  IF Exists(Own(c))
               THEN admitted'[c] + tokens'[Own(c)] <= admitted[c] + tokens[Own(c)]
               ELSE admitted'[c] = admitted[c]
    <3>1. CASE c = sender[k] /\ began[k] = epoch
      <4>1. bucket[k] = Own(c)
        BY <1>1, <2>4, <3>1 DEF IInv, Places, PlacesOf
      <4>2. admitted'[c] \in {admitted[c], admitted[c] + bytes[k]}
        BY <1>5, AllowsTyped
      <4>3. tokens'[Own(c)] = tokens[Own(c)] - bytes[k]
        BY <4>1, <2>2
      <4>. QED BY <4>1, <4>2, <4>3, <2>1, <1>2
    <3>2. CASE ~(c = sender[k] /\ began[k] = epoch)
      <4>1. admitted'[c] = admitted[c]
        BY <3>2, <1>5, AllowsTyped
      <4>2. tokens'[Own(c)] <= tokens[Own(c)] /\ tokens'[Own(c)] \in Nat
        BY <2>2, <1>2
      <4>. QED BY <4>1, <4>2, <1>2
    <3>. QED BY <3>1, <3>2
  <2>. QED BY <1>1, <1>5, <2>2, <2>3, <2>4, Spending DEF Allows, Moves
<1>. QED BY <1>3, <1>4, <1>5 DEF TakeOwn

-----------------------------------------------------------------------------
(* Steps that make or fill buckets *)

\* A bucket that is there stays what it is; one that is made has the limit that was
\* read, which is the one in force: a check from before the last update finds a bucket
\* wherever there is a limit.
LEMMA GetBucketStep ==
    ASSUME IInv, NEW k \in Checks, GetBucket(k)
    PROVE  IInv'
<1>. USE BucketFacts
<1>. DEFINE b == <<epoch, sender[k]>>
<1>1. /\ sender[k] \in Clients /\ epoch \in Epochs /\ epoch \in Nat
      /\ b \in Buckets /\ b[1] = epoch /\ b = Own(sender[k])
      /\ limit[k] \in Nat /\ bucket[k] = None
  <2>1. epoch \in Epochs /\ epoch \in Nat /\ pc[k] = "bucket"
    BY DEF GetBucket, IInv, TypeOK
  <2>2. sender[k] \in Clients /\ limit[k] \in Nat /\ bucket[k] = None
    BY <2>1, PlaceFacts
  <2>. QED BY <2>1, <2>2 DEF Own
<1>2. /\ UNCHANGED <<limits, epoch, gained, sender, bytes, limit, began, seen, admitted, total>>
      /\ bucket' = [bucket EXCEPT ![k] = b]
      /\ pc' = [pc EXCEPT ![k] = "canOwn"]
      /\ pc[k] = "bucket"
  BY DEF GetBucket, At, passed
<1>3. \/ Exists(b) /\ UNCHANGED <<capacity, tokens>>
      \/ /\ ~Exists(b)
         /\ capacity' = [capacity EXCEPT ![b] = limit[k]]
         /\ tokens' = [tokens EXCEPT ![b] = limit[k]]
  BY DEF GetBucket, Make
<1>4. /\ capacity' \in [Buckets -> Nat \cup {None}]
      /\ tokens' \in [Buckets -> Nat]
      /\ \A d \in Buckets : d # b => capacity'[d] = capacity[d] /\ tokens'[d] = tokens[d]
      /\ \A d \in Buckets : Exists(d) => capacity'[d] = capacity[d] /\ tokens'[d] = tokens[d]
      /\ capacity'[b] # None
      /\ ~Exists(b) => capacity'[b] = limit[k] /\ tokens'[b] = limit[k]
  BY ZenonT(40), <1>1, <1>3 DEF IInv, TypeOK, Exists
<1>5. TypeOK'
  <2>1. ASSUME NEW d \in Buckets, capacity'[d] # None
        PROVE  tokens'[d] <= capacity'[d]
    <3>1. CASE Exists(d)
      BY <3>1, <1>3, <1>4 DEF IInv, TypeOK, Exists
    <3>2. CASE ~Exists(d)
      <4>1. d = b
        BY <2>1, <3>2, <1>4 DEF Exists
      <4>. QED BY <4>1, <3>2, <1>1, <1>4
    <3>. QED BY <3>1, <3>2
  <2>2. bucket' \in [Checks -> Buckets \cup {None}]
    BY <1>1, <1>2 DEF IInv, TypeOK
  <2>. QED BY <1>1, <1>2, <1>4, <2>1, <2>2 DEF IInv, TypeOK, Exists, Labels
<1>6. Limited(sender[k]) /\ ~Exists(b) => limit[k] = limits.own[sender[k]]
  <2>. SUFFICES ASSUME Limited(sender[k]), ~Exists(b) PROVE began[k] = epoch
    BY <1>2 DEF IInv, Places, PlacesOf
  <2>1. epoch = 0
    BY <1>1 DEF IInv, Current
  <2>. QED BY <2>1, EpochFacts
<1>7. began[k] = epoch => Limited(sender[k])
  BY <1>1, <1>2 DEF IInv, Places, PlacesOf, Limited
<1>8. Places'
  <2>. SUFFICES ASSUME NEW j \in Checks PROVE PlacesOf(j)'
    BY DEF Places
  <2>1. CASE j = k
    <3>1. /\ pc'[j] = "canOwn" /\ bucket'[j] = b /\ b # None /\ began'[j] = began[j]
          /\ sender'[j] = sender[j] /\ sender[j] \in Clients /\ epoch' = epoch
      BY <2>1, <1>1, <1>2 DEF IInv, TypeOK
    <3>2. Exists(bucket[j])' /\ Limited(sender[j])' = Limited(sender[j]) /\ Own(sender[j])' = b
      BY <2>1, <3>1, <1>1, <1>2, <1>4 DEF Exists, Limited, Own
    <3>3. began[j] <= epoch /\ (began[j] = epoch => Limited(sender[j]))
      BY <2>1, <1>7, EpochFacts
    <3>. QED BY <3>1, <3>2, <3>3 DEF PlacesOf, Asked, Calling
  <2>2. CASE j # k
    <3>1. /\ pc'[j] = pc[j] /\ bucket'[j] = bucket[j]
          /\ bucket[j] # None => bucket[j] \in Buckets
      BY <2>2, <1>2 DEF IInv, TypeOK
    <3>2. bucket[j] # None => Exists(bucket[j])'
      BY <3>1, <1>4, PlaceFacts DEF Exists
    <3>3. pc[j] \in Calling => Exists(<<seen[j], Shared>>)'
      <4>1. <<seen[j], Shared>> \in Buckets
        BY DEF IInv, TypeOK
      <4>. QED BY <4>1, <1>2, <1>4 DEF IInv, Places, PlacesOf, Exists
    <3>. QED BY <3>1, <3>2, <3>3, <1>2 DEF IInv, Places, PlacesOf, Limited, Own
  <2>. QED BY <2>1, <2>2
<1>9. Future'
  <2>1. ASSUME NEW d \in Buckets, d[1] > epoch
        PROVE  capacity'[d] = None /\ tokens'[d] = 0 /\ gained'[d] = 0
    <3>1. d # b
      BY <2>1, <1>1
    <3>. QED BY <2>1, <3>1, <1>2, <1>4 DEF IInv, Future, Exists
  <2>. QED BY <2>1, <1>2 DEF Future, Exists
<1>10. \A c \in Clients : /\ Own(c) \in Buckets /\ Own(c)' = Own(c)
                          /\ c # sender[k] => Own(c) # b
  BY <1>1, <1>2 DEF Own
<1>11. Current'
  <2>1. ASSUME NEW c \in Clients, Limited(c)
        PROVE  /\ capacity'[Own(c)] # None => capacity'[Own(c)] = limits.own[c]
               /\ epoch > 0 => capacity'[Own(c)] # None
    <3>1. CASE Exists(Own(c))
      BY <2>1, <3>1, <1>4, <1>10 DEF IInv, Current, Exists
    <3>2. CASE ~Exists(Own(c)) /\ c = sender[k]
      BY <2>1, <3>2, <1>1, <1>4, <1>6
    <3>3. CASE ~Exists(Own(c)) /\ c # sender[k]
      BY <2>1, <3>3, <1>4, <1>10 DEF IInv, Current, Exists
    <3>. QED BY <3>1, <3>2, <3>3
  <2>. QED BY <2>1, <1>2, <1>10 DEF Current, Limited, Exists
<1>12. Conserved'
  <2>1. ASSUME NEW c \in Clients, Limited(c)
        PROVE  IF capacity'[Own(c)] # None
               THEN admitted[c] + tokens'[Own(c)] <= capacity'[Own(c)] + gained[Own(c)]
               ELSE admitted[c] = 0
    <3>0. admitted[c] \in Nat /\ gained[Own(c)] \in Nat
      BY <1>10 DEF IInv, TypeOK
    <3>1. CASE Exists(Own(c))
      BY <2>1, <3>1, <1>4, <1>10 DEF IInv, Conserved, Exists
    <3>2. CASE ~Exists(Own(c)) /\ c = sender[k]
      <4>1. admitted[c] = 0
        BY <2>1, <3>2 DEF IInv, Conserved
      <4>. QED BY <4>1, <3>0, <3>2, <1>1, <1>4
    <3>3. CASE ~Exists(Own(c)) /\ c # sender[k]
      BY <2>1, <3>3, <1>4, <1>10 DEF IInv, Conserved, Exists
    <3>. QED BY <3>1, <3>2, <3>3
  <2>. QED BY <2>1, <1>2, <1>10 DEF Conserved, Limited, Exists
<1>. QED BY <1>5, <1>8, <1>9, <1>11, <1>12 DEF IInv

LEMMA RefillStep ==
    ASSUME IInv, NEW b \in Buckets, Refill(b)
    PROVE  IInv'
<1>. USE BucketFacts
<1>1. /\ UNCHANGED <<limits, epoch, capacity, pc, check, passed>>
      /\ Exists(b) /\ capacity[b] \in Nat /\ tokens[b] \in Nat /\ gained[b] \in Nat
      /\ tokens[b] < capacity[b] /\ gained[b] < MaxGain
      /\ tokens' = [tokens EXCEPT ![b] = tokens[b] + 1]
      /\ gained' = [gained EXCEPT ![b] = gained[b] + 1]
  BY DEF Refill, IInv, TypeOK, Exists
<1>2. /\ tokens' \in [Buckets -> Nat]
      /\ gained' \in [Buckets -> 0 .. MaxGain]
      /\ tokens'[b] <= capacity[b]
      /\ tokens'[b] = tokens[b] + 1 /\ gained'[b] = gained[b] + 1
      /\ \A d \in Buckets : d # b => tokens'[d] = tokens[d] /\ gained'[d] = gained[d]
  BY <1>1 DEF IInv, TypeOK
<1>3. TypeOK'
  <2>1. \A d \in Buckets : Exists(d)' => tokens'[d] <= capacity'[d]
    BY <1>1, <1>2 DEF IInv, TypeOK, Exists
  <2>. QED BY <1>1, <1>2, <2>1 DEF IInv, TypeOK, check, passed
<1>4. Places'
  BY <1>1 DEF IInv, Places, PlacesOf, check, Exists, Limited, Own
<1>5. Future'
  BY <1>1, <1>2 DEF IInv, Future, Exists
<1>6. Current'
  BY <1>1 DEF IInv, Current, Exists, Limited, Own
<1>7. Conserved'
  <2>. SUFFICES ASSUME NEW c \in Clients, Limited(c)
                PROVE  IF Exists(Own(c))
                       THEN admitted[c] + tokens'[Own(c)] <= capacity[Own(c)] + gained'[Own(c)]
                       ELSE admitted[c] = 0
    BY <1>1 DEF Conserved, Exists, Limited, Own, passed
  <2>1. Own(c) \in Buckets
    BY DEF Own, IInv, TypeOK
  <2>2. /\ admitted[c] \in Nat /\ tokens[Own(c)] \in Nat /\ gained[Own(c)] \in Nat
        /\ Exists(Own(c)) => capacity[Own(c)] \in Nat
    BY <2>1 DEF IInv, TypeOK, Exists
  <2>3. IF Exists(Own(c))
        THEN admitted[c] + tokens[Own(c)] <= capacity[Own(c)] + gained[Own(c)]
        ELSE admitted[c] = 0
    BY DEF IInv, Conserved
  <2>4. CASE Own(c) = b BY <2>2, <2>3, <2>4, <1>2
  <2>5. CASE Own(c) # b BY <2>1, <2>3, <2>5, <1>2
  <2>. QED BY <2>4, <2>5
<1>. QED BY <1>3, <1>4, <1>5, <1>6, <1>7 DEF IInv

\* After an update the buckets are full, nobody has been allowed anything, and no check
\* is one of the new limits.
LEMMA UpdateStep ==
    ASSUME IInv, UpdateLimits
    PROVE  IInv'
<1>. USE BucketFacts
<1>1. /\ epoch \in Nat /\ epoch' = epoch + 1 /\ epoch' \in Epochs
      /\ UNCHANGED <<gained, pc, sender, bytes, limit, bucket, began, seen>>
      /\ admitted' = [c \in Clients |-> 0] /\ total' = 0
  BY DEF UpdateLimits, check, IInv, TypeOK, Epochs
<1>2. PICK l \in Limits : limits' = l /\ capacity' = Rebuilt(l)
  BY DEF UpdateLimits
<1>3. l.own \in [Clients -> Nat \cup {None}] /\ l.all \in Nat \cup {None}
  BY LimitFacts
<1>4. ASSUME NEW b \in Buckets
      PROVE  /\ b[1] \in Nat
             /\ capacity'[b] \in Nat \cup {None}
             /\ b[1] # epoch' => capacity'[b] = capacity[b]
             /\ b[1] = epoch' /\ b[2] # Shared => capacity'[b] = l.own[b[2]]
  <2>1. b[1] # epoch' => b # <<epoch', Shared>>
    OBVIOUS
  <2>2. b[1] = epoch' /\ b[2] # Shared => b # <<epoch', Shared>> /\ b[2] \in Clients
    BY DEF Owners
  <2>3. b[1] = epoch' /\ b[2] = Shared => b = <<epoch', Shared>>
    OBVIOUS
  <2>. QED BY <1>1, <1>2, <1>3, <2>1, <2>2, <2>3 DEF Rebuilt, IInv, TypeOK
<1>5. capacity' \in [Buckets -> Nat \cup {None}]
  BY <1>2, <1>4 DEF Rebuilt
<1>6. ASSUME NEW b \in Buckets
      PROVE  /\ tokens'[b] \in Nat
             /\ b[1] # epoch' => tokens'[b] = tokens[b]
             /\ b[1] = epoch' => tokens'[b] = IF capacity'[b] = None THEN 0 ELSE capacity'[b]
  BY <1>1, <1>5 DEF UpdateLimits, Full, IInv, TypeOK
<1>7. tokens' \in [Buckets -> Nat]
  BY <1>6 DEF UpdateLimits
<1>8. TypeOK'
  <2>1. ASSUME NEW b \in Buckets, capacity'[b] # None
        PROVE  tokens'[b] <= capacity'[b]
    BY <2>1, <1>4, <1>6 DEF IInv, TypeOK, Exists
  <2>. QED BY <1>1, <1>2, <1>5, <1>7, <2>1 DEF IInv, TypeOK, Exists
<1>9. ASSUME NEW b \in Buckets, Exists(b)
      PROVE  Exists(b)'
  <2>1. b[1] <= epoch
    BY <1>4, <1>9, <1>1 DEF IInv, Future
  <2>. QED BY <2>1, <1>1, <1>4, <1>9 DEF Exists
<1>10. Places'
  <2>1. \A k \in Checks : /\ began[k] \in Nat /\ began[k] <= epoch' /\ began[k] # epoch'
                          /\ bucket[k] # None => Exists(bucket[k])'
    BY <1>1, <1>9, EpochFacts, PlaceFacts
  <2>2. \A k \in Checks : /\ seen[k] \in Nat /\ (seen[k] <= epoch => seen[k] <= epoch')
                          /\ Exists(<<seen[k], Shared>>) => Exists(<<seen[k], Shared>>)'
    BY <1>1, <1>9, EpochFacts DEF IInv, TypeOK
  <2>3. \A k \in Checks : pc[k] = "panicked" => began[k] < epoch'
    BY <1>1, EpochFacts
  <2>. QED BY <1>1, <2>1, <2>2, <2>3 DEF IInv, Places, PlacesOf
<1>11. Future'
  <2>1. ASSUME NEW b \in Buckets, b[1] > epoch'
        PROVE  capacity'[b] = None /\ tokens'[b] = 0 /\ gained'[b] = 0
    BY <2>1, <1>1, <1>4, <1>6 DEF IInv, Future, Exists
  <2>. QED BY <2>1 DEF Future, Exists
<1>12. ASSUME NEW c \in Clients
       PROVE  /\ Own(c)' \in Buckets
              /\ capacity'[Own(c)'] = l.own[c]
              /\ tokens'[Own(c)'] = IF l.own[c] = None THEN 0 ELSE l.own[c]
              /\ gained[Own(c)'] \in Nat
  <2>1. Own(c)' \in Buckets /\ (Own(c)')[1] = epoch' /\ (Own(c)')[2] = c
    BY <1>1 DEF Own
  <2>. QED BY <2>1, <1>4, <1>6 DEF IInv, TypeOK
<1>13. Current'
  BY <1>2, <1>12 DEF Current, Limited, Exists
<1>14. Conserved'
  <2>1. \A c \in Clients : l.own[c] \in Nat \cup {None} /\ admitted'[c] = 0
    BY <1>1, <1>3
  <2>2. ASSUME NEW c \in Clients, l.own[c] # None
        PROVE  admitted'[c] + tokens'[Own(c)'] <= capacity'[Own(c)'] + gained'[Own(c)']
    BY <2>1, <2>2, <1>1, <1>12
  <2>. QED BY <1>2, <1>12, <2>2 DEF Conserved, Limited, Exists
<1>. QED BY <1>8, <1>10, <1>11, <1>13, <1>14 DEF IInv

-----------------------------------------------------------------------------
LEMMA Inductive == IInv /\ [Next]_vars => IInv'
<1>. SUFFICES ASSUME IInv, [Next]_vars PROVE IInv'
  OBVIOUS
<1>1. ASSUME NEW k \in Checks, Check(k) PROVE IInv'
  BY <1>1, BeginStep, AloneStep, ReadLimitStep, GetBucketStep, QuietStep, GiveAllStep,
     TakeOwnStep DEF Check
<1>2. ASSUME NEW b \in Buckets, Refill(b) PROVE IInv'
  BY <1>2, RefillStep
<1>3. CASE UpdateLimits
  BY <1>3, UpdateStep
<1>4. CASE UNCHANGED vars
  <2>1. UNCHANGED <<limits, epoch, capacity, tokens, gained, pc, sender, bytes, limit, bucket,
                    began, seen, admitted, total>>
    BY <1>4 DEF vars, windows, check, passed
  <2>2. TypeOK' BY <2>1 DEF IInv, TypeOK, Exists
  <2>3. Places' BY <2>1 DEF IInv, Places, PlacesOf, Exists, Limited, Own
  <2>4. Future' /\ Current' /\ Conserved'
    BY <2>1 DEF IInv, Future, Current, Conserved, Exists, Limited, Own
  <2>. QED BY <2>2, <2>3, <2>4 DEF IInv
<1>. QED BY <1>1, <1>2, <1>3, <1>4 DEF Next

THEOREM Invariant == Spec => []IInv
BY InitOK, Inductive, PTL DEF Spec

\* Types, and that no bucket is overdrawn or too full.
THEOREM TypeCorrect == Spec => []TypeOK
BY Invariant, PTL DEF IInv

\* bandwidth.go:192: a client is allowed no more than its own limit.
THEOREM RateKept == Spec => []OwnRateKept
<1>1. IInv => OwnRateKept
  <2>. SUFFICES ASSUME IInv, NEW c \in Clients, Limited(c)
                PROVE  admitted[c] <= IF Exists(Own(c))
                                      THEN capacity[Own(c)] + gained[Own(c)] ELSE 0
    BY DEF OwnRateKept, Own
  <2>1. Own(c) \in Buckets
    BY BucketFacts DEF Own, IInv, TypeOK
  <2>2. admitted[c] \in Nat /\ tokens[Own(c)] \in Nat /\ gained[Own(c)] \in Nat
    BY <2>1 DEF IInv, TypeOK
  <2>3. Exists(Own(c)) => capacity[Own(c)] \in Nat
    BY <2>1 DEF IInv, TypeOK, Exists
  <2>4. IF Exists(Own(c))
        THEN admitted[c] + tokens[Own(c)] <= capacity[Own(c)] + gained[Own(c)]
        ELSE admitted[c] = 0
    BY DEF IInv, Conserved
  <2>. QED BY <2>2, <2>3, <2>4
<1>. QED BY <1>1, Invariant, PTL

\* A check of the last update is measured by its limits.
THEOREM Follows == Spec => []LimitsFollow
<1>1. IInv => LimitsFollow
  <2>. SUFFICES ASSUME IInv, NEW k \in Checks, began[k] = epoch
                PROVE  /\ bucket[k] # None => /\ bucket[k] = Own(sender[k])
                                              /\ capacity[bucket[k]] = limits.own[sender[k]]
                       /\ pc[k] # "panicked"
    BY DEF LimitsFollow, Own
  <2>1. pc[k] # "panicked"
    BY EpochFacts
  <2>2. ASSUME bucket[k] # None
        PROVE  bucket[k] = Own(sender[k]) /\ capacity[bucket[k]] = limits.own[sender[k]]
    <3>1. pc[k] \in Asked /\ Exists(bucket[k]) /\ sender[k] \in Clients
      BY <2>1, <2>2 DEF IInv, Places, PlacesOf
    <3>2. Limited(sender[k]) /\ bucket[k] = Own(sender[k])
      BY <2>2, <3>1 DEF IInv, Places, PlacesOf
    <3>. QED BY <3>1, <3>2 DEF IInv, Current
  <2>. QED BY <2>1, <2>2
<1>. QED BY <1>1, Invariant, PTL
-----------------------------------------------------------------------------
(* The shared bucket *)

\* A check that has taken from the shared bucket and has not been counted yet; the
\* bucket's bytes it holds are a stretch at[k] .. at[k] + bytes[k] of the first r.
InFlight == {k \in Checks : pc[k] = "takeOwn" /\ began[k] = epoch}
SideBySide(at, r) ==
    \A k \in InFlight :
        /\ at[k] + bytes[k] <= r
        /\ \A j \in InFlight : j = k \/ at[j] + bytes[j] <= at[k] \/ at[k] + bytes[k] <= at[j]
Reserved ==
    HasAll => \E at \in [Checks -> Nat], r \in Nat :
                 SideBySide(at, r) /\ total + tokens[All] + r <= capacity[All] + gained[All]

LEMMA SharedFacts ==
    ASSUME IInv
    PROVE  /\ All \in Buckets /\ tokens[All] \in Nat /\ gained[All] \in Nat /\ total \in Nat
           /\ HasAll => capacity[All] \in Nat
           /\ \A k \in Checks : bytes[k] \in Nat
           /\ \A c \in Clients : Own(c) # All
BY BucketFacts DEF IInv, TypeOK, All, HasAll, Own

LEMMA NobodyFlies == Init => Reserved
<1>. SUFFICES ASSUME Init, HasAll PROVE Reserved
  BY DEF Reserved
<1>1. IInv
  BY InitOK
<1>2. /\ tokens[All] = capacity[All] /\ gained[All] = 0 /\ total = 0
      /\ capacity[All] \in Nat
  BY <1>1, SharedFacts DEF Init, Full, HasAll
<1>3. [k \in Checks |-> 0] \in [Checks -> Nat] /\ InFlight = {}
  BY DEF Init, InFlight
<1>4. SideBySide([k \in Checks |-> 0], 0)
  BY <1>3 DEF SideBySide
<1>5. total + tokens[All] + 0 <= capacity[All] + gained[All]
  BY <1>2
<1>. QED BY <1>3, <1>4, <1>5 DEF Reserved

\* A step after which no new check is in flight keeps what it pays for.
LEMMA RoomKept ==
    ASSUME IInv, IInv', Reserved,
           epoch' = epoch, capacity'[All] = capacity[All],
           total' + tokens'[All] + gained[All] <= total + tokens[All] + gained'[All],
           \A k \in Checks : pc'[k] = "takeOwn" /\ began'[k] = epoch
                                => pc[k] = "takeOwn" /\ began[k] = epoch /\ bytes'[k] = bytes[k]
    PROVE  Reserved'
<1>0. All' = All /\ HasAll' = HasAll
  BY DEF All, HasAll
<1>. SUFFICES ASSUME HasAll
              PROVE  \E at \in [Checks -> Nat], r \in Nat :
                        /\ SideBySide(at, r)'
                        /\ total' + tokens'[All] + r <= capacity'[All] + gained'[All]
  BY <1>0 DEF Reserved
<1>1. PICK at \in [Checks -> Nat], r \in Nat :
         SideBySide(at, r) /\ total + tokens[All] + r <= capacity[All] + gained[All]
  BY DEF Reserved
<1>2. /\ All \in Buckets /\ tokens[All] \in Nat /\ gained[All] \in Nat /\ total \in Nat
      /\ capacity[All] \in Nat
  BY SharedFacts
<1>3. tokens'[All] \in Nat /\ gained'[All] \in Nat /\ total' \in Nat
  BY <1>2, BucketFacts DEF IInv, TypeOK
<1>4. SideBySide(at, r)'
  BY <1>1 DEF SideBySide, InFlight
<1>5. total' + tokens'[All] + r <= capacity'[All] + gained'[All]
  BY <1>1, <1>2, <1>3
<1>. QED BY <1>4, <1>5

\* Consume of the shared bucket: the stretch is put behind the others.
LEMMA TakesOff ==
    ASSUME IInv, IInv', Reserved, NEW k \in Checks, GiveAll(k)
    PROVE  Reserved'
<1>1. /\ pc[k] = "giveAll" /\ pc[k] \in Calling
      /\ UNCHANGED <<limits, epoch, capacity, gained, admitted, total>>
      /\ All' = All /\ HasAll' = HasAll
      /\ All \in Buckets
  BY SharedFacts DEF GiveAll, Panics, Refuses, Goes, passed, All, HasAll, Calling
<1>2. CASE ~HasAll
  BY <1>1, <1>2 DEF Reserved
<1>3. CASE Refuses(k) \/ Panics(k)
  <2>1. UNCHANGED tokens /\ \A j \in Checks : pc'[j] = "takeOwn" => /\ j # k /\ pc[j] = pc'[j]
                                                                    /\ began'[j] = began[j]
                                                                    /\ bytes'[j] = bytes[j]
    BY <1>3 DEF Refuses, Panics, Goes, check, Ends, At, IInv, TypeOK
  <2>2. total' + tokens'[All] + gained[All] <= total + tokens[All] + gained'[All]
    BY <1>1, <2>1, SharedFacts
  <2>. QED BY <1>1, <2>1, <2>2, RoomKept
\* A check from before the last reload is not counted, whichever bucket it takes from.
<1>4. ASSUME began[k] # epoch, NEW b \in Found(k), Enough(b, bytes[k]), Take(b, bytes[k]),
             Goes(k, "takeOwn")
      PROVE  Reserved'
  <2>1. b \in Buckets /\ bytes[k] \in Sizes \cup {0}
    BY <1>1, FoundFacts DEF IInv, TypeOK
  <2>2. tokens'[All] <= tokens[All] /\ tokens'[All] \in Nat
    BY <1>1, <1>4, <2>1, TakeFacts
  <2>3. \A j \in Checks : /\ began'[j] = began[j] /\ bytes'[j] = bytes[j]
                          /\ pc'[j] = "takeOwn" => j = k \/ pc[j] = "takeOwn"
    BY <1>4 DEF Goes, check, At, IInv, TypeOK
  <2>4. total' + tokens'[All] + gained[All] <= total + tokens[All] + gained'[All]
    BY <1>1, <2>2, SharedFacts
  <2>. QED BY <1>1, <1>4, <2>3, <2>4, RoomKept
<1>5. CASE HasAll /\ Enough(All, bytes[k]) /\ Take(All, bytes[k]) /\ Goes(k, "takeOwn")
  <2>1. PICK at \in [Checks -> Nat], r \in Nat :
           SideBySide(at, r) /\ total + tokens[All] + r <= capacity[All] + gained[All]
    BY <1>5 DEF Reserved
  <2>2. /\ tokens[All] \in Nat /\ gained[All] \in Nat /\ total \in Nat /\ capacity[All] \in Nat
        /\ \A j \in Checks : bytes[j] \in Nat
        /\ tokens'[All] = tokens[All] - bytes[k] /\ tokens'[All] \in Nat
        /\ bytes' = bytes /\ began' = began
        /\ pc' = [pc EXCEPT ![k] = "takeOwn"]
    BY <1>1, <1>5, SharedFacts DEF Take, Enough, Goes, check, At, IInv, TypeOK
  <2>3. PICK next \in [Checks -> Nat] : next = [at EXCEPT ![k] = r]
    OBVIOUS
  <2>4. PICK n \in Nat : n = r + bytes[k]
    BY <2>2
  <2>5. InFlight' \subseteq InFlight \cup {k} /\ k \notin InFlight
    BY <1>1, <2>2 DEF InFlight
  <2>6. SideBySide(next, n)'
    <3>. SUFFICES ASSUME NEW i \in InFlight'
                  PROVE  /\ next[i] + bytes[i] <= n
                         /\ \A j \in InFlight' : \/ j = i
                                                 \/ next[j] + bytes[j] <= next[i]
                                                 \/ next[i] + bytes[i] <= next[j]
      BY <2>2 DEF SideBySide
    <3>1. \A j \in InFlight' : j \in Checks /\ (j = k \/ j \in InFlight)
      BY <2>5 DEF InFlight
    <3>2. \A j \in Checks : next[j] = IF j = k THEN r ELSE at[j]
      BY <2>3
    <3>3. \A j \in InFlight : /\ at[j] + bytes[j] <= r
                              /\ \A h \in InFlight : \/ h = j \/ at[h] + bytes[h] <= at[j]
                                                     \/ at[j] + bytes[j] <= at[h]
      BY <2>1 DEF SideBySide
    <3>4. \A j \in Checks : at[j] \in Nat
      OBVIOUS
    <3>. QED BY <2>2, <2>4, <3>1, <3>2, <3>3, <3>4
  <2>7. total' + tokens'[All] + n <= capacity'[All] + gained'[All]
    BY <1>1, <2>1, <2>2, <2>4
  <2>. QED BY <1>1, <2>3, <2>6, <2>7 DEF Reserved
<1>. QED
  <2>1. \A b \in Found(k) : began[k] = epoch => b = All
    BY <1>1, FoundFacts
  <2>. QED BY <1>2, <1>3, <1>5, <1>4, <2>1 DEF GiveAll

\* What the check held is counted; the stretches behind its own move up.
LEMMA Lands ==
    ASSUME IInv, IInv', Reserved, NEW k \in Checks, TakeOwn(k)
    PROVE  Reserved'
<1>1. /\ pc[k] = "takeOwn"
      /\ UNCHANGED <<limits, epoch, capacity, gained>>
      /\ All' = All /\ HasAll' = HasAll /\ All \in Buckets
      /\ Ends(k)
  BY SharedFacts DEF TakeOwn, Refuses, Allows, All, HasAll
<1>2. /\ tokens[All] \in Nat /\ gained[All] \in Nat /\ total \in Nat
      /\ tokens'[All] \in Nat /\ total' \in Nat
      /\ HasAll => capacity[All] \in Nat
      /\ \A j \in Checks : bytes[j] \in Nat
  BY <1>1, SharedFacts, BucketFacts DEF IInv, TypeOK
<1>3. tokens'[All] <= tokens[All]
  <2>1. CASE UNCHANGED tokens
    BY <2>1, <1>2
  <2>2. CASE bucket[k] # None /\ Take(bucket[k], bytes[k])
    BY <2>2, <1>1, <1>2 DEF Take, IInv, TypeOK
  <2>. QED BY <2>1, <2>2 DEF TakeOwn, Refuses
<1>4. \A j \in Checks : pc'[j] = "takeOwn" => /\ j # k /\ pc[j] = pc'[j]
                                              /\ began'[j] = began[j] /\ bytes'[j] = bytes[j]
  BY <1>1 DEF Ends, At, IInv, TypeOK
<1>5. CASE total' = total
  <2>1. total' + tokens'[All] + gained[All] <= total + tokens[All] + gained'[All]
    BY <1>1, <1>2, <1>3, <1>5
  <2>. QED BY <1>1, <1>4, <2>1, RoomKept
<1>6. CASE total' # total
  <2>1. HasAll /\ began[k] = epoch /\ total' = total + bytes[k]
    BY <1>6 DEF TakeOwn, Refuses, Allows, passed
  <2>2. PICK at \in [Checks -> Nat], r \in Nat :
           SideBySide(at, r) /\ total + tokens[All] + r <= capacity[All] + gained[All]
    BY <2>1 DEF Reserved
  <2>3. k \in InFlight /\ InFlight' \subseteq InFlight \ {k}
    BY <1>1, <1>4, <2>1 DEF InFlight
  <2>4. PICK n \in Nat : n = r - bytes[k] /\ at[k] + bytes[k] <= r
    <3>1. at[k] + bytes[k] <= r /\ at[k] \in Nat /\ bytes[k] \in Nat
      BY <1>2, <2>2, <2>3 DEF SideBySide
    <3>. QED BY <3>1
  <2>5. PICK next : next = [j \in Checks |-> IF at[j] >= at[k] + bytes[k]
                                             THEN at[j] - bytes[k] ELSE at[j]]
    OBVIOUS
  <2>6. next \in [Checks -> Nat]
    BY <1>2, <2>5
  <2>7. SideBySide(next, n)'
    <3>1. \A j \in InFlight' : j \in InFlight /\ j # k /\ j \in Checks /\ bytes'[j] = bytes[j]
      BY <1>4, <2>3 DEF InFlight
    <3>2. \A j \in InFlight : /\ at[j] + bytes[j] <= r
                              /\ \A h \in InFlight : \/ h = j \/ at[h] + bytes[h] <= at[j]
                                                     \/ at[j] + bytes[j] <= at[h]
      BY <2>2 DEF SideBySide
    <3>3. \A j \in Checks : /\ at[j] \in Nat /\ bytes[j] \in Nat
                            /\ next[j] = IF at[j] >= at[k] + bytes[k]
                                         THEN at[j] - bytes[k] ELSE at[j]
      BY <1>2, <2>5
    <3>4. ASSUME NEW i \in InFlight'
          PROVE  next[i] + bytes[i] <= n
      <4>1. at[i] + bytes[i] <= r /\ (at[k] + bytes[k] <= at[i] \/ at[i] + bytes[i] <= at[k])
        BY <2>3, <3>1, <3>2
      <4>2. i \in Checks
        BY <3>1
      <4>3. at[i] \in Nat /\ bytes[i] \in Nat /\ at[k] \in Nat /\ bytes[k] \in Nat
        BY <3>3, <4>2
      <4>4. next[i] = IF at[i] >= at[k] + bytes[k] THEN at[i] - bytes[k] ELSE at[i]
        BY <3>3, <4>2
      <4>. QED BY <2>4, <4>1, <4>3, <4>4
    <3>5. ASSUME NEW i \in InFlight', NEW j \in InFlight', j # i
          PROVE  next[j] + bytes[j] <= next[i] \/ next[i] + bytes[i] <= next[j]
      <4>1. /\ at[k] + bytes[k] <= at[i] \/ at[i] + bytes[i] <= at[k]
            /\ at[k] + bytes[k] <= at[j] \/ at[j] + bytes[j] <= at[k]
            /\ at[i] + bytes[i] <= at[j] \/ at[j] + bytes[j] <= at[i]
        BY <2>3, <3>1, <3>2, <3>5
      <4>2. i \in Checks /\ j \in Checks /\ bytes'[i] = bytes[i] /\ bytes'[j] = bytes[j]
        BY <3>1
      <4>. QED BY <3>3, <4>1, <4>2
    <3>6. \A i \in InFlight' : /\ next[i] + bytes'[i] <= n
                               /\ \A j \in InFlight' : \/ j = i
                                                       \/ next[j] + bytes'[j] <= next[i]
                                                       \/ next[i] + bytes'[i] <= next[j]
      BY <3>1, <3>4, <3>5
    <3>. QED BY <3>6 DEF SideBySide
  <2>8. total' + tokens'[All] + n <= capacity'[All] + gained'[All]
    BY <1>1, <1>2, <1>3, <2>1, <2>2, <2>4
  <2>. QED BY <1>1, <2>6, <2>7, <2>8 DEF Reserved
<1>. QED BY <1>5, <1>6

LEMMA ReservedStep == ASSUME IInv, IInv', Reserved, [Next]_vars PROVE Reserved'
<1>0. /\ All \in Buckets /\ tokens[All] \in Nat /\ gained[All] \in Nat /\ total \in Nat
      /\ \A c \in Clients : Own(c) # All
  BY SharedFacts
<1>1. ASSUME NEW k \in Checks, Begin(k) \/ ReadLimit(k) \/ CanOwn(k) \/ CanAll(k) \/ AskAll(k)
      PROVE  Reserved'
  <2>1. /\ UNCHANGED <<epoch, capacity, tokens, gained, total>>
        /\ \A j \in Checks : pc'[j] = "takeOwn" => /\ j # k /\ pc[j] = pc'[j]
                                                   /\ began'[j] = began[j] /\ bytes'[j] = bytes[j]
    BY <1>1 DEF Begin, ReadLimit, CanOwn, CanAll, AskAll, Finds, Panics, Refuses, Goes, Ends, At, windows, passed, check,
                IInv, TypeOK
  <2>2. total' + tokens'[All] + gained[All] <= total + tokens[All] + gained'[All]
    BY <1>0, <2>1
  <2>. QED BY <2>1, <2>2, RoomKept
<1>2. ASSUME NEW k \in Checks, GetBucket(k) PROVE Reserved'
  <2>1. pc[k] = "bucket" /\ <<epoch, sender[k]>> # All
    BY <1>0, <1>2 DEF GetBucket, IInv, Places, PlacesOf, Own
  <2>2. /\ UNCHANGED <<epoch, gained, total, began, bytes>>
        /\ capacity'[All] = capacity[All] /\ tokens'[All] = tokens[All]
        /\ pc' = [pc EXCEPT ![k] = "canOwn"]
    BY <1>0, <1>2, <2>1 DEF GetBucket, Make, At, passed, IInv, TypeOK
  <2>3. \A j \in Checks : pc'[j] = "takeOwn" => pc[j] = "takeOwn"
    BY <2>2 DEF IInv, TypeOK
  <2>4. total' + tokens'[All] + gained[All] <= total + tokens[All] + gained'[All]
    BY <1>0, <2>2
  <2>. QED BY <2>2, <2>3, <2>4, RoomKept
<1>3. ASSUME NEW k \in Checks, CheckAlone(k) \/ ConsumeAlone(k) PROVE Reserved'
  <2>1. /\ UNCHANGED <<epoch, capacity, gained>>
        /\ bytes[k] \in Nat
    BY <1>3, SharedFacts DEF CheckAlone, ConsumeAlone
  <2>2. \A j \in Checks : pc'[j] = "takeOwn" => /\ j # k /\ pc[j] = pc'[j]
                                                /\ began'[j] = began[j] /\ bytes'[j] = bytes[j]
    BY <1>3 DEF CheckAlone, ConsumeAlone, Allows, Refuses, Panics, Finds, Goes, check, Ends, At,
                IInv, TypeOK
  <2>3. total' + tokens'[All] + gained[All] <= total + tokens[All] + gained'[All]
    <3>1. CASE tokens' = tokens /\ (total' = total \/ (~HasAll /\ Allows(k)))
      BY <1>0, <2>1, <3>1 DEF Allows
    <3>2. ASSUME ConsumeAlone(k), NEW b \in Found(k), Enough(b, bytes[k]), Take(b, bytes[k]),
                 Allows(k)
          PROVE  total' + tokens'[All] + gained[All] <= total + tokens[All] + gained'[All]
      <4>1. /\ b \in Buckets /\ bytes[k] \in Sizes \cup {0}
            /\ began[k] = epoch => b = All
        BY <3>2, FoundFacts DEF ConsumeAlone, Calling, IInv, TypeOK
      <4>2. /\ tokens'[All] <= tokens[All] /\ tokens'[All] \in Nat
            /\ b = All => tokens'[All] = tokens[All] - bytes[k]
        BY <1>0, <3>2, <4>1, TakeFacts
      <4>3. total' = total \/ (began[k] = epoch /\ total' = total + bytes[k])
        BY <3>2 DEF Allows
      <4>. QED BY <1>0, <2>1, <4>1, <4>2, <4>3
    <3>. QED BY <1>3, <3>1, <3>2 DEF CheckAlone, ConsumeAlone, Finds, Panics, Goes, Refuses, passed
  <2>. QED BY <2>1, <2>2, <2>3, RoomKept
<1>4. ASSUME NEW b \in Buckets, Refill(b) PROVE Reserved'
  <2>1. /\ UNCHANGED <<epoch, capacity, pc, sender, bytes, limit, bucket, began, total>>
        /\ \/ tokens'[All] = tokens[All] /\ gained'[All] = gained[All]
           \/ tokens'[All] = tokens[All] + 1 /\ gained'[All] = gained[All] + 1
    BY <1>0, <1>4 DEF Refill, check, passed, IInv, TypeOK
  <2>2. total' + tokens'[All] + gained[All] <= total + tokens[All] + gained'[All]
    BY <1>0, <2>1
  <2>. QED BY <2>1, <2>2, RoomKept
<1>5. CASE UpdateLimits
  <2>. SUFFICES ASSUME HasAll' PROVE Reserved'
    BY DEF Reserved
  <2>1. /\ total' = 0 /\ UNCHANGED <<gained, pc, began>>
        /\ epoch \in Nat /\ epoch' = epoch + 1 /\ epoch' \in Epochs
    BY <1>5 DEF UpdateLimits, check, IInv, TypeOK, Epochs
  <2>2. All' \in Buckets /\ All'[1] = epoch' /\ All'[1] > epoch
    BY <2>1, BucketFacts DEF All
  <2>3. gained'[All'] = 0 /\ tokens'[All'] \in Nat /\ capacity'[All'] \in Nat
    BY <2>1, <2>2, BucketFacts DEF IInv, TypeOK, Future, HasAll
  <2>4. tokens'[All'] <= capacity'[All']
    BY <2>2, <2>3 DEF IInv, TypeOK, Exists, HasAll
  <2>5. InFlight' = {}
    <3>1. \A k \in Checks : began[k] \in Nat /\ began[k] <= epoch
      BY BucketFacts DEF IInv, TypeOK, Places, PlacesOf
    <3>. QED BY <2>1, <3>1 DEF InFlight
  <2>6. SideBySide([k \in Checks |-> 0], 0)'
    BY <2>5 DEF SideBySide
  <2>7. total' + tokens'[All'] + 0 <= capacity'[All'] + gained'[All']
    BY <2>1, <2>3, <2>4
  <2>8. [k \in Checks |-> 0] \in [Checks -> Nat]
    OBVIOUS
  <2>. QED BY <2>6, <2>7, <2>8 DEF Reserved
<1>6. ASSUME NEW k \in Checks, TakeAll(k) PROVE Reserved'
  <2>1. /\ UNCHANGED <<epoch, capacity, tokens, gained, total, began, bytes>>
        /\ All' = All /\ HasAll' = HasAll
    BY <1>6 DEF TakeAll, Finds, Goes, check, passed, All, HasAll
  <2>2. CASE HasAll
    <3>1. pc' = [pc EXCEPT ![k] = "giveAll"]
      BY <1>6, <2>2 DEF TakeAll, Counts, Finds, At
    <3>2. \A j \in Checks : pc'[j] = "takeOwn" => pc[j] = "takeOwn"
      BY <3>1 DEF IInv, TypeOK
    <3>3. total' + tokens'[All] + gained[All] <= total + tokens[All] + gained'[All]
      BY <1>0, <2>1
    <3>. QED BY <2>1, <3>2, <3>3, RoomKept
  <2>. QED BY <2>1, <2>2 DEF Reserved
<1>7. CASE UNCHANGED vars
  <2>1. UNCHANGED <<epoch, capacity, tokens, gained, pc, bytes, began, total>>
    BY <1>7 DEF vars, windows, check, passed
  <2>2. total' + tokens'[All] + gained[All] <= total + tokens[All] + gained'[All]
    BY <1>0, <2>1
  <2>. QED BY <2>1, <2>2, RoomKept
<1>. QED BY <1>1, <1>2, <1>3, <1>4, <1>5, <1>7, <1>6, TakesOff, Lands DEF Next, Check

\* bandwidth.go:193: all clients together are allowed no more than the shared limit.
THEOREM SharedRateKept == Spec => []TotalRateKept
<1>1. Init => IInv /\ Reserved
  BY InitOK, NobodyFlies
<1>2. IInv /\ Reserved /\ [Next]_vars => (IInv /\ Reserved)'
  BY Inductive, ReservedStep
<1>3. IInv /\ Reserved => TotalRateKept
  <2>. SUFFICES ASSUME IInv, Reserved, HasAll PROVE total <= capacity[All] + gained[All]
    BY DEF TotalRateKept
  <2>1. PICK r \in Nat : total + tokens[All] + r <= capacity[All] + gained[All]
    BY DEF Reserved
  <2>. QED BY <2>1, SharedFacts
<1>. QED BY <1>1, <1>2, <1>3, PTL DEF Spec

=============================================================================
