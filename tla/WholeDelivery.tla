----------------------------- MODULE WholeDelivery -----------------------------
(***************************************************************************)
(* What the stream manager (internal/server/protocol/stream_manager.go)    *)
(* promises its handlers: of a message that was sent in chunks the handler *)
(* gets everything, in order and once, or nothing.                         *)
(***************************************************************************)
EXTENDS Naturals, Sequences

CONSTANTS
    Ids,    \* stream ids
    Last    \* sequence number of a message's last chunk

VARIABLE out   \* Ids -> what its handler was given so far

\* SplitIntoChunks numbers the chunks from 0; a chunk is known by its number.
Whole == [i \in 1 .. Last + 1 |-> i - 1]

Init == out = [id \in Ids |-> <<>>]

Deliver(id) ==
    /\ out[id] = <<>>
    /\ out' = [out EXCEPT ![id] = Whole]

Next == \E id \in Ids : Deliver(id)

Spec == Init /\ [][Next]_out
=============================================================================
