--------------------------- MODULE RequestStreams ---------------------------
(***************************************************************************)
(* What an nghq session promises ngtcp2 about each stream it writes to,    *)
(* stated without nghq's buffers: the application queues bytes on a        *)
(* stream; ngtcp2 is handed a growing prefix of them, in order, never more *)
(* than was queued; the fin is handed over once, with the last queued      *)
(* byte; after the fin nothing more is queued or written.  Requests        *)
(* implements this specification through the mapping in its              *)
(* StreamsRefined property.                                                *)
(***************************************************************************)
EXTENDS Naturals

CONSTANT Ids          \* the stream ids

VARIABLES
    queued,   \* bytes queued on each stream so far
    sent,     \* bytes of each stream ngtcp2 has accepted
    fin       \* whether ngtcp2 has accepted the stream's fin

vars == <<queued, sent, fin>>

Init ==
    /\ queued = [s \in Ids |-> 0]
    /\ sent = [s \in Ids |-> 0]
    /\ fin = [s \in Ids |-> FALSE]

\* More bytes are queued on a stream whose fin has not gone out.
Enqueue(s) ==
    /\ ~fin[s]
    /\ queued'[s] > queued[s]
    /\ queued' = [queued EXCEPT ![s] = queued'[s]]
    /\ UNCHANGED <<sent, fin>>

\* ngtcp2 accepts more of the queued bytes, without the fin.
Transmit(s) ==
    /\ ~fin[s]
    /\ sent[s] < sent'[s] /\ sent'[s] <= queued[s]
    /\ sent' = [sent EXCEPT ![s] = sent'[s]]
    /\ UNCHANGED <<queued, fin>>

\* ngtcp2 accepts the rest of the queued bytes together with the fin.
Finish(s) ==
    /\ ~fin[s]
    /\ sent' = [sent EXCEPT ![s] = queued[s]]
    /\ fin' = [fin EXCEPT ![s] = TRUE]
    /\ UNCHANGED queued

Next == \E s \in Ids : Enqueue(s) \/ Transmit(s) \/ Finish(s)

Spec == Init /\ [][Next]_vars

=============================================================================
