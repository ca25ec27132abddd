------------------------------ MODULE Requests ------------------------------
(***************************************************************************)
(* The request side of an nghq client session (src/lib/nghq.c): the       *)
(* request API (nghq_submit_request, nghq_feed_headers,                    *)
(* nghq_feed_payload_data, nghq_end_request), the send pipeline            *)
(* (nghq_session_send, nghq_write_send_buffer), stream teardown            *)
(* (nghq_stream_close, nghq_stream_ended) and nghq_session_close and       *)
(* nghq_session_free, over one unicast client session.                     *)
(*                                                                         *)
(* A send buffer is abstracted to its length in units and its "complete"   *)
(* (fin) flag.  ngtcp2 is the environment: it assigns stream ids, decides  *)
(* how much of what nghq offers a packet takes, may refuse to write, and   *)
(* closes a stream when the peer resets it or both directions are done.    *)
(* The host is the other environment: it calls the API in any order, and  *)
(* its send callback may take a packet, block, or fail.                    *)
(***************************************************************************)
EXTENDS Integers, Sequences, FiniteSets, TLC

CONSTANTS
    Users,            \* request_user_data values the host passes
    NoUser,           \* the user_data of nghq's own stream 0 (NULL)
    BidiIds,          \* ids ngtcp2_conn_open_bidi_stream hands out, in order
    MaxOpenRequests,  \* session->max_open_requests
    PackLimit,        \* max_packet_size - MIN_STREAM_PACKET_OVERHEAD, in units
    HdrLen,           \* length of a HEADERS frame, in units
    DataLens,         \* lengths of the DATA frames the host feeds
    SubmitFinal,      \* the host may pass final = 1 to nghq_submit_request
    FeedAfterFinal,   \* the host may feed a request it already ended with final
    MaxOps            \* bound on API calls and packets written

ASSUME /\ NoUser \notin Users
       /\ BidiIds \in Seq(Nat)
       /\ PackLimit \in Nat \ {0} /\ HdrLen \in Nat \ {0}
       /\ DataLens \subseteq Nat \ {0}

\* send_state values, in the order the code compares them (send_state > STATE_BODY).
STATE_OPEN == 0
STATE_HDRS == 1
STATE_BODY == 2
STATE_TRAILERS == 3
STATE_DONE == 4

NoStream == -1
Ids == {0} \cup {BidiIds[i] : i \in DOMAIN BidiIds}

VARIABLES
    transfers,   \* session->transfers: stream id -> stream
    nextBidi,    \* index in BidiIds of ngtcp2's next bidi stream
    shut,        \* streams ngtcp2 was asked to shut down (nghq_stream_cancel)
    wire,        \* per stream, what ngtcp2 has accepted: units and fin
    queued,      \* history: units ever queued on each stream
    pkts,        \* packets in session->send_buf not yet taken by the host
    pc,          \* "idle", or "send" inside nghq_session_send's loop
    it,          \* nghq_session_send's stream cursor
    phase,       \* "open", "closed" (nghq_session_close), "freed"
    ops,         \* API calls and packets so far
    host,        \* the host's view of each request: "none", "open", "final"
    sid,         \* history: the stream id each request was given
    closes,      \* history: on_request_close_callback calls per request
    ub           \* "none", or the undefined behaviour reached

vars == <<transfers, nextBidi, shut, wire, queued, pkts, pc, it, phase, ops,
          host, sid, closes, ub>>

Buf == [len : Nat, fin : BOOLEAN]

\* nghq_stream_init: a stream with nothing queued, send_state OPEN.
NewStream(u) == [user |-> u, state |-> STATE_OPEN, trailers |-> FALSE, buf |-> <<>>]

\* The map's search by user data (nghq_stream_id_map_search).
StreamOf(u) ==
    IF \E s \in DOMAIN transfers : transfers[s].user = u
    THEN CHOOSE s \in DOMAIN transfers : transfers[s].user = u
    ELSE NoStream

RemoveStream(f, s) == [x \in DOMAIN f \ {s} |-> f[x]]

\* Number of request streams in the map (nghq_stream_id_map_num_requests).
NumRequests == Cardinality({s \in DOMAIN transfers : transfers[s].user # NoUser})

\* nghq_io_buf_new / nghq_io_buf_push: queue a frame on stream s.
Queue(f, s, b) == [f EXCEPT ![s].buf = Append(@, b)]

\* nghq_feed_headers' switch on send_state: is a HEADERS frame accepted, and
\* the state it leaves.  BODY needs promised trailers; DONE is REQUEST_CLOSED.
HeadersAccepted(st, tp) ==
    st \in {STATE_OPEN, STATE_HDRS, STATE_TRAILERS} \/ (st = STATE_BODY /\ tp)

HeadersState(st) ==
    CASE st = STATE_OPEN -> STATE_HDRS
      [] st = STATE_BODY -> STATE_TRAILERS
      [] OTHER -> st

\* Mutation: payload refused only once the request is DONE.
PayloadAcceptedBeforeDone(st) == st < STATE_DONE

\* nghq_feed_payload_data: refused (REQUEST_CLOSED) once past BODY.
PayloadAccepted(st) == ~(st > STATE_BODY)

-----------------------------------------------------------------------------
Init ==
    /\ transfers = (0 :> NewStream(NoUser))
    /\ nextBidi = 1
    /\ shut = {}
    /\ wire = [s \in Ids |-> [sent |-> 0, fin |-> FALSE]]
    /\ queued = [s \in Ids |-> 0]
    /\ pkts = 0
    /\ pc = "idle"
    /\ it = 0
    /\ phase = "open"
    /\ ops = 0
    /\ host = [u \in Users |-> "none"]
    /\ sid = [u \in Users |-> NoStream]
    /\ closes = [u \in Users |-> 0]
    /\ ub = "none"

Ready == pc = "idle" /\ phase # "freed" /\ ub = "none" /\ ops < MaxOps

\* The host makes request calls only before nghq_session_close.
API == Ready /\ phase = "open"

\* The host may call for request u: it was submitted and, unless the host
\* misuses the API, not yet ended with final (at submit or by a feed).
Feedable(u) ==
    host[u] = "open" \/ (FeedAfterFinal /\ host[u] \in {"final", "submit_final"})

\* nghq_submit_request for a fresh request: a new bidi stream, its HEADERS
\* (final = 0), then either one DATA frame (final = 0; the call's final is
\* not passed on) or, with no body and final, the stream is removed and
\* freed again.  Failures (too many requests, no stream id) change nothing.
SubmitRequest(u, body, final, tp) ==
    /\ API /\ host[u] = "none" /\ (final => SubmitFinal)
    /\ NumRequests < MaxOpenRequests
    /\ nextBidi <= Len(BidiIds)
    /\ LET s   == BidiIds[nextBidi]
           hdr == [NewStream(u) EXCEPT !.state = STATE_HDRS, !.trailers = tp,
                                       !.buf = <<[len |-> HdrLen, fin |-> FALSE]>>]
           withBody == [hdr EXCEPT !.state = STATE_BODY,
                                   !.buf = Append(@, [len |-> body, fin |-> FALSE])]
       IN /\ transfers' =
               IF body > 0 THEN (s :> withBody) @@ transfers
               ELSE IF final THEN RemoveStream(transfers, s)
               ELSE (s :> hdr) @@ transfers
          /\ queued' = [queued EXCEPT ![s] = @ + HdrLen + body]
          /\ sid' = [sid EXCEPT ![u] = s]
    /\ nextBidi' = nextBidi + 1
    /\ host' = [host EXCEPT ![u] = IF final THEN "submit_final" ELSE "open"]
    /\ ops' = ops + 1
    /\ UNCHANGED <<shut, wire, pkts, pc, it, phase, closes, ub>>

\* nghq_feed_headers on a request stream.
FeedHeaders(u, tp, final) ==
    /\ API /\ Feedable(u) /\ StreamOf(u) # NoStream
    /\ LET s == StreamOf(u)
           st == transfers[s].state
       IN /\ HeadersAccepted(st, transfers[s].trailers)
          /\ transfers' = [Queue(transfers, s, [len |-> HdrLen, fin |-> final])
                             EXCEPT ![s].state = HeadersState(st),
                                    ![s].trailers = IF st \in {STATE_OPEN, STATE_HDRS}
                                                    THEN @ \/ tp ELSE @]
          /\ queued' = [queued EXCEPT ![s] = @ + HdrLen]
    /\ host' = [host EXCEPT ![u] = IF final THEN "final" ELSE @]
    /\ ops' = ops + 1
    /\ UNCHANGED <<nextBidi, shut, wire, pkts, pc, it, phase, sid, closes, ub>>

\* nghq_feed_payload_data.
FeedPayload(u, len, final) ==
    /\ API /\ Feedable(u) /\ StreamOf(u) # NoStream
    /\ LET s == StreamOf(u)
       IN /\ PayloadAccepted(transfers[s].state)
          /\ transfers' = [Queue(transfers, s, [len |-> len, fin |-> final])
                             EXCEPT ![s].state = STATE_BODY]
          /\ queued' = [queued EXCEPT ![s] = @ + len]
    /\ host' = [host EXCEPT ![u] = IF final THEN "final" ELSE @]
    /\ ops' = ops + 1
    /\ UNCHANGED <<nextBidi, shut, wire, pkts, pc, it, phase, sid, closes, ub>>

\* nghq_end_request on a request stream: nghq_stream_cancel asks ngtcp2 to
\* shut the stream down; ngtcp2 closes it later.
EndRequest(u) ==
    /\ API /\ host[u] # "none" /\ StreamOf(u) # NoStream
    /\ shut' = shut \cup {StreamOf(u)}
    /\ ops' = ops + 1
    /\ UNCHANGED <<transfers, nextBidi, wire, queued, pkts, pc, it, phase, host,
                   sid, closes, ub>>

-----------------------------------------------------------------------------
(* nghq_session_send.                                                      *)

RECURSIVE SumLen(_, _)
\* Units in the first k buffers of b.
SumLen(b, k) == IF k = 0 THEN 0 ELSE SumLen(b, k - 1) + b[k].len

\* How many buffers the packing loop takes: the first, then the next ones
\* while the total is below PackLimit.
PackCount(b) ==
    CHOOSE k \in 1 .. Len(b) :
        /\ k = Len(b) \/ SumLen(b, k) >= PackLimit
        /\ \A j \in 1 .. k - 1 : SumLen(b, j) < PackLimit

\* Mutation: the packed length is that of the first buffer only.
PackedLenFirst(b) == b[1].len

\* buf_len: the units offered to ngtcp2_conn_write_stream.
PackedLen(b) == SumLen(b, PackCount(b))

\* last_data: the OR of the packed buffers' complete flags.
PackedFin(b) == \E i \in 1 .. PackCount(b) : b[i].fin

\* Mutation: a buffer is popped only when more than it was sent.
DrainedStrict(b, sent) ==
    CHOOSE k \in 0 .. Len(b) :
        /\ k = 0 \/ SumLen(b, k) < sent
        /\ k = Len(b) \/ SumLen(b, k + 1) >= sent

\* The buffers the pop loop removes: while sent >= remaining.
Drained(b, sent) ==
    CHOOSE k \in 0 .. Len(b) :
        /\ SumLen(b, k) <= sent
        /\ k = Len(b) \/ SumLen(b, k + 1) > sent

\* Mutation: a partly sent buffer loses its complete flag.
AfterWriteDropFin(b, sent, ld) ==
    LET k == Drained(b, sent)
        r == sent - SumLen(b, k)
    IN IF r > 0
       THEN <<[len |-> b[k + 1].len - r, fin |-> FALSE]>> \o SubSeq(b, k + 2, Len(b))
       ELSE SubSeq(b, k + 1, Len(b))

\* Mutation: the sent buffers are neither popped nor advanced.
AfterWriteNoPop(b, sent, ld) == b

\* The stream's buffers after ngtcp2 took `sent` units: drained ones popped,
\* a partly sent one advanced and given complete = last_data.
AfterWrite(b, sent, ld) ==
    LET k == Drained(b, sent)
        r == sent - SumLen(b, k)
    IN IF r > 0
       THEN <<[len |-> b[k + 1].len - r, fin |-> ld]>> \o SubSeq(b, k + 2, Len(b))
       ELSE SubSeq(b, k + 1, Len(b))

\* last_data after the write: cleared only if a buffer was partly sent.
LastDataAfter(b, sent, ld) == ld /\ sent - SumLen(b, Drained(b, sent)) = 0

\* The streams, in key order from the cursor on, that have data queued.
Pending(from) == {s \in DOMAIN transfers : s >= from /\ transfers[s].buf # <<>>}

Min(S) == CHOOSE x \in S : \A y \in S : x <= y

\* nghq_write_send_buffer: the host's send callback takes every packet, or
\* blocks (0), or fails (EOF, error), which ends nghq_session_send's loop.
FlushOutcomes == {"ok", "blocked", "failed"}
Flushed(o, n) == IF o = "ok" THEN 0 ELSE n

\* Entry of nghq_session_send (bytes in flight below the limit): flush the
\* session's packets, then start at stream 0, which is dereferenced.
SendStart ==
    /\ Ready
    /\ \E o \in FlushOutcomes :
          /\ pkts' = Flushed(o, pkts)
          /\ IF o = "failed" THEN UNCHANGED <<pc, ub>>
             ELSE IF 0 \notin DOMAIN transfers
             THEN pc' = pc /\ ub' = "null_stream0"
             ELSE pc' = "send" /\ UNCHANGED ub
    /\ it' = 0
    /\ ops' = ops + 1
    /\ UNCHANGED <<transfers, nextBidi, shut, wire, queued, phase, host, sid, closes>>

\* The loop ends: bytes in flight reached MAX_BYTES_IN_FLIGHT, no stream has
\* data, or ngtcp2_conn_write_stream wrote nothing or failed (blocked,
\* shut for writing or not found return 0; others TRANSPORT_ERROR).
SendStop ==
    /\ pc = "send"
    /\ pc' = "idle"
    /\ UNCHANGED <<transfers, nextBidi, shut, wire, queued, pkts, it, phase, ops,
                   host, sid, closes, ub>>

\* One iteration of the loop that writes a packet: ngtcp2 takes `sent` of the
\* packed units (all of them for the fin to go out); the packet is queued and
\* flushed; if last_data is still set, on_request_close_callback runs and
\* send_state becomes DONE.  A stream shut down, or with its fin already
\* written, cannot be written to (SendStop).
SendPacket ==
    /\ pc = "send" /\ Pending(it) # {} /\ ops < MaxOps
    /\ LET s  == Min(Pending(it))
           b  == transfers[s].buf
           ld == PackedFin(b)
           n  == PackedLen(b)
       IN /\ s \notin shut /\ ~wire[s].fin
          /\ \E sent \in 0 .. n, o \in FlushOutcomes :
               LET done == LastDataAfter(b, sent, ld)
                   u    == transfers[s].user
               IN /\ transfers' = [transfers EXCEPT
                                     ![s].buf = AfterWrite(b, sent, ld),
                                     ![s].state = IF done THEN STATE_DONE ELSE @]
                  /\ wire' = [wire EXCEPT ![s] = [sent |-> @.sent + sent,
                                                  fin |-> ld /\ sent = n]]
                  /\ closes' = IF done /\ u \in Users
                               THEN [closes EXCEPT ![u] = @ + 1] ELSE closes
                  /\ pkts' = Flushed(o, pkts + 1)
                  /\ pc' = IF o = "failed" THEN "idle" ELSE "send"
          /\ it' = s
    /\ ops' = ops + 1
    /\ UNCHANGED <<nextBidi, shut, queued, phase, host, sid, ub>>

-----------------------------------------------------------------------------
(* Stream and session teardown.                                            *)

\* nghq_stream_close (through ngtcp2's stream_close callback): the peer
\* reset the stream, or both directions ended.  on_request_close_callback
\* runs, the stream is ended (freed) and removed from the map.
StreamClose(s) ==
    /\ pc = "idle" /\ phase # "freed" /\ ub = "none"
    /\ s \in DOMAIN transfers /\ transfers[s].user # NoUser
    /\ transfers' = RemoveStream(transfers, s)
    /\ closes' = [closes EXCEPT ![transfers[s].user] = @ + 1]
    /\ UNCHANGED <<nextBidi, shut, wire, queued, pkts, pc, it, phase, ops, host,
                   sid, ub>>

\* The streams nghq_session_close closes: those the map iterator returns
\* after stream 4, or all of them if there is no stream 4.
ClosedAtSessionClose(f) ==
    IF 4 \in DOMAIN f THEN {s \in DOMAIN f : s > 4} ELSE DOMAIN f

\* nghq_session_close (unicast): nghq_stream_close on each of those streams,
\* then the CONNECTION_CLOSE packet is queued, or, if
\* ngtcp2_conn_write_connection_close fails, an error is returned and
\* nothing is queued (the streams are closed either way).
SessionClose ==
    /\ pc = "idle" /\ phase = "open" /\ ub = "none"
    /\ LET C == ClosedAtSessionClose(transfers)
       IN /\ transfers' = [s \in DOMAIN transfers \ C |-> transfers[s]]
          /\ closes' = [u \in Users |->
                          closes[u] + (IF \E s \in C : transfers[s].user = u
                                       THEN 1 ELSE 0)]
    /\ \E written \in BOOLEAN : pkts' = IF written THEN pkts + 1 ELSE pkts
    /\ phase' = "closed"
    /\ UNCHANGED <<nextBidi, shut, wire, queued, pc, it, ops, host, sid, ub>>

\* nghq_session_free: every stream left is ended without a callback.
SessionFree ==
    /\ pc = "idle" /\ phase # "freed"
    /\ transfers' = <<>>
    /\ phase' = "freed"
    /\ UNCHANGED <<nextBidi, shut, wire, queued, pkts, pc, it, ops, host, sid,
                   closes, ub>>

Next ==
    \/ \E u \in Users, body \in {0} \cup DataLens, final, tp \in BOOLEAN :
          SubmitRequest(u, body, final, tp)
    \/ \E u \in Users, tp, final \in BOOLEAN : FeedHeaders(u, tp, final)
    \/ \E u \in Users, len \in DataLens, final \in BOOLEAN : FeedPayload(u, len, final)
    \/ \E u \in Users : EndRequest(u)
    \/ SendStart
    \/ SendStop
    \/ SendPacket
    \/ \E s \in Ids : StreamClose(s)
    \/ SessionClose
    \/ SessionFree

Spec == Init /\ [][Next]_vars

-----------------------------------------------------------------------------
(* Properties.                                                             *)

TypeOK ==
    /\ DOMAIN transfers \subseteq Ids
    /\ \A s \in DOMAIN transfers :
          transfers[s] \in [user : Users \cup {NoUser},
                            state : STATE_OPEN .. STATE_DONE,
                            trailers : BOOLEAN,
                            buf : Seq([len : Nat \ {0}, fin : BOOLEAN])]
    /\ wire \in [Ids -> [sent : Nat, fin : BOOLEAN]]
    /\ pc \in {"idle", "send"} /\ phase \in {"open", "closed", "freed"}
    /\ host \in [Users -> {"none", "open", "final", "submit_final"}]
    /\ closes \in [Users -> Nat]

\* ngtcp2 is given the fin only with the last unit queued on the stream:
\* the complete flags OR-ed over packed buffers and stored on a partly sent
\* buffer (nghq_session_send, last_data) never put the fin ahead of data.
FinAfterAllData ==
    \A s \in Ids : wire[s].fin => wire[s].sent = queued[s]

\* A request the host ended by passing final to nghq_feed_headers or
\* nghq_feed_payload_data keeps a fin queued or already written while its
\* stream exists: packing, partial writes (the flag moved onto the partly
\* sent buffer), blocked and failed sends and closes never lose it.  (The
\* final given to nghq_submit_request with a body is not passed on, line
\* 1170; such a request is "submit_final" and not covered.)
FinalHonoured ==
    \A u \in Users :
        LET s == sid[u] IN
        host[u] = "final" /\ s \in DOMAIN transfers /\ transfers[s].user = u
            => \/ wire[s].fin
               \/ \E i \in DOMAIN transfers[s].buf : transfers[s].buf[i].fin

\* send_state never goes back (spec 8, invariant 5): nghq_feed_headers,
\* nghq_feed_payload_data and nghq_session_send only move it forward.
SendStateMonotone ==
    [][\A s \in DOMAIN transfers \cap DOMAIN transfers' :
          transfers'[s].state >= transfers[s].state]_vars

\* on_request_close_callback runs at most once per request (spec 8,
\* property 6): from nghq_session_send, nghq_stream_close or
\* nghq_session_close.
CloseAtMostOnce ==
    \A u \in Users : closes[u] <= 1

\* Requests implements RequestStreams: what nghq_session_send hands to
\* ngtcp2_conn_write_stream on each stream is a growing prefix of what
\* nghq_submit_request and nghq_feed_* queued there, the fin comes once with
\* the last byte, and nothing is queued or written after it.
Streams == INSTANCE RequestStreams
               WITH sent <- [s \in Ids |-> wire[s].sent],
                    fin <- [s \in Ids |-> wire[s].fin]

StreamsRefined == Streams!Spec

\* nghq_session_send never dereferences a missing stream 0.
NoUndefinedBehaviour ==
    ub = "none"

=============================================================================
