-------------------------------- MODULE Push --------------------------------
(***************************************************************************)
(* Server push on a multicast nghq server session (src/lib/nghq.c):       *)
(* nghq_submit_push_promise, the push-promise branch of nghq_feed_headers, *)
(* nghq_feed_payload_data on a push stream, nghq_end_request on a stream   *)
(* or on a promise not yet started (CANCEL_PUSH), nghq_session_send's walk *)
(* over the streams, nghq_stream_close, and nghq_session_close.            *)
(*                                                                         *)
(* A multicast server starts with stream 0 (the faked initial request,    *)
(* on which every PUSH_PROMISE is queued) and its control stream 3.        *)
(* Push streams are the server-initiated unidirectional streams ngtcp2     *)
(* hands out after 3: 7, 11, ...  A frame is a record naming its type and  *)
(* push id; nghq_session_send is taken a frame at a time (Requests models  *)
(* its packing and partial writes).  ngtcp2 may refuse a shut stream, and  *)
(* closes a push stream once its fin is written or it was shut.            *)
(***************************************************************************)
EXTENDS Integers, Sequences, FiniteSets, Functions, TLC

CONSTANTS
    Users,            \* promised_request_user_data values the host passes
    NoUser,           \* the user_data of nghq's own streams 0 and 3
    UniIds,           \* ids ngtcp2_conn_open_uni_stream hands out, in order
    MaxPushPromise,   \* session->max_push_promise
    MaxOpenPushes,    \* session->max_open_server_pushes
    MaxOps            \* bound on API calls and frames written

\* A server's own streams are 0 and 3; no stream 4 is ever opened, which
\* decides the walk of nghq_session_close.
ASSUME /\ NoUser \notin Users
       /\ UniIds \in Seq(Nat \ {0, 3, 4})
       /\ MaxPushPromise \in Nat /\ MaxOpenPushes \in Nat

STATE_OPEN == 0
STATE_HDRS == 1
STATE_BODY == 2
STATE_DONE == 4

INIT_STREAM == 0      \* NGHQ_INIT_REQUEST_STREAM_ID
CONTROL_SERVER == 3   \* NGHQ_CONTROL_SERVER
NoPush == -1          \* push_id NGHQ_STREAM_ID_MAP_NOT_FOUND
NoStream == -1
PushIds == 0 .. MaxPushPromise - 1
Ids == {INIT_STREAM, CONTROL_SERVER} \cup {UniIds[i] : i \in DOMAIN UniIds}
Frame == [kind : {"promise", "headers", "data", "cancel"},
          push : PushIds \cup {NoPush}, fin : BOOLEAN]

VARIABLES
    transfers,   \* session->transfers: stream id -> stream
    promises,    \* session->promises: push id -> promised user data
    nextPush,    \* session->next_push_promise
    nextUni,     \* index in UniIds of ngtcp2's next uni stream
    shut,        \* push streams ngtcp2 was asked to shut down
    out,         \* history: the frames ngtcp2 accepted, in order, with stream
    ops,         \* API calls and frames written so far
    ub           \* "none", or the undefined behaviour reached

vars == <<transfers, promises, nextPush, nextUni, shut, out, ops, ub>>

\* nghq_stream_init / nghq_stream_new.
NewStream(u, p) == [user |-> u, push |-> p, state |-> STATE_OPEN, buf |-> <<>>]

\* nghq_stream_id_map_search on transfers, by user data.
StreamOf(u) ==
    IF \E s \in DOMAIN transfers : transfers[s].user = u
    THEN CHOOSE s \in DOMAIN transfers : transfers[s].user = u
    ELSE NoStream

\* nghq_stream_id_map_search on promises, by user data.
PromiseOf(u) ==
    IF \E p \in DOMAIN promises : promises[p] = u
    THEN CHOOSE p \in DOMAIN promises : promises[p] = u
    ELSE NoPush

RemoveKey(f, k) == Restrict(f, DOMAIN f \ {k})

\* nghq_stream_id_map_num_pushes: push streams in the map.
NumPushes == Cardinality({s \in DOMAIN transfers : transfers[s].push # NoPush})

Queue(f, s, b) == [f EXCEPT ![s].buf = Append(@, b)]

\* Mutation: the limit is reached only past max_push_promise.
PushLimitReachedLate(n) == n > MaxPushPromise

\* nghq_submit_push_promise's PUSH_LIMIT_REACHED test.
PushLimitReached(n) == n >= MaxPushPromise

\* Mutation: next_push_promise is not advanced.
NextPushIdStuck(n) == n

\* session->next_push_promise++.
NextPushId(n) == n + 1

\* Mutation: the promise stays in session->promises once its stream opens.
FulfilKept(f, p) == f

\* nghq_stream_id_map_remove (session->promises, push_id).
Fulfil(f, p) == RemoveKey(f, p)

-----------------------------------------------------------------------------
Init ==
    /\ transfers = (INIT_STREAM :> NewStream(NoUser, NoPush))
                   @@ (CONTROL_SERVER :> NewStream(NoUser, NoPush))
    /\ promises = <<>>
    /\ nextPush = 0
    /\ nextUni = 1
    /\ shut = {}
    /\ out = <<>>
    /\ ops = 0
    /\ ub = "none"

API == ub = "none" /\ ops < MaxOps

\* The host passes a promised user data it is not using for another
\* request or promise.
Fresh(u) == StreamOf(u) = NoStream /\ PromiseOf(u) = NoPush

\* nghq_submit_push_promise on a multicast server: below max_push_promise,
\* the promise takes the next push id and its PUSH_PROMISE is queued on
\* stream 0.  At the limit it returns PUSH_LIMIT_REACHED and changes nothing.
SubmitPushPromise(u) ==
    /\ API /\ Fresh(u)
    /\ ~PushLimitReached(nextPush)
    /\ promises' = (nextPush :> u) @@ promises
    /\ nextPush' = NextPushId(nextPush)
    /\ transfers' = Queue(transfers, INIT_STREAM,
                          [kind |-> "promise", push |-> nextPush, fin |-> FALSE])
    /\ ops' = ops + 1
    /\ UNCHANGED <<nextUni, shut, out, ub>>

\* nghq_feed_headers on a promised user data: unless max_open_server_pushes
\* push streams are open (TOO_MANY_REQUESTS) or ngtcp2 has no stream id
\* (INTERNAL_ERROR), a uni stream opens in HDRS carrying a HEADERS frame
\* prefixed by the push id, and the promise moves to transfers.  If
\* create_headers_frame fails, its error is returned after the stream id
\* was taken: the promise stays in session->promises, not in transfers.
OpenPush(u, final) ==
    /\ API /\ StreamOf(u) = NoStream /\ PromiseOf(u) # NoPush
    /\ ~(MaxOpenPushes <= NumPushes)
    /\ nextUni <= Len(UniIds)
    /\ LET p == PromiseOf(u)
           s == UniIds[nextUni]
       IN \/ /\ transfers' = (s :> [NewStream(u, p) EXCEPT !.state = STATE_HDRS,
                                      !.buf = <<[kind |-> "headers", push |-> p,
                                                 fin |-> final]>>]) @@ transfers
             /\ promises' = Fulfil(promises, p)
          \/ UNCHANGED <<transfers, promises>>
    /\ nextUni' = nextUni + 1
    /\ ops' = ops + 1
    /\ UNCHANGED <<nextPush, shut, out, ub>>

\* The host feeds a stream it has not ended with final.
Unfinished(s) == \A i \in DOMAIN transfers[s].buf : ~transfers[s].buf[i].fin

\* nghq_feed_payload_data on a push stream: refused past BODY.
FeedPayload(u, final) ==
    /\ API /\ StreamOf(u) # NoStream
    /\ LET s == StreamOf(u)
       IN /\ Unfinished(s) /\ ~(transfers[s].state > STATE_BODY)
          /\ transfers' = [Queue(transfers, s, [kind |-> "data", push |-> NoPush,
                                                fin |-> final])
                             EXCEPT ![s].state = STATE_BODY]
    /\ ops' = ops + 1
    /\ UNCHANGED <<promises, nextPush, nextUni, shut, out, ub>>

\* nghq_end_request on an open push stream: nghq_stream_cancel shuts it.
EndStream(u) ==
    /\ API /\ StreamOf(u) # NoStream
    /\ shut' = shut \cup {StreamOf(u)}
    /\ ops' = ops + 1
    /\ UNCHANGED <<transfers, promises, nextPush, nextUni, out, ub>>

\* nghq_end_request on a promise not yet started: a CANCEL_PUSH frame is
\* queued on the server control stream; the promise stays in the map.
CancelPush(u) ==
    /\ API /\ StreamOf(u) = NoStream /\ PromiseOf(u) # NoPush
    /\ transfers' = Queue(transfers, CONTROL_SERVER,
                          [kind |-> "cancel", push |-> PromiseOf(u), fin |-> FALSE])
    /\ ops' = ops + 1
    /\ UNCHANGED <<promises, nextPush, nextUni, shut, out, ub>>

-----------------------------------------------------------------------------
\* The streams with frames queued.
Pending == {s \in DOMAIN transfers : transfers[s].buf # <<>>}

MinId(S) == CHOOSE x \in S : \A y \in S : x <= y

\* Mutation: the walk may serve any stream with data first.
SendOrderAny(s, P) == s \in P

\* nghq_session_send walks the map from stream 0 in key order and stays on a
\* stream until its buffers are empty: the stream served is the lowest with
\* data queued.
SendOrder(s, P) == s = MinId(P)

\* One frame of nghq_session_send: ngtcp2 writes the head frame of the
\* stream served, unless that stream is shut (write_stream returns 0 and the
\* loop ends).  A frame with the fin ends the stream: on_request_close runs
\* and send_state becomes DONE.
Send ==
    /\ API
    /\ \E s \in Pending :
          /\ SendOrder(s, Pending) /\ s \notin shut
          /\ LET f == Head(transfers[s].buf)
             IN /\ out' = Append(out, [stream |-> s, frame |-> f])
                /\ transfers' = [transfers EXCEPT ![s].buf = Tail(@),
                                   ![s].state = IF f.fin THEN STATE_DONE ELSE @]
    /\ ops' = ops + 1
    /\ UNCHANGED <<promises, nextPush, nextUni, shut, ub>>

\* nghq_stream_close through ngtcp2's stream_close callback: a push stream
\* whose fin was written, or that was shut, is ended and removed.
StreamClose(s) ==
    /\ ub = "none"
    /\ s \in DOMAIN transfers /\ transfers[s].push # NoPush
    /\ transfers[s].state = STATE_DONE \/ s \in shut
    /\ transfers' = RemoveKey(transfers, s)
    /\ shut' = shut \ {s}
    /\ UNCHANGED <<promises, nextPush, nextUni, out, ops, ub>>

\* The streams nghq_session_close closes: those the map iterator returns
\* after stream 4, or all of them if there is no stream 4.
ClosedAtSessionClose(f) ==
    IF 4 \in DOMAIN f THEN {s \in DOMAIN f : s > 4} ELSE DOMAIN f

\* nghq_session_close on a multicast server: the walk closes and removes
\* the streams; stream 0 is then looked up for the goaway promise, and when
\* it is gone nghq_stream_close (session, NULL, ...) dereferences NULL.
SessionClose ==
    /\ API
    /\ LET rest == Restrict(transfers, DOMAIN transfers \ ClosedAtSessionClose(transfers))
       IN /\ INIT_STREAM \notin DOMAIN rest
          /\ transfers' = rest
    /\ ub' = "null_stream_close"
    /\ UNCHANGED <<promises, nextPush, nextUni, shut, out, ops>>

Next ==
    \/ \E u \in Users : SubmitPushPromise(u)
    \/ \E u \in Users, final \in BOOLEAN : OpenPush(u, final) \/ FeedPayload(u, final)
    \/ \E u \in Users : EndStream(u) \/ CancelPush(u)
    \/ Send
    \/ \E s \in Ids : StreamClose(s)
    \/ SessionClose

Spec == Init /\ [][Next]_vars

-----------------------------------------------------------------------------
(* Properties.                                                             *)

TypeOK ==
    /\ DOMAIN transfers \subseteq Ids
    /\ \A s \in DOMAIN transfers :
          transfers[s] \in [user : Users \cup {NoUser}, push : PushIds \cup {NoPush},
                            state : STATE_OPEN .. STATE_DONE, buf : Seq(Frame)]
    /\ DOMAIN promises \subseteq PushIds /\ \A p \in DOMAIN promises : promises[p] \in Users
    /\ nextPush \in 0 .. MaxPushPromise
    /\ shut \subseteq Ids
    /\ out \in Seq([stream : Ids, frame : Frame])

\* A promise is fulfilled at most once: no two push streams carry the same
\* push id, and a push id still in session->promises has no push stream
\* (nghq_feed_headers moves the promise to transfers).
PromiseFulfilledOnce ==
    /\ \A s, t \in DOMAIN transfers :
          s # t /\ transfers[s].push # NoPush => transfers[s].push # transfers[t].push
    /\ \A p \in DOMAIN promises, s \in DOMAIN transfers : transfers[s].push # p

\* nghq_session_close never dereferences a missing stream.
NoUndefinedBehaviour ==
    ub = "none"

====
