--------------------------- MODULE MulticastPush ---------------------------
(***************************************************************************)
(* A multicast nghq server (Push) and a multicast nghq client that reads    *)
(* what the server wrote.  The client's frame dispatch (the end of         *)
(* nghq_recv_stream_data) hands each complete frame to its handler:        *)
(* PUSH_PROMISE on stream 0 (_nghq_stream_push_promise_frame), CANCEL_PUSH *)
(* on control stream 3 (_nghq_stream_cancel_push_frame), HEADERS and DATA  *)
(* on a push stream, whose push-id prefix is skipped                       *)
(* (_nghq_stream_headers_frame, on_data_recv_callback).                    *)
(*                                                                         *)
(* QUIC delivers each stream's frames in order, after the reassembler      *)
(* (StreamRecv) has put its bytes together; across streams it promises no  *)
(* order (spec 5).  With CrossStreamReorder = FALSE the client reads the   *)
(* frames in the order the server wrote them, as when no packet is         *)
(* reordered or lost.  The client's application registers                  *)
(* on_begin_promise and accepts every promise.                             *)
(***************************************************************************)
EXTENDS Push

CONSTANTS
    CrossStreamReorder,  \* frames of different streams may be read out of order
    ClientMaxPush        \* the client's session->max_push_promise

ASSUME CrossStreamReorder \in BOOLEAN /\ ClientMaxPush \in Nat

VARIABLES
    cpromises,   \* the client's session->promises: push ids
    seen,        \* indices of out the client's frame loop has dispatched
    app          \* history: callbacks to the client's application, in order

clientVars == <<cpromises, seen, app>>
allVars == <<vars, clientVars>>

\* Frame i may be dispatched next: every earlier frame of its stream was, and
\* without cross-stream reordering every earlier frame at all.
Readable(i) ==
    /\ i \notin seen
    /\ \A j \in 1 .. i - 1 :
          (out[j].stream = out[i].stream \/ ~CrossStreamReorder) => j \in seen

\* Mutation: the dispatched frame stays in the active-frame list.
ConsumedKept(S, i) == S

\* *pf = frame->next; _frame_free (frame): a frame is dispatched once.
Consumed(S, i) == S \cup {i}

\* _nghq_stream_push_promise_frame: a push id above the client's
\* max_push_promise is a malformed frame; otherwise the promise is added to
\* session->promises and on_begin_promise runs before its headers are
\* delivered.
PushPromiseAccepted(p) == ~(p > ClientMaxPush)

\* _nghq_stream_cancel_push_frame: the promise is removed from
\* session->promises; no callback tells the application.
CancelPushFrame(S, p) == S \ {p}

\* The client's frame dispatch, one complete frame at a time.
ClientRecv(i) ==
    /\ Readable(i)
    /\ seen' = Consumed(seen, i)
    /\ LET f == out[i].frame
           s == out[i].stream
       IN CASE f.kind = "promise" ->
                 IF PushPromiseAccepted(f.push)
                 THEN /\ cpromises' = cpromises \cup {f.push}
                      /\ app' = Append(app, [cb |-> "begin_promise", push |-> f.push,
                                             stream |-> s])
                 ELSE UNCHANGED <<cpromises, app>>
            [] f.kind = "cancel" ->
                 /\ cpromises' = CancelPushFrame(cpromises, f.push)
                 /\ UNCHANGED app
            [] f.kind = "headers" ->
                 /\ app' = Append(app, [cb |-> "headers", push |-> f.push, stream |-> s])
                 /\ UNCHANGED cpromises
            [] f.kind = "data" ->
                 /\ app' = Append(app, [cb |-> "data", push |-> NoPush, stream |-> s])
                 /\ UNCHANGED cpromises
    /\ UNCHANGED vars

SessionInit ==
    /\ Init
    /\ cpromises = {}
    /\ seen = {}
    /\ app = <<>>

SessionNext ==
    \/ Next /\ UNCHANGED clientVars
    \/ \E i \in DOMAIN out : ClientRecv(i)

SessionSpec == SessionInit /\ [][SessionNext]_allVars

-----------------------------------------------------------------------------
(* Properties of the pair.                                                 *)

SessionTypeOK ==
    /\ TypeOK
    /\ cpromises \subseteq PushIds
    /\ seen \subseteq DOMAIN out
    /\ app \in Seq([cb : {"begin_promise", "headers", "data"},
                    push : PushIds \cup {NoPush}, stream : Ids])

\* The client's application is told of each push id once: on_begin_promise
\* never runs twice for one push id (nghq_submit_push_promise's push ids,
\* nghq_session_send writing each frame once, the client dispatching each
\* frame once).
ClientToldOnce ==
    \A k, l \in DOMAIN app :
        app[k].cb = "begin_promise" /\ app[l].cb = "begin_promise"
        /\ app[k].push = app[l].push => k = l

\* Spec 8.4 scenario 5: the client's on_begin_promise for a push id comes
\* before the on_headers of the push stream carrying it.
ClientPromiseFirst ==
    \A k \in DOMAIN app :
        app[k].cb = "headers" /\ app[k].push # NoPush =>
            \E j \in 1 .. k - 1 : app[j].cb = "begin_promise" /\ app[j].push = app[k].push

====
