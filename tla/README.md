# TLA+ models of nghq

This directory holds TLA+ specifications of nghq, the HTTP/QUIC (multicast
profile) library in `src/lib/nghq.c`, and the TLC configurations that check
them. Every definition is translated from the C source. `PROJECT.json` maps
each definition to the lines it models (`map`). It also lists the runs, the
mutants, the findings and the hazards.

## 1. The system

nghq sits between an application and ngtcp2, the QUIC transport. Everything
runs on one host thread. The host calls `nghq_session_recv`,
`nghq_session_send`, `nghq_submit_*`, `nghq_feed_*` and `nghq_end_request`,
and nghq calls back into the host (`on_headers`, `on_data_recv`,
`on_request_close`, timers, `send`/`recv`). It also calls ngtcp2, which
calls back into nghq (`recv_stream_data`, stream close).

| Part | Code | State | Operations | Interacts with |
|---|---|---|---|---|
| Receive reassembler | `nghq_recv_stream_data` and helpers, 1506-2214 | per stream: `recv_buf` (sorted io_bufs), `active_frames` (with gap lists), `next_recv_offset`, `data_frames_total`, `recv_state` | insert segment; extract frames; fill frames; deliver DATA/HEADERS | ngtcp2 (segments), host (`on_data_recv`, `on_headers`) |
| Control-frame handlers | 1649-1830 | `max_push_promise`, promises table | PUSH_PROMISE, MAX_PUSH_ID (others are stubs) | reassembler |
| Request/push API and send state machine | 1129-1504, 2276-2378, 2484-2524 | `transfers`/`promises` tables, `send_state`, `flags`, `send_buf`, `next_push_promise`/`max_push_promise` | submit_request, submit_push_promise, feed_headers, feed_payload_data, end_request, set_max_promises, stream close/ended/cancel | host, send pipeline |
| Send pipeline | 885-1024, 2227-2268 | per-stream `send_buf`, session `send_buf`, bytes in flight | session_send, write_send_buffer | ngtcp2 (`write_stream`), host (`send`), fake ACK |
| Timer adapter | 66-142 | `conn_loss/ack_timer` handles and `_tstamp`s | _update_timers, _adjust_timer, the two timeouts | ngtcp2 expiries, host timers |
| Packet numbers and fake ACK | 2384-2482 | `last_remote_pkt_num` | _calc_pkt_number, nghq_mcast_fake_ack | send pipeline |
| Session construction, handshake synthesis | 159-717 | session fields set once | client_new, server_new | ngtcp2 |
| Session recv loop, close, free | 719-880 | session `recv_buf` | session_recv, session_close, session_free | all of the above |
| Transport params, ALPN, session id | 1028-1127, 2543-2630 | none | encode/parse | ngtcp2, TLS |

Frame codec, header compression, the stream-id map and the io_buf list live
in files outside this source tree. They appear only through their contracts:
`parse_frame_header` and `nghq_io_buf_new` are modelled from `spec.md`.

### Hard behaviours, and the properties each part needs

**Reassembler.** QUIC hands over segments in any order, overlapping,
duplicated, or with the fin alone in an empty segment. ngtcp2 runs with
`NGTCP2_SETTINGS_FLAG_UNORDERED_DATA`. Needed properties:
- the buffer list stays sorted and merged (spec 3, invariant 2);
- data keeps its offsets;
- each body byte is delivered once, in order, at its body offset (spec 8,
  property 3);
- trailers come after the body (spec 5);
- the end of the stream is signalled;
- the call returns.

**Request/send state machine.** Operations arrive in any order from the
host. Needed properties:
- `send_state` is monotone (spec 8.5);
- nothing is queued after the fin;
- exactly one `on_request_close` per request (spec 8.6);
- `next_push_promise <= max_push_promise` (spec 8.4).

**Send pipeline.** Needed properties:
- partial writes by the transport never put the fin before the last byte;
- every queued byte is written once, in order;
- blocked streams are retried.

**Timer adapter.** The host timer fires concurrently with nghq's bookkeeping
(set-then-fire-immediately, inline fire of an overdue expiry). Needed
properties:
- at most one live host timer per kind;
- no host timer fires that nghq has forgotten;
- an expiry that ngtcp2 reports is eventually handled.

**Packet numbers.** Reconstruction must equal the RFC 9000 (A.3) decoding
for every truncated value and width (spec 4.5, 8.7).

## 2. Plan

Modules, most important first:

1. `StreamRecv` (built): the receive reassembler of one request stream.
2. `RecvMalformed` (planned): the same module with layouts that violate
   HTTP framing: trailers without a `trailer` header, DATA after trailers.
   These check spec 4.2's error rules.
3. `Requests` (built for the client side): the request API, the send
   state machine and the stream table, together with the send pipeline
   (`session_send`, `write_send_buffer`, with `ngtcp2_conn_write_stream` as
   a nondeterministic partial write) and `session_close`/`session_free`.
   The pipeline is in the same module because `session_send` itself moves
   `send_state` and calls `on_request_close`. Server push is in `Push`.
4. `RequestStreams` (built): the abstract byte stream that each stream
   hands to ngtcp2. `Requests` implements it through a refinement mapping
   from `queued` and `wire`. An abstract request lifecycle (opened, ended,
   closed once) is not stated as a refinement: the close-twice finding and the
   skipped-close hazard (line 726) already show the code does not implement it.
5. `TimerAdapter` (built): `_update_timers`/`_adjust_timer`, with the two
   ngtcp2 expiries as inputs and the host timer as a second actor.
6. Packet-number decoding (built, in `SessionRecv`): `_calc_pkt_number`
   chooses its mask from the truncated value rather than the encoded width
   that spec 4.5 names, which differs from the RFC decoding when two
   numbers are 256 or more apart. Its only caller, `nghq_mcast_fake_ack`, is
   reached from `nghq_write_send_buffer`, which decodes the server's own
   packets in the order they are sent, so consecutive numbers differ by
   one. `SessionRecv` decodes them as the code does, in the state
   (`last_remote_pkt_num`) and at the moment the code does, across a wrap
   of the low byte. Each fake ACK also carries, in its own header, the
   constant packet number `remote_pktnum` (line 2474). `SessionRecv`
   abstracts a fake ACK to the number it acknowledges. The effect of a
   repeated number depends on how ngtcp2 treats duplicates, so it is
   listed as a hazard.
7. `Push` (built): server push on a multicast server, with the send walk
   and the multicast branch of `session_close`. A unicast server cannot
   push, because its `max_push_promise` is 0 (line 251). A client's
   `set_max_promises` queues its frame on control stream 2, which is not in
   a client's map. The call therefore fails after it has changed
   `max_push_promise`. It is left out.
8. `MulticastPush` (built): `Push` composed with a multicast client's
   PUSH_PROMISE, CANCEL_PUSH, HEADERS and DATA dispatch.
9. `SessionRecv` (built): `nghq_session_recv` composed with
   `TimerAdapter`, the packets `nghq_session_send` and the ACK timeout
   write, and the fake ACKs a multicast server feeds back through
   `session->recv_buf`. Both timer runs check this composition.

Runs per module:
- one passing run per delivery regime or API scenario;
- one violation run per disagreement found (each checking one property);
- a mutant for every property of every passing run.

## 3. `StreamRecv`: the receive reassembler

### Abstraction

- **Bytes.** A byte of the stream is identified by its stream offset: an
  io_buf's content is the sequence of offsets it holds. A byte copied to
  the wrong place therefore shows up as a wrong offset. Lengths and
  positions (`buf_len`, `send_pos - buf` as `pos`, `remaining` as `rem`)
  are kept exactly.
- **The stream.** The stream is the constant `Layout`: a sequence of frames
  `[type, hlen, plen]`. HEADERS frames are delivered as their byte
  sequence. Header decoding is not modelled.
- **The handler's loops.** `nghq_recv_stream_data` runs on the engine thread
  from start to end. Its three loops (frame extraction, buffers, active
  frames) are modelled one iteration per step, with `pc` and the loop
  cursors `pb`/`pf` (list indices, standing for the `**` link pointers).
  This makes a loop that never ends visible as a behaviour. No other action
  is enabled while `pc # "idle"`.
- **Undefined behaviour.** Where the C code has undefined behaviour, `ub`
  records its kind and exploration stops. The kinds are: a `size_t` that
  wraps, a pop that splits an io_buf into two sharing one allocation, a copy
  outside a frame, and a garbage frame header.

### Correspondence

| Definition | Code |
|---|---|
| `RecvStreamData(o, n, fin)` | entry and stage 1 (`_nghq_insert_recv_stream_data` via `InsertRecv`, `MergeNext`, `TrimAndAppend`) |
| `ExtractFrame` / `ExtractDone` | the `while (_nghq_stream_recv_data_at(...))` loop with `parse_frame_header`, `_nghq_stream_frame_add` (`NewFrame`) |
| `NextBuffer` / `RecvDone` / `NextBufferLink` | head, `break` and end of the loop over `recv_buf` |
| `FillFrame` | one iteration of the frame loop for a frame overlapping the buffer: `_nghq_stream_recv_data_at`, `_frame_add_data` (`FrameAddData`, `RemoveGap`), the DATA callback, `_nghq_stream_recv_pop_data` (`PopData`), then the dispatch half (`AfterFill`, `HeadersFrame`) |
| `HoldDataFrame` | the `continue` taken for DATA while `recv_state = OPEN` |
| `SkipFrame` | an iteration for a frame not overlapping the buffer |

### Inputs and bounds

`Delivery` selects what QUIC may hand over:
- `"inorder"`: each segment starts at the first missing byte;
- `"reorder"`: any bytes not handed over before;
- `"overlap"`: any range.

`FinAlone` allows the fin in a zero-length segment of its own. `MaxSegs`
bounds the number of segments. The layouts (`MCStreamRecv`) have 8 to 10
bytes:
- `LayoutHDT`: HEADERS, DATA, trailers;
- `LayoutHDD`: HEADERS and two DATA frames;
- `LayoutHDDT`: HEADERS, two DATA frames, trailers.

Why these layouts are enough:
- **Two-byte headers.** A DATA header of two bytes lets a segment end in the
  middle of a frame header. A buffer is then partly consumed and later
  extended, which exercises both branches of `_trim_and_append`.
- **Two DATA frames.** Two DATA frames make `data_frames_total` matter.
- **Complete enumeration.** `MaxSegs` equals the stream length in the
  passing runs, so every split of the stream into segments, down to one
  byte each, is explored.

### Fairness

`WF` on each of the three groups of internal steps. The engine thread is
executing `nghq_recv_stream_data` and nothing else can run, so an enabled
step of that call is eventually taken. QUIC delivery is not fair: the host
may stop feeding data at any time.

### Properties

- `RecvBufWellFormed`: after each call the buffers are sorted, and neither
  overlap nor touch. Every `remaining` lies inside its buffer.
- `RecvBufContentIntact`: every unconsumed byte sits at the offset its
  buffer claims.
- `CallbacksCarryStreamBytes`: every `on_data_recv` call carries body bytes
  at the body offset it reports. Every delivered HEADERS frame is exactly
  one HEADERS frame of the stream.
- `NoBodyByteTwice`: each body byte is delivered at most once.
- `AllDeliveredOnceReceived`: once every byte and the fin are in, nothing is
  left half-assembled.
- `EndOfStreamSignalled`: once every byte and the fin are in, the last frame
  was delivered with END_DATA or END_REQUEST.
- `DeliveredInStreamOrder`: body bytes reach the application in ascending
  body offset (`BodyInOrder`), and trailers only after the whole body
  (`TrailersAfterBody`). This is spec 5's ordering guarantee within a
  stream, which spec 4.3 says stage 4 preserves.
- `RecvReturns` (liveness): the call returns.
- `NoUndefinedBehaviour`: no undefined behaviour is reached.

### Runs

| Run | Setting | Result |
|---|---|---|
| `recv_reorder` | LayoutHDDT, reordered, up to 10 segments | the 8 safety properties that do not concern order hold |
| `recv_order` | LayoutHDDT, reordered, up to 10 segments | **violation** of `DeliveredInStreamOrder`: the second DATA frame's byte is delivered before the first frame's, and the trailers before the body is complete |
| `recv_hang` | LayoutHDT, reordered | **violation** of `RecvReturns`: DATA bytes that arrive before the HEADERS frame is complete make the frame loop `continue` forever |
| `recv_lost_fin` | LayoutHDT, in order, lone fin allowed | **violation**: the end of the request is never signalled |
| `recv_overlap` | LayoutHDD, overlapping retransmits | **violation**: `(*next)->buf_len - overlap` wraps |

Each violation is explained in `PROJECT.json` `findings`. `recv_order`
breaks both halves of its property. Checked one at a time under the same
cfg, `BodyInOrder` and `TrailersAfterBody` are each violated:
- each DATA chunk goes to `on_data_recv_callback` as soon as its bytes are
  present (2123);
- only incomplete non-DATA frames set `block_frame_processing`, so trailers
  complete before an earlier DATA frame are dispatched (2132).

In order, all of these properties, `RecvReturns` included, held in earlier
checks of this module. The project keeps its runs to the questions they
settle under reordering, where the code and the spec part.

### Not modelled in `StreamRecv`

- The stream-4 and server-push-stream prefix paths (2060-2075).
- Control frame types.
- Allocation failure: the model has no memory bound.
- Header decoding and callbacks' return values. A callback returning an
  error ends the call early; the model takes every callback to return OK.

## 4. `TimerAdapter`: the timer adapter

### Abstraction

- **Actors.** Two actors share the engine thread:
  - nghq runs `_update_timers` after every packet ngtcp2 reads (`ReadPkt`,
    `nghq_session_recv` line 870; `nghq_session_send` line 1006 is the same
    step);
  - the host's event loop advances its clock (`Tick`) and fires a due timer
    between engine calls (`HostFire`).
- **ngtcp2.** ngtcp2 is the environment. A packet may move either expiry
  to any time or to "never" (`NEVER`, standing for `UINT64_MAX`). A timeout
  handler (`on_loss_detection_timer`, or `write_pkt` for the ACK) leaves the
  expiry of its kind in the future or at "never". The packet `write_pkt`
  writes may also move the loss expiry anywhere, as every packet written
  does. The ACK packet written by
  `_conn_ack_timeout` is followed into the send pipeline by `SessionRecv`
  (section 8).
- **Host timers.** `host` is the sequence of every timer `set_timer` has
  returned, with its kind, deadline and whether it is armed. A `void *`
  handle is an index into it, and `NULL` is 0.
- **Single-threaded steps.** `_update_timers` takes one step per
  `_adjust_timer` call (`pc`). The host acts only while `pc = "idle"`.

### Correspondence

| Definition | Code |
|---|---|
| `Timeout(k)`, `TimeoutTransport(k)` | `_conn_loss_timeout`, `_conn_ack_timeout` (66-90) |
| `FromNow` | `from_now` (114) |
| `ReadPkt`, `NextPc` | the packet loop of `nghq_session_recv` and `_update_timers` (128-142) |
| `AdjustSame` | `trigger_time == *tstamp` |
| `AdjustCancel` | the `UINT64_MAX` branch (95-102) |
| `AdjustInline` | the `trigger_time <= now` branch (105-112) |
| `AdjustReset`, `AdjustSet` | `reset_timer_callback`, `set_timer_callback` (113-121) |
| `AdjustSetFired` | `set_timer_callback` when the host fires the callback before returning (allowed by spec 5; `ImmediateFire`) |

### Bounds

`TimerAdapter`'s own `Spec` (with `ReadPkt` as the packet step) is not run
by itself: both runs check `SessionRecv`'s `SessionSpec`, in which the
packets are those `nghq_session_recv` reads and processes, the packet
`nghq_session_send` writes and the ACK-timeout packets. The bounds are
`MaxTime = 2` (clock 0..2), `MaxCalls = 1` host packet read or written and
`MaxSent = 2` packets written. Every processed fake ACK moves the expiries
too, so a run has up to 4 packet steps, and each may set both expiries to
any of the 4 values. `MaxTime = 2` is the least clock at which
`reset_timer` is reached (an armed timer whose expiry moves to another
future time). With `MaxCalls = 2` the same three invariants were checked
once, with no violation, over 24 million states in 3 minutes, before
packet numbers were added: too slow for the routine run. The orphan-timer
traces need: arm a timer, move the expiry into the past, re-arm.
`PnBase = 255` makes the two packets written 255 and 256, across the
wrap of the low byte (section 8).

### Properties and runs

| Run | Setting | Result |
|---|---|---|
| `timer_bookkeeping` | host may fire inside `set_timer` | `SessionTypeOK`, `FakeAcksInSendOrder` (section 8) and `HeldTimerMatchesTstamp` hold. An armed timer nghq holds always has the recorded `tstamp` as its deadline when the engine is idle, which is what makes the early return on `trigger_time == *tstamp` sound. |
| `timer_spurious` | host fires only due timers | **violation** of `TimeoutNotEarly`, two ways. (1) The inline timeout clears the handle before the code tests it, so the armed host timer is never cancelled; it later fires and runs ngtcp2's handler when nothing is due. (2) The ACK timeout's `write_pkt` moves the loss expiry and no `_update_timers` follows, so the held loss timer fires at its old deadline. |

The held timer does not always match ngtcp2's *current* expiry. With the
ACK timeout's write moving the loss expiry, TLC finds a held loss timer
armed for a deadline the expiry has left. (2) was confirmed separately, in
a copy of the model where `AdjustInline` cancels the held timer as spec 4.6
asks: `TimeoutNotEarly` is still violated there, through the stale loss
timer alone.

With `ImmediateFire = TRUE`, `AdjustSetFired` stores the handle of a timer
that has already fired, against spec 5 ("detected by the adapter, which then
clears the handle"). What the host's `reset_timer`/`cancel_timer` do with
such a handle is up to the host's timer implementation, outside this
source, so no property states it and it is not listed as a hazard.

### Not modelled, and no liveness

After a timeout, nghq does not re-read the expiries. The new expiry set by
ngtcp2's handler gets a timer only at the next `nghq_session_recv` or
`nghq_session_send`. Its early side is checked: `timer_spurious` (2).
Nothing in the code makes the host call those again, so "every expiry is
eventually served" would need a fairness assumption that the code does not
justify. No liveness property is stated.

## 5. `Requests`: request API, send pipeline, session close

### Abstraction

- **Actors.** The host calls the API (`SubmitRequest`, `FeedHeaders`,
  `FeedPayload`, `EndRequest`, `SendStart`, `SessionClose`, `SessionFree`)
  in any order. ngtcp2 is the environment:
  - it hands out stream ids in order (`BidiIds`);
  - in `SendPacket` it takes any prefix (`sent`) of the units
    `nghq_session_send` packs into one `ngtcp2_conn_write_stream` call.
    The prefix may be empty, for a packet filled by other frames;
  - it closes a request stream at any time (`StreamClose`: peer reset, or
    both directions done).
  The host's send callback takes, blocks or fails (`FlushOutcomes`).
- **Data.** A send buffer is its length in units and its `complete` flag.
  A HEADERS frame is `HdrLen` units, a DATA frame one of `DataLens`.
  `PackLimit` stands for `max_packet_size - MIN_STREAM_PACKET_OVERHEAD`.
  `wire[s]` is what ngtcp2 has accepted on stream `s`, and `queued[s]` is
  the history of units ever queued there.
- **The send loop.** `nghq_session_send` runs on the engine thread. Its loop
  over streams is one step per packet (`SendPacket`) with `pc = "send"` and
  the cursor `it`. `SendStop` is every exit of the loop that writes nothing:
  bytes in flight at the limit, no data left, or a 0 or error from
  `ngtcp2_conn_write_stream`.
- **Stream map.** `transfers` is a function from stream id to stream. The
  map's operations live in `map.c`, outside this source tree, and are
  modelled from `spec.md`:
  - an add of an existing id replaces the entry;
  - iteration is in key order;
  - search is by user data.
  ngtcp2's stream-close callback (`nghq_transport_stream_close`, also
  outside `src/lib/nghq.c`) is taken to end in `nghq_stream_close`.
- **Undefined behaviour.** `ub = "null_stream0"` records the NULL
  dereference at line 904, and exploration stops there.

### Correspondence

| Definition | Code |
|---|---|
| `SubmitRequest` | `nghq_submit_request` (1129-1180); with a body it ends in `nghq_feed_payload_data(..., 0, ...)` |
| `FeedHeaders`, `HeadersAccepted`, `HeadersState` | the request branch of `nghq_feed_headers` (1352-1390) |
| `FeedPayload`, `PayloadAccepted` | `nghq_feed_payload_data` (1392-1428) |
| `EndRequest` | `nghq_end_request` on a request: `nghq_stream_cancel` (2276-2283) |
| `SendStart` | entry of `nghq_session_send`: flush, then `stream 0` lookup (885-905) |
| `SendPacket`, `PackedLen`, `PackedFin`, `Drained`, `AfterWrite`, `LastDataAfter` | one iteration of the stream loop: packing (931-950), the write, popping and `last_data` (974-994), the packet and `on_request_close` (995-1021) |
| `Flushed` | `nghq_write_send_buffer` (2227-2268) |
| `StreamClose` | `nghq_stream_close` and `nghq_stream_ended` (2288-2378) |
| `SessionClose`, `ClosedAtSessionClose` | the unicast branch of `nghq_session_close` (719-790). When `ngtcp2_conn_write_connection_close` fails (771-784), the error is returned after the streams were closed and nothing is queued. The five error codes are one outcome, since the model does not tell them apart. |
| `SessionFree` | `nghq_session_free` (792-813) |

### Bounds

The settings are:
- two requests (`Users = {u1, u2}`) on streams 0, 4 and 8;
- DATA frames of 1 or 2 units;
- a packing limit of 3 units;
- at most 7 calls and packets (`MaxOps`);
- `SubmitFinal = TRUE`: the host may pass final to `nghq_submit_request`.

With these settings:
- a packet packs several buffers, or stops in the middle of one;
- a partly sent buffer can have buffers packed after it. A 2-unit DATA
  frame followed by a 1-unit one with the fin is packed together, and
  ngtcp2 takes 1 unit, so the OR-ed `last_data` is stored on the partly
  sent first buffer (line 981). The next packet packs the rest of that
  buffer and the fin buffer again: the packing loop only adds buffers
  while the total is below the limit, and the total has shrunk. So the
  fin still goes out with the last unit. With a limit of 2 this case
  cannot arise: a 2-unit buffer is never packed with another, and a
  1-unit one is either sent whole or not at all;
- a request can take both stream 0 and stream 4, which are the streams that
  `nghq_session_close` treats specially;
- every violation has a trace of at most 5 steps.

The two users are interchangeable, so the pass run uses symmetry over
`Users`. It explores 2.4 million distinct states in under 2 minutes.

`FeedAfterFinal` stays `FALSE`: with it, `FinAfterAllData` is violated
(hazard at line 1416). The passing run therefore shows what holds for a
host that does not feed a request it has ended. `SubmitFinal = TRUE`
reaches two paths the code mishandles, which no property checks:
- a final given with a body is not passed on (line 1170), so no fin is
  ever queued for that request (host value `submit_final`);
- a final given with no body frees the stream, with its HEADERS, before
  anything is sent (line 1174).

`FinalHonoured` is therefore stated for finals given to `nghq_feed_*`.

### Properties and runs

| Run | Property | Result |
|---|---|---|
| `requests` | `TypeOK`, `FinAfterAllData`, `FinalHonoured`, `SendStateMonotone`, `StreamsRefined` | hold. The fin never reaches ngtcp2 before the last queued unit, even when a partial write moves the OR-ed `last_data` onto a partly sent buffer with buffers packed after it. A request ended with final through `nghq_feed_*` keeps its fin. `send_state` never decreases. `Requests` implements `RequestStreams`. |
| `requests_close_twice` | `CloseAtMostOnce` | **violation**: a write that ends exactly at a buffer boundary before the fin (or carries none of the stream's data) leaves `last_data` set, so `on_request_close` runs and the stream is DONE while its fin is still queued. The stream stays in the loop and the next packet closes the request again. `nghq_stream_close` would close it a third time. |
| `requests_stream0` | `NoUndefinedBehaviour` | **violation**: `nghq_session_close` walks the streams after stream 4, or all of them when there is no stream 4. It closes stream 0, and the CONNECTION_CLOSE packet it queues can only be sent by `nghq_session_send`, which dereferences the missing stream 0. When stream 4 exists, the walk instead skips the requests on streams 0 and 4, and `nghq_session_free` later ends them without `on_request_close` (hazard at line 726). |

### Refinement: `RequestStreams`

`RequestStreams` states what ngtcp2 is promised on each stream, without
nghq's buffers. It has three variables per stream: `queued`, `sent` and
`fin`. It has three actions:
- `Enqueue` adds bytes to a stream whose fin has not been handed over;
- `Transmit` hands over more of the queued bytes, never more than were
  queued;
- `Finish` hands over the rest together with the fin, once.

`Requests` instantiates it with `queued <- queued`,
`sent <- [s |-> wire[s].sent]` and `fin <- [s |-> wire[s].fin]`. The
`requests` run checks `StreamsRefined == Streams!Spec` as a property. Every
`Requests` step is then either one abstract step or a stutter:
- `SubmitRequest` and the feed calls are `Enqueue`;
- a `SendPacket` that writes data is `Transmit` or `Finish`;
- everything else is a stutter.

The refinement covers more than `FinAfterAllData`:
- data is never resent or sent beyond the end;
- nothing is queued after a fin has gone out.

A missing pop after a write (the mutant `AfterWriteNoPop`) breaks it.

### Liveness

No liveness is stated. A stream blocked in ngtcp2 starves every higher
stream (line 968), but whether it is ever unblocked and retried depends on
ngtcp2 and on the host calling `nghq_session_send`. The code guarantees
neither.

### Not modelled in `Requests`

- Server push and the multicast server's `session_close`: see `Push`.
- The multicast server's fake ACK.
- Allocation failure.
- Callbacks' return values.

## 6. `Push`: server push on a multicast server

### Abstraction

The model is one multicast server session. `transfers` starts with the
server's own streams:
- stream 0, the faked initial request, on which every PUSH_PROMISE is
  queued (lines 194-196);
- control stream 3 (lines 693-702).

The module has these variables:
- `promises` maps a push id to the promised user data;
- `nextPush` is `next_push_promise`;
- `nextUni` is ngtcp2's next unidirectional stream id, out of `UniIds`;
- `shut` holds the streams `nghq_stream_cancel` asked ngtcp2 to shut down;
- `out` is a history of the frames ngtcp2 accepted, with their streams.

A frame is a record of its type, its push id (the PUSH_PROMISE, the
push-id prefix of a push stream's first HEADERS, or a CANCEL_PUSH) and its
fin. `nghq_session_send` is taken one whole frame at a time. Packing and
partial writes are `Requests`' subject, and they cannot reorder streams.

### Correspondence

| Action | Code |
|---|---|
| `SubmitPushPromise(u)` | `nghq_submit_push_promise` (1182-1264): `PUSH_LIMIT_REACHED` at `max_push_promise`, next push id, promise added, PUSH_PROMISE queued on stream 0 |
| `OpenPush(u, final)` | promise branch of `nghq_feed_headers` (1311-1351, 1387): `TOO_MANY_REQUESTS` at `max_open_server_pushes`, new uni stream in HDRS with a HEADERS frame prefixed by the push id, promise moved to `transfers`. If `create_headers_frame` fails (1342-1345), the error is returned after ngtcp2 gave out the stream id. The promise then stays in `promises` and nothing is queued. |
| `FeedPayload(u, final)` | `nghq_feed_payload_data` (1392-1428) |
| `EndStream(u)` / `CancelPush(u)` | the two branches of `nghq_end_request` (1430-1454): `nghq_stream_cancel`, or CANCEL_PUSH queued on stream 3 with the promise left in place |
| `Send` | one frame of `nghq_session_send` (905-1021): the lowest stream with data, unless it is shut, in which case the loop ends |
| `StreamClose(s)` | `nghq_stream_close` from ngtcp2, for a push stream whose fin was written or that was shut |
| `SessionClose` | `nghq_session_close`, multicast server branch (719-763) |

The host never reuses a user data that is still a stream or a promise
(`Fresh`). It never feeds a stream it has ended with final
(`Unfinished`).

### Bounds

`Push.cfg` (through `MCPush`, which adds the client of section 7) uses:
- two users, with symmetry;
- push streams 7 and 11;
- `max_push_promise = 3` on both sides;
- one open push stream at a time;
- at most 12 server calls or frames (the client's steps are not counted;
  they are bounded by the frames written).

With these bounds:
- `TOO_MANY_REQUESTS` is returned while a push is open;
- a third promise needs a user data whose push has been closed, and a
  fourth is refused at the limit (TLC reaches `nextPush = 3`);
- a shut push stream blocks the walk until ngtcp2 closes it;
- a promise can be cancelled before or after the client has read it.

The run explores 378,000 distinct states in about 10 seconds. Deadlock is not
checked: a run stops when the call bound is reached, after `SessionClose`,
or when the client has read every frame.

### Runs

| Run | Property | Result |
|---|---|---|
| `push` | the properties of section 7 | hold |
| `push_close_crash` | `NoUndefinedBehaviour` | **violation**: a multicast server has no stream 4, so the walk of `nghq_session_close` closes every stream, stream 0 included. The goaway promise is then never submitted, and line 761 calls `nghq_stream_close` on the NULL stream 0. |

### Not modelled in `Push`

- Feeding HEADERS again on an open push stream. That is the request branch
  of `feed_headers`, which `Requests` models.
- The goaway push of `session_close`, which is unreachable on a server.
- CANCEL_PUSH leaves the promise in place, so a cancelled push can still be
  opened. This is listed as a hazard. Neither the spec nor the code says
  what a server may do after CANCEL_PUSH.

## 7. `MulticastPush`: a multicast server and its client

### Abstraction

`MulticastPush` extends `Push` with a multicast client that reads the
frames the server wrote (`out`). Its variables:
- `cpromises` is the client's `session->promises`, as a set of push ids;
- `seen` holds the indices of `out` the client's frame loop has dispatched;
- `app` is a history of the callbacks the client's application received.

`SessionNext` is either a server step (`Next`, client unchanged) or
`ClientRecv(i)`: the client dispatches one complete frame. Each stream's
bytes are put together by the reassembler (`StreamRecv`), so a stream's
frames reach the dispatch in order. Across streams QUIC promises no order
(spec 5). The constant `CrossStreamReorder` chooses between the two: with
FALSE the client reads frames in the order the server wrote them, as on a
network that neither loses nor reorders packets.

### Correspondence

| Definition | Code |
|---|---|
| `Readable(i)` | the frame loop of `nghq_recv_stream_data` (2132-2179): frames of one stream in order |
| `Consumed` | `*pf = frame->next; _frame_free (frame)` (2167-2168) |
| `ClientRecv(i)`, promise | `_nghq_stream_push_promise_frame` (1724-1798): `push_id > max_push_promise` is malformed (1743); otherwise the promise is added and `on_begin_promise` runs |
| `ClientRecv(i)`, cancel | `_nghq_stream_cancel_push_frame` (1672-1682): the push id is removed, no callback |
| `ClientRecv(i)`, headers/data | the push stream's prefix is skipped (2059-2075), then `on_headers`/`on_data_recv` |
| `SessionInit` | `_nghq_session_new_common` (185-197): an empty promises table |

### Properties

- `ClientToldOnce`: the application's `on_begin_promise` runs at most once
  per push id.
- `ClientPromiseFirst`: spec 8.4 scenario 5, `on_begin_promise` for a push
  id comes before the `on_headers` of its push stream.
- `PromiseFulfilledOnce` (server): a promise is fulfilled by at most one
  push stream, and it leaves `promises` when it is.

All hold in `push`. The mutants are:
- a limit reached only past `max_push_promise` (`SessionTypeOK`);
- the promise kept after its stream opens (`PromiseFulfilledOnce`);
- a dispatched frame left in the frame list (`ClientToldOnce`);
- a send walk that may serve any stream first (`ClientPromiseFirst`).

TLC finds the matching property violated for each.

### Across streams

With `CrossStreamReorder = TRUE` (no kept run), TLC finds two
violations within a few hundred states:
- `ClientPromiseFirst`: the push stream's HEADERS arrive before stream 0's
  PUSH_PROMISE. The client skips the push-id prefix (2060-2075) without
  looking for the promise, so `on_headers` runs for a push the application
  was never told of.
- the CANCEL_PUSH on stream 3 is read before the PUSH_PROMISE. The removal
  at line 1679 finds nothing, the later promise is added and announced,
  and `on_push_cancel` is never called anywhere. The check here was that a
  cancelled push id is gone from the client's promises. In order it only
  restates the removal at line 1679, so the `push` run does not check it.

`ClientToldOnce` and `PromiseFulfilledOnce` still hold (923,000 states).
Both are listed as hazards (lines 2060 and 1679).

### Not modelled in `MulticastPush`

- The client never links a push stream to its promise, nor removes the
  promise when the push arrives; the model keeps this (no property claims
  otherwise).
- The goaway detection in the promise handler (1747-1758) is not
  reached with an nghq server, because the server crashes before it sends
  the goaway promise. Another server may send it. The client then runs
  `nghq_session_close` inside the handler, which frees stream 0 while its
  frame is still being dispatched (a hazard, line 1751).
- `_nghq_stream_max_push_id_frame` is only reached on control stream 2,
  which no multicast session has. PRIORITY, SETTINGS and GOAWAY handlers
  are stubs that change nothing.

## 8. `SessionRecv`: the receive loop, the packets written and fake ACKs

### Abstraction

- **One queue, two producers.** `session->recv_buf` (`queue`) is filled
  by the read loop of `nghq_session_recv` (peer packets) and, on a
  multicast server, by `nghq_write_send_buffer`, which queues a fake ACK
  (`nghq_mcast_fake_ack`) for each short-header packet it pops. The
  process loop hands the head to `ngtcp2_conn_read_pkt`. The ACK timeout
  can run inline inside `_update_timers` of that loop, write a packet and
  queue its fake ACK behind the packets still waiting.
- **Steps.** `nghq_session_recv` is split where control leaves nghq:
  `RecvCall`, one step per callback result (`RecvPacket`, `RecvEnd`,
  `RecvFail`), one per packet processed (`ReadPktOk`, `ReadPktFail`),
  the timer adapter's `Adjust` steps, then `AfterUpdate` (the draining
  check) and `RecvReturn`. `SendPkt` is the packet step of
  `nghq_session_send` (1001-1008): the packet is pushed, `_update_timers`
  runs, then `nghq_write_send_buffer` sends it. The host's clock and
  timers act only while `rcv = "idle"` and `pc = "idle"`.
- **ngtcp2.** Every packet read or written may move both expiries
  (`PktMovesExpiry`). A peer packet may start the draining period.
  `ngtcp2_conn_read_pkt` may fail.
- **Data.** A packet is its origin (`peer` or `fake`) and a number. For a
  peer packet the number only names it; a fake ACK's number is the largest
  acknowledged. `sent` and `handed` are history variables: the packets
  written and the packets handed to ngtcp2, in order. A written packet is
  `long` (before the handshake), `short` (with its packet number), or
  `empty`.
- **Packet numbers.** ngtcp2 numbers short-header packets consecutively
  from `PnBase` and puts the low 1 or 2 bytes on the wire (`Truncated`,
  either width). `FakeAck` rebuilds the number with `CalcPktNumber` from
  `last_remote_pkt_num` and stores it back, as `_calc_pkt_number` does.
  `SessionInit` with `PnBase = 0` is the state `_nghq_session_new_common`
  leaves (line 206). With `PnBase = 255` it is the state after 255 packets
  were sent and acknowledged (`last_remote_pkt_num = 254`), so the run
  crosses the wrap of the low byte at 256. That is the case where
  `mask + 1` must be added.
- **Host send.** The host's `send_callback` takes each packet whole.
  Before the handshake `nghq_write_send_buffer` pops packets without
  sending them, and their long headers give no fake ACK.
- **The ACK timeout's packet.** When `ngtcp2_conn_write_pkt` has nothing to
  write it returns 0, and `_conn_ack_timeout` still pushes the buffer.
  `nghq_write_send_buffer` then gives the host an empty packet
  (`empty`). Decoding an empty packet fails, so it gets no fake ACK.

### Correspondence

| Definition | Code |
|---|---|
| `RecvCall` | entry of `nghq_session_recv` (817-820) |
| `RecvPacket` | a positive `recv_callback` result queued (821-849) |
| `RecvEnd` | result 0, or the `malloc` failure `OUT_OF_MEMORY` (825-846) |
| `RecvFail` | a negative result: `SESSION_CLOSED` on `NGHQ_EOF`, else `ERROR` (836-842) |
| `ReadPktOk`, `Pop`, `PktMovesExpiry`, `UpdateTimers` | `ngtcp2_conn_read_pkt`, the unlink, `_update_timers` (852-870, 128-133) |
| `ReadPktFail` | the error return without `_update_timers` (862-868) |
| `AfterUpdate`, `RecvReturn` | `rv = NGHQ_OK`, the draining check, `return rv` (870-879) |
| `SendPkt` | `nghq_session_send` 1001-1008 |
| `WriteSendBuffer`, `FakeAck` | `nghq_write_send_buffer` (2227-2265), `nghq_mcast_fake_ack` (2427-2481) |
| `Truncated` | the packet number `ngtcp2_pkt_decode_hd_short` reads (2249-2254) |
| `PktNumMask`, `CalcPktNumber` | `_pkt_num_mask` (2384-2388), `_calc_pkt_number` (2390-2399) |
| `AckTimeoutWrite` | the `ngtcp2_conn_write_pkt` and `nghq_write_send_buffer` of `_conn_ack_timeout` (66-81) |

### Property

`FakeAcksInSendOrder`: on a multicast server, the fake ACKs handed to
ngtcp2, followed by those still queued, acknowledge exactly the
short-header packets written, in the order written and each with its own
packet number. Breaking it takes several actors, e.g. a send, an inline
ACK timeout inside the process loop and a failing read, or a packet number
that crosses a window. Its mutant drops the carry into the next window
(`CalcPktNumberNoCarry`): the ACK of packet 256 then acknowledges 0. The
mutant that leaves the processed packet linked (`PopKept`) also breaks it.

### Not modelled in `SessionRecv`

- The bytes of the fake ACK. Packet numbers further apart than
  consecutive: only lost fake ACKs could produce them (see plan item 6).
- Allocation failures in `nghq_mcast_fake_ack` and `_conn_ack_timeout`.
  The latter's mallocs are unchecked, and a negative `write_pkt` result
  becomes a huge `size_t` length; line 74 is listed as a hazard.
- No property is stated about the empty packet the ACK timeout sends: the
  spec does not say what `send_callback` may be given.
- A host `send_callback` that blocks or fails. The send pipeline's
  outcomes are modelled in `Requests`.
- An `ngtcp2_conn_read_pkt` that fails after moving an expiry. Whether it
  does is ngtcp2's behaviour; the early return skips `_update_timers`,
  which is listed as a hazard.

## 9. Not modelled

- **Session construction** (`nghq_session_client_new`, `server_new`,
  `_nghq_start_session`). This is straight-line code that builds fake
  handshake packets byte by byte and feeds them to ngtcp2. It sets
  nghq's state once and never interleaves with anything. Its one
  control hazard: a NULL session from a failed allocation is passed to
  `_nghq_start_session` (line 268), which dereferences it. That would
  need an allocation-failure model for one line. It is listed as a
  hazard.
- **Transport parameters, ALPN, session-id conversion.** These functions
  parse and format bytes with no session state. Their hazards are both
  byte-indexing errors, which a unit test with a crafted buffer reaches
  directly and a model abstracting bytes cannot show:
  - `nghq_select_alpn` reads past the buffer (line 2554);
  - `nghq_convert_session_id_string` has a `uint8_t` length that wraps
    (line 2601).
- **Frame codec, header compression, stream map, io_buf list.** These
  live in files outside `src/lib/nghq.c`. They are used through their
  specified behaviour.
