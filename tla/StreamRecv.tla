----------------------------- MODULE StreamRecv -----------------------------
(***************************************************************************)
(* The receive side of one nghq request stream: nghq_recv_stream_data()    *)
(* and its helpers in src/lib/nghq.c.                                      *)
(*                                                                         *)
(* QUIC hands the stream to nghq as (offset, length, fin) segments, in any *)
(* order (ngtcp2 runs with NGTCP2_SETTINGS_FLAG_UNORDERED_DATA).  nghq     *)
(* keeps them in the sorted list recv_buf (stage 1), cuts HTTP/QUIC frames *)
(* out of it from next_recv_offset (stage 2), fills the frames under       *)
(* assembly and their gap lists from the buffers (stage 3) and hands DATA  *)
(* bytes and complete HEADERS frames to the application (stage 4).         *)
(*                                                                         *)
(* The bytes of the stream are abstracted to their identity: a byte is     *)
(* the stream offset it was sent at, so a buffer's content is the sequence *)
(* of offsets it holds and corruption shows as a wrong offset.  The stream *)
(* itself is the constant Layout of frames.                                *)
(*                                                                         *)
(* nghq_recv_stream_data() runs to completion on the engine thread; its    *)
(* two loops are modelled one iteration per step (pc) so that an          *)
(* iteration that never ends is visible.  No other action is enabled      *)
(* while pc # "idle".                                                      *)
(***************************************************************************)
EXTENDS Naturals, Sequences, SequencesExt, FiniteSets

CONSTANTS
    Layout,     \* the frames of the stream: <<[type, hlen, plen], ...>>
    Delivery,   \* what QUIC may hand over: "inorder", "reorder", "overlap"
    FinAlone,   \* may the fin arrive as a zero-length segment of its own?
    MaxSegs     \* bound on the number of segments QUIC delivers

FrameTypes == {"HEADERS", "DATA"}

ASSUME /\ Layout \in Seq([type : FrameTypes, hlen : 1..2, plen : 0..3])
       /\ Len(Layout) >= 1
       /\ Delivery \in {"inorder", "reorder", "overlap"}
       /\ FinAlone \in BOOLEAN
       /\ MaxSegs \in Nat \ {0}

(***************************************************************************)
(* The stream as sent.                                                     *)
(***************************************************************************)
RECURSIVE SizeBefore(_)
SizeBefore(i) == IF i <= 1 THEN 0
                 ELSE SizeBefore(i - 1) + Layout[i-1].hlen + Layout[i-1].plen

FrameStart(i) == SizeBefore(i)
FrameSize(i)  == Layout[i].hlen + Layout[i].plen
StreamLen     == SizeBefore(Len(Layout) + 1)
StreamBytes   == 0 .. StreamLen - 1

\* The frame of the layout byte s belongs to.
FrameOf(s) == CHOOSE i \in 1..Len(Layout) :
                FrameStart(i) <= s /\ s < FrameStart(i) + FrameSize(i)

\* s is a payload byte of a DATA frame, and its offset in the HTTP body.
IsBody(s) == LET i == FrameOf(s) IN
             Layout[i].type = "DATA" /\ s >= FrameStart(i) + Layout[i].hlen
BodyBefore(i) == LET RECURSIVE B(_)
                     B(j) == IF j >= i THEN 0
                             ELSE (IF Layout[j].type = "DATA" THEN Layout[j].plen
                                                           ELSE 0) + B(j + 1)
                 IN B(1)
BodyOffset(s) == LET i == FrameOf(s) IN
                 BodyBefore(i) + s - FrameStart(i) - Layout[i].hlen
BodyBytes == {s \in StreamBytes : IsBody(s)}
HeaderFrames == {i \in 1..Len(Layout) : Layout[i].type = "HEADERS"}

\* The stream bytes [o, o + n) as buffer content.
Bytes(o, n) == [k \in 1..n |-> o + k - 1]

(***************************************************************************)
(* Recv states of the stream (enum order matters: the code compares them). *)
(***************************************************************************)
OPEN == 0
HDRS == 1
BODY == 2
TRAILERS == 3
DONE == 4

\* Undefined behaviour the C code can reach; exploration stops there.
UBKinds == {"none", "size_underflow", "shared_storage", "copy_out_of_frame",
            "garbage_frame_header"}

VARIABLES
    recvBuf,      \* stream->recv_buf: <<[off, data, pos, rem, fin], ...>>
    frames,       \* stream->active_frames: <<[type, off, len, gaps,
                  \*   content, complete, ehdr, adj], ...>>
    nextOff,      \* stream->next_recv_offset
    dataTotal,    \* stream->data_frames_total
    recvState,    \* stream->recv_state
    pc,           \* where nghq_recv_stream_data() is
    pb, pf,       \* the loop cursors (index of the link **pb / **pf)
    curOff,       \* local off of the populate loop
    curLen,       \* local datalen of the populate loop
    modified,     \* local data_modified
    blocked,      \* local block_frame_processing
    fdata,        \* local frame_data: [off, data, fin]
    ub,           \* undefined behaviour reached, or "none"
    received,     \* history: stream bytes QUIC has handed over
    finSeen,      \* history: a segment carried the fin bit
    nsegs,        \* history: number of segments handed over
    bodyOut,      \* history: on_data_recv_callback calls [boff, ids, end]
    hdrsOut       \* history: headers delivered [frame, ids, trailers, fin]

vars == <<recvBuf, frames, nextOff, dataTotal, recvState, pc, pb, pf, curOff,
          curLen, modified, blocked, fdata, ub, received, finSeen, nsegs,
          bodyOut, hdrsOut>>

NoByte == -1   \* a byte of a frame buffer nothing was copied into yet
NoView == [off |-> -1, data |-> <<>>, fin |-> FALSE]

BufEnd(b) == b.off + Len(b.data)          \* offset + buf_len

\* nghq_io_buf_new(): a fresh buffer, nothing consumed.
IoBuf(o, d, fin) == [off |-> o, data |-> d, pos |-> 0, rem |-> Len(d), fin |-> fin]

\* Mutation: buf_len and remaining swapped in the offset update.
TrimAndAppendSwapped(b, d) ==
    IF b.pos = 0
    THEN [b EXCEPT !.data = @ \o d, !.rem = Len(b.data) + Len(d)]
    ELSE [b EXCEPT !.off  = b.off + b.rem - Len(b.data),
                   !.data = SubSeq(b.data, b.pos + 1, b.pos + b.rem) \o d,
                   !.pos  = 0,
                   !.rem  = b.rem + Len(d)]

\* Mutation: the consumed prefix is dropped but the offset is not moved.
TrimAndAppendKeepOff(b, d) ==
    IF b.pos = 0
    THEN [b EXCEPT !.data = @ \o d, !.rem = Len(b.data) + Len(d)]
    ELSE [b EXCEPT !.data = SubSeq(b.data, b.pos + 1, b.pos + b.rem) \o d,
                   !.pos  = 0,
                   !.rem  = b.rem + Len(d)]

(***************************************************************************)
(* _trim_and_append(): append d; if part of the buffer was consumed, drop  *)
(* the consumed prefix first and move the offset past it.                  *)
(***************************************************************************)
TrimAndAppend(b, d) ==
    IF b.pos = 0
    THEN [b EXCEPT !.data = @ \o d, !.rem = Len(b.data) + Len(d)]
    ELSE [b EXCEPT !.off  = b.off + Len(b.data) - b.rem,
                   !.data = SubSeq(b.data, b.pos + 1, b.pos + b.rem) \o d,
                   !.pos  = 0,
                   !.rem  = b.rem + Len(d)]

\* The tail of _nghq_insert_recv_stream_data(): merge *pbuf (index i) with
\* the next buffer if they overlap or touch.
MergeNext(bufs, i) ==
    IF i < Len(bufs) /\ bufs[i+1].off <= BufEnd(bufs[i])
    THEN LET nx == bufs[i+1]
             overlap == BufEnd(bufs[i]) - nx.off
         IN IF overlap > Len(nx.data)
            THEN [bufs |-> bufs, ub |-> "size_underflow"]
            ELSE LET b == TrimAndAppend(bufs[i],
                                        SubSeq(nx.data, overlap + 1, Len(nx.data)))
                 IN [bufs |-> RemoveAt([bufs EXCEPT ![i] = [b EXCEPT !.fin = @ \/ nx.fin]],
                                       i + 1),
                     ub |-> "none"]
    ELSE [bufs |-> bufs, ub |-> "none"]

\* Mutation: a buffer ending exactly at o is not taken as the one to extend.
InsertRecvStrictEnd(bufs, o, n, eos) ==
    LET j == SelectInSeq(bufs, LAMBDA b : BufEnd(b) > o)
        i == IF j = 0 THEN Len(bufs) + 1 ELSE j
    IN IF j = 0 \/ bufs[i].off > o
       THEN MergeNext(InsertAt(bufs, i, IoBuf(o, Bytes(o, n), eos)), i)
       ELSE LET eo == BufEnd(bufs[i]) - o
            IN IF eo >= n
               THEN [bufs |-> bufs, ub |-> "none"]
               ELSE LET b == TrimAndAppend(bufs[i], Bytes(o + eo, n - eo))
                    IN MergeNext([bufs EXCEPT ![i] = [b EXCEPT !.fin = @ \/ eos]], i)

\* Mutation: extending a buffer does not carry the segment's fin over.
InsertRecvDropFin(bufs, o, n, eos) ==
    LET j == SelectInSeq(bufs, LAMBDA b : BufEnd(b) >= o)
        i == IF j = 0 THEN Len(bufs) + 1 ELSE j
    IN IF j = 0 \/ bufs[i].off > o
       THEN MergeNext(InsertAt(bufs, i, IoBuf(o, Bytes(o, n), eos)), i)
       ELSE LET eo == BufEnd(bufs[i]) - o
            IN IF eo >= n
               THEN [bufs |-> bufs, ub |-> "none"]
               ELSE MergeNext([bufs EXCEPT ![i] = TrimAndAppend(bufs[i], Bytes(o + eo, n - eo))], i)

(***************************************************************************)
(* _nghq_insert_recv_stream_data(): place the segment [o, o + n) into the  *)
(* buffer list.                                                            *)
(***************************************************************************)
InsertRecv(bufs, o, n, eos) ==
    LET j == SelectInSeq(bufs, LAMBDA b : BufEnd(b) >= o)
        i == IF j = 0 THEN Len(bufs) + 1 ELSE j
    IN IF j = 0 \/ bufs[i].off > o
       THEN MergeNext(InsertAt(bufs, i, IoBuf(o, Bytes(o, n), eos)), i)
       ELSE LET eo == BufEnd(bufs[i]) - o        \* end_overlap
            IN IF eo >= n
               THEN [bufs |-> bufs, ub |-> "none"]
               ELSE LET b == TrimAndAppend(bufs[i], Bytes(o + eo, n - eo))
                    IN MergeNext([bufs EXCEPT ![i] = [b EXCEPT !.fin = @ \/ eos]], i)

(***************************************************************************)
(* _nghq_stream_recv_data_at() on a request stream: a view of the buffer   *)
(* holding stream offset o, from o to the buffer's end, consumed bytes     *)
(* included.  A miss leaves the caller's frame_data as it was.             *)
(***************************************************************************)
DataAt(bufs, o, old) ==
    LET i == SelectInSeq(bufs, LAMBDA b : b.off <= o /\ o < BufEnd(b))
    IN IF i = 0 THEN old
       ELSE [off  |-> o,
             data |-> SubSeq(bufs[i].data, o - bufs[i].off + 1, Len(bufs[i].data)),
             fin  |-> bufs[i].fin]

\* Mutation: the front case tests the offset against the buffer start,
\* forgetting what was consumed already.
PopDataIgnorePos(bufs, o, n) ==
    LET i == SelectInSeq(bufs, LAMBDA b : b.off <= o /\ o < BufEnd(b))
        b == bufs[i]
        rel == o - b.off
        DropEmpty(bs) ==
            IF bs[i].rem = 0
            THEN LET bs1 == RemoveAt(bs, i)
                 IN IF i <= Len(bs1) /\ bs1[i].rem = 0 THEN RemoveAt(bs1, i) ELSE bs1
            ELSE bs
    IN CASE i = 0 -> [bufs |-> bufs, ub |-> "none"]
         [] rel = 0 ->
              IF n > b.rem THEN [bufs |-> bufs, ub |-> "size_underflow"]
              ELSE [bufs |-> DropEmpty([bufs EXCEPT ![i].pos = @ + n, ![i].rem = @ - n]),
                    ub |-> "none"]
         [] b.pos + b.rem = rel + n ->
              [bufs |-> DropEmpty([bufs EXCEPT ![i].rem = @ - n]), ub |-> "none"]
         [] OTHER -> [bufs |-> bufs, ub |-> "shared_storage"]

\* Mutation: the front case lowers remaining but leaves send_pos behind.
PopDataNoAdvance(bufs, o, n) ==
    LET i == SelectInSeq(bufs, LAMBDA b : b.off <= o /\ o < BufEnd(b))
        b == bufs[i]
        rel == o - b.off
        DropEmpty(bs) ==
            IF bs[i].rem = 0
            THEN LET bs1 == RemoveAt(bs, i)
                 IN IF i <= Len(bs1) /\ bs1[i].rem = 0 THEN RemoveAt(bs1, i) ELSE bs1
            ELSE bs
    IN CASE i = 0 -> [bufs |-> bufs, ub |-> "none"]
         [] b.pos = rel ->
              IF n > b.rem THEN [bufs |-> bufs, ub |-> "size_underflow"]
              ELSE [bufs |-> DropEmpty([bufs EXCEPT ![i].rem = @ - n]), ub |-> "none"]
         [] b.pos + b.rem = rel + n ->
              [bufs |-> DropEmpty([bufs EXCEPT ![i].rem = @ - n]), ub |-> "none"]
         [] OTHER -> [bufs |-> bufs, ub |-> "shared_storage"]

(***************************************************************************)
(* _nghq_stream_recv_pop_data(): mark [o, o + n) of the buffer holding o   *)
(* consumed, at its front, at its back, or by splitting it; free it once   *)
(* nothing remains.  The split makes the new buffer point into the old     *)
(* one's storage (tmp->buf = send_pos or buf + ...), which a later pop or  *)
(* nghq_io_buf_clear() frees a second time: it is undefined behaviour.     *)
(***************************************************************************)
PopData(bufs, o, n) ==
    LET i == SelectInSeq(bufs, LAMBDA b : b.off <= o /\ o < BufEnd(b))
        b == bufs[i]
        rel == o - b.off
        DropEmpty(bs) ==                \* the pop and the check after the loop
            IF bs[i].rem = 0
            THEN LET bs1 == RemoveAt(bs, i)
                 IN IF i <= Len(bs1) /\ bs1[i].rem = 0 THEN RemoveAt(bs1, i) ELSE bs1
            ELSE bs
    IN CASE i = 0 -> [bufs |-> bufs, ub |-> "none"]
         [] b.pos = rel ->
              IF n > b.rem THEN [bufs |-> bufs, ub |-> "size_underflow"]
              ELSE [bufs |-> DropEmpty([bufs EXCEPT ![i].pos = @ + n, ![i].rem = @ - n]),
                    ub |-> "none"]
         [] b.pos + b.rem = rel + n ->
              [bufs |-> DropEmpty([bufs EXCEPT ![i].rem = @ - n]), ub |-> "none"]
         [] OTHER -> [bufs |-> bufs, ub |-> "shared_storage"]

(***************************************************************************)
(* parse_frame_header() (frame_parser.c, outside src/): the size of the    *)
(* frame whose header starts the view, 0 if the header is not all there.   *)
(* A view that does not start on a header gives a garbage frame.           *)
(***************************************************************************)
ParseFrameHeader(v) ==
    LET s == v.data[1]
        starts == {i \in 1..Len(Layout) : FrameStart(i) = s}
        i == CHOOSE k \in starts : TRUE
    IN IF starts = {} THEN [size |-> -1]
       ELSE IF Len(v.data) < Layout[i].hlen THEN [size |-> 0]
       ELSE IF SubSeq(v.data, 1, Layout[i].hlen) # Bytes(s, Layout[i].hlen)
            THEN [size |-> -1]
       ELSE [size |-> FrameSize(i), type |-> Layout[i].type, plen |-> Layout[i].plen]

\* Mutation: data_offset_adjust leaves out the frame header.
NewFrameAdjNoHdr(ph, v) ==
    [type     |-> ph.type,
     off      |-> v.off,
     len      |-> ph.size,
     gaps     |-> <<[b |-> 0, e |-> ph.size]>>,
     content  |-> IF ph.type = "DATA" THEN <<>> ELSE [k \in 1..ph.size |-> NoByte],
     complete |-> v.fin /\ ph.size = Len(v.data),
     ehdr     |-> IF ph.type = "DATA" THEN v.off + ph.size - ph.plen ELSE 0,
     adj      |-> IF ph.type = "DATA" THEN v.off - dataTotal ELSE 0]

(***************************************************************************)
(* _nghq_stream_frame_add(): a frame under assembly with one gap over all  *)
(* of it.  DATA frames keep no copy; they record where their header ends   *)
(* and how to turn a stream offset into a body offset (parse_data_frame()  *)
(* gives the payload length).  The C arithmetic is modulo 2^64 and adj is  *)
(* only ever subtracted again, so plain integers give the same offsets.    *)
(***************************************************************************)
NewFrame(ph, v) ==
    [type     |-> ph.type,
     off      |-> v.off,
     len      |-> ph.size,
     gaps     |-> <<[b |-> 0, e |-> ph.size]>>,
     content  |-> IF ph.type = "DATA" THEN <<>> ELSE [k \in 1..ph.size |-> NoByte],
     complete |-> v.fin /\ ph.size = Len(v.data),
     ehdr     |-> IF ph.type = "DATA" THEN v.off + ph.size - ph.plen ELSE 0,
     adj      |-> IF ph.type = "DATA" THEN v.off + ph.size - ph.plen - dataTotal ELSE 0]

\* Mutation: a gap only partly covered is left as it was.
RemoveGapWholeOnly(gs, b, e) ==
    LET i == SelectInSeq(gs, LAMBDA g : g.e > b)
        g == gs[i]
    IN IF i = 0 \/ ~(g.b >= b /\ g.e <= e) THEN gs ELSE RemoveAt(gs, i)

(***************************************************************************)
(* _remove_gap(), as written: it looks at the first gap ending after       *)
(* begin only, and its overlap test is an \/ that is always true there.    *)
(***************************************************************************)
RemoveGap(gs, b, e) ==
    LET i == SelectInSeq(gs, LAMBDA g : g.e > b)
        g == gs[i]
        nb == IF g.b >= b THEN e ELSE g.b
        ne == IF g.e <= e THEN b ELSE g.e
    IN IF i = 0 \/ ~(g.b < e \/ g.e > b) THEN gs
       ELSE IF g.b < b /\ g.e > e
            THEN InsertAt([gs EXCEPT ![i].e = b], i + 1, [b |-> e, e |-> g.e])
       ELSE IF ne <= nb THEN RemoveAt(gs, i)
       ELSE [gs EXCEPT ![i] = [b |-> nb, e |-> ne]]

(***************************************************************************)
(* _frame_add_data(): copy the view into the frame (non-DATA frames only), *)
(* clipped at the frame's end, and remove the copied range from the gaps.  *)
(* A view starting outside the frame makes copy_offset or the clip wrap.   *)
(***************************************************************************)
FrameAddData(f, v) ==
    LET co == v.off - f.off
        clip == Len(v.data) > f.len - co
        cl == IF clip THEN f.len - co ELSE Len(v.data)
    IN IF co < 0 \/ co > f.len
       THEN [frame |-> f, used |-> 0, ub |-> "copy_out_of_frame"]
       ELSE [frame |-> [f EXCEPT
                !.content  = IF f.type = "DATA" THEN @
                             ELSE [k \in DOMAIN @ |->
                                     IF co < k /\ k <= co + cl THEN v.data[k - co] ELSE @[k]],
                !.complete = @ \/ (v.fin /\ ~clip),
                !.gaps     = RemoveGap(@, co, co + cl)],
             used  |-> cl,
             ub    |-> "none"]

\* _frame_contains_stream_range(): does the frame overlap [o, o + n)?
FrameContainsRange(f, o, n) == f.off < o + n /\ f.off + f.len > o
FirstInFrame(f, o) == IF o > f.off THEN o ELSE f.off

(***************************************************************************)
(* What QUIC may hand over next.  The fin comes with the segment ending    *)
(* the stream or, when FinAlone, possibly later in a zero-length segment   *)
(* of its own (a STREAM frame with only the FIN bit).  "inorder": from the first missing byte on; "reorder": any bytes   *)
(* not handed over before, each byte once; "overlap": any range at all     *)
(* (retransmissions, overlaps).                                            *)
(***************************************************************************)
FirstMissing == IF StreamBytes \subseteq received THEN StreamLen
                ELSE CHOOSE s \in StreamBytes \ received :
                       \A t \in StreamBytes \ received : s <= t

SegmentOK(o, n, fin) ==
    /\ o + n <= StreamLen
    /\ fin => o + n = StreamLen
    /\ IF FinAlone THEN n = 0 => fin ELSE fin = (o + n = StreamLen) /\ n >= 1
    /\ fin => ~finSeen
    /\ CASE Delivery = "inorder" -> o = FirstMissing
         [] Delivery = "reorder" -> (o .. o + n - 1) \cap received = {}
         [] Delivery = "overlap" -> TRUE

Init ==
    /\ recvBuf = <<>>
    /\ frames = <<>>
    /\ nextOff = 0
    /\ dataTotal = 0
    /\ recvState = OPEN           \* nghq_stream_init()
    /\ pc = "idle"
    /\ pb = 1 /\ pf = 1
    /\ curOff = 0 /\ curLen = 0
    /\ modified = FALSE /\ blocked = FALSE
    /\ fdata = NoView
    /\ ub = "none"
    /\ received = {} /\ finSeen = FALSE /\ nsegs = 0
    /\ bodyOut = <<>> /\ hdrsOut = <<>>

Locals == <<pb, pf, curOff, curLen, modified, blocked>>
History == <<received, finSeen, nsegs>>

(***************************************************************************)
(* nghq_recv_stream_data() entry: ngtcp2's recv_stream_data callback hands *)
(* over [o, o + n) and the fin bit; stage 1 inserts it into recv_buf.      *)
(***************************************************************************)
RecvStreamData(o, n, fin) ==
    /\ pc = "idle" /\ ub = "none"
    /\ nsegs < MaxSegs
    /\ SegmentOK(o, n, fin)
    /\ LET r == InsertRecv(recvBuf, o, n, fin)
       IN /\ recvBuf' = r.bufs
          /\ ub' = r.ub
    /\ received' = received \cup (o .. o + n - 1)
    /\ finSeen' = (finSeen \/ fin)
    /\ nsegs' = nsegs + 1
    /\ pc' = "extract"
    /\ UNCHANGED <<frames, nextOff, dataTotal, recvState, fdata, Locals,
                   bodyOut, hdrsOut>>

(***************************************************************************)
(* Stage 2, one turn of the while loop: a frame header is available at     *)
(* next_recv_offset, so the frame joins active_frames.                     *)
(***************************************************************************)
ExtractFrame ==
    /\ pc = "extract" /\ ub = "none"
    /\ LET v == DataAt(recvBuf, nextOff, NoView)
           ph == ParseFrameHeader(v)
       IN /\ v # NoView
          /\ ph.size # 0
          /\ fdata' = v
          /\ IF ph.size < 0
             THEN /\ ub' = "garbage_frame_header"
                  /\ UNCHANGED <<frames, dataTotal, nextOff>>
             ELSE /\ frames' = Append(frames, NewFrame(ph, v))
                  /\ dataTotal' = IF ph.type = "DATA" THEN dataTotal + ph.plen
                                                      ELSE dataTotal
                  /\ nextOff' = v.off + ph.size
                  /\ UNCHANGED ub
    /\ UNCHANGED <<recvBuf, recvState, pc, Locals, History, bodyOut, hdrsOut>>

\* Stage 2 ends: nothing at next_recv_offset, or only part of a header.
ExtractDone ==
    /\ pc = "extract" /\ ub = "none"
    /\ LET v == DataAt(recvBuf, nextOff, NoView)
       IN \/ v = NoView /\ UNCHANGED fdata
          \/ v # NoView /\ ParseFrameHeader(v).size = 0 /\ fdata' = v
    /\ pc' = "buffers"
    /\ pb' = 1
    /\ UNCHANGED <<recvBuf, frames, nextOff, dataTotal, recvState, ub, pf,
                   curOff, curLen, modified, blocked, History, bodyOut, hdrsOut>>

(***************************************************************************)
(* Stage 3, head of the loop over recv_buf: a buffer whose unconsumed part *)
(* starts at or before next_recv_offset is matched against the frames.     *)
(***************************************************************************)
NextBuffer ==
    /\ pc = "buffers" /\ ub = "none"
    /\ pb <= Len(recvBuf)
    /\ recvBuf[pb].off + recvBuf[pb].pos <= nextOff
    /\ curOff' = recvBuf[pb].off + recvBuf[pb].pos
    /\ curLen' = recvBuf[pb].rem
    /\ modified' = FALSE
    /\ blocked' = FALSE
    /\ pf' = 1
    /\ pc' = "frames"
    /\ UNCHANGED <<recvBuf, frames, nextOff, dataTotal, recvState, fdata, ub, pb,
                   History, bodyOut, hdrsOut>>

\* The loop over recv_buf ends and nghq_recv_stream_data() returns NGHQ_OK.
RecvDone ==
    /\ pc = "buffers" /\ ub = "none"
    /\ IF pb > Len(recvBuf) THEN TRUE ELSE recvBuf[pb].off + recvBuf[pb].pos > nextOff
    /\ pc' = "idle"
    /\ UNCHANGED <<recvBuf, frames, nextOff, dataTotal, recvState, fdata, ub,
                   Locals, History, bodyOut, hdrsOut>>

\* End of the loop over active_frames: stay on *pb if it was modified
\* (it may now be a different buffer), else step to the next link.
NextBufferLink ==
    /\ pc = "frames" /\ ub = "none"
    /\ pf > Len(frames)
    /\ pb' = IF modified THEN pb ELSE pb + 1
    /\ pc' = "buffers"
    /\ UNCHANGED <<recvBuf, frames, nextOff, dataTotal, recvState, fdata, ub,
                   pf, curOff, curLen, modified, blocked, History, bodyOut,
                   hdrsOut>>

(***************************************************************************)
(* _nghq_stream_headers_frame(): a complete HEADERS frame moves recv_state *)
(* OPEN -> HDRS or BODY -> TRAILERS and is delivered through               *)
(* nghq_deliver_headers(); END_REQUEST if the frame held the stream's fin, *)
(* TRAILERS if the stream is past HDRS.  (recv_state is never DONE on a    *)
(* live stream, so the REQUEST_CLOSED branch is not reachable here.)       *)
(***************************************************************************)
HeadersFrame(f, rs) ==
    LET rs1 == CASE rs = OPEN -> HDRS
                 [] rs = BODY -> TRAILERS
                 [] OTHER     -> rs
    IN /\ recvState' = rs1
       /\ hdrsOut' = Append(hdrsOut, [frame    |-> f.off,
                                      ids      |-> f.content,
                                      trailers |-> rs1 > HDRS,
                                      fin      |-> f.complete,
                                      after    |-> Len(bodyOut)])

(***************************************************************************)
(* Second half of the loop body over active_frames: a frame with no gaps   *)
(* is dispatched and unlinked unless an earlier incomplete non-DATA frame  *)
(* blocks it (DATA frames are never blocked); otherwise step past it, and  *)
(* a non-DATA frame left behind blocks the later ones.                     *)
(***************************************************************************)
AfterFill(f, rs) ==
    IF (~blocked \/ f.type = "DATA") /\ f.gaps = <<>>
    THEN /\ frames' = RemoveAt(frames, pf)
         /\ UNCHANGED <<pf, blocked>>
         /\ IF f.type = "HEADERS" THEN HeadersFrame(f, rs)
                                  ELSE recvState' = rs /\ UNCHANGED hdrsOut
    ELSE /\ frames' = [frames EXCEPT ![pf] = f]
         /\ pf' = pf + 1
         /\ blocked' = (blocked \/ f.type # "DATA")
         /\ recvState' = rs
         /\ UNCHANGED hdrsOut

(***************************************************************************)
(* The loop body for a frame overlapping the current buffer: take the data *)
(* at the frame's first offset in it, add it to the frame; for DATA pass   *)
(* the body bytes straight to on_data_recv_callback (body offset = stream  *)
(* offset - data_offset_adjust, END_DATA once the frame holds the fin);    *)
(* pop what was used from recv_buf; then the dispatch half.                *)
(***************************************************************************)
FillFrame ==
    /\ pc = "frames" /\ ub = "none"
    /\ pf <= Len(frames)
    /\ LET f  == frames[pf]
           isData == f.type = "DATA"
           v  == DataAt(recvBuf, FirstInFrame(f, curOff), fdata)
           a  == FrameAddData(f, v)
           hb == IF v.off < f.ehdr THEN f.ehdr - v.off ELSE 0   \* hdr_bytes
           p  == PopData(recvBuf, v.off, a.used)
           err == CASE a.ub # "none"            -> a.ub
                    [] isData /\ a.used < hb    -> "size_underflow"
                    [] OTHER                    -> p.ub
       IN /\ FrameContainsRange(f, curOff, curLen)
          /\ ~(isData /\ recvState = OPEN)
          /\ fdata' = v
          /\ IF err # "none"
             THEN /\ ub' = err
                  /\ UNCHANGED <<recvBuf, frames, recvState, pf, modified,
                                 blocked, bodyOut, hdrsOut>>
             ELSE /\ UNCHANGED ub
                  /\ recvBuf' = p.bufs
                  /\ modified' = TRUE
                  /\ bodyOut' = IF isData
                                THEN Append(bodyOut,
                                       [boff |-> v.off + hb - f.adj,
                                        ids  |-> SubSeq(v.data, hb + 1, a.used),
                                        end  |-> a.frame.complete])
                                ELSE bodyOut
                  /\ AfterFill(a.frame, IF isData /\ recvState = HDRS THEN BODY
                                                                   ELSE recvState)
    /\ UNCHANGED <<nextOff, dataTotal, pc, pb, curOff, curLen, History>>

(***************************************************************************)
(* A DATA frame overlapping the buffer while no HEADERS frame has been     *)
(* delivered yet (recv_state OPEN): the data is added to the frame and the *)
(* code does "continue" -- with pf not advanced.                           *)
(***************************************************************************)
HoldDataFrame ==
    /\ pc = "frames" /\ ub = "none"
    /\ pf <= Len(frames)
    /\ LET f == frames[pf]
           v == DataAt(recvBuf, FirstInFrame(f, curOff), fdata)
           a == FrameAddData(f, v)
       IN /\ FrameContainsRange(f, curOff, curLen)
          /\ f.type = "DATA" /\ recvState = OPEN
          /\ fdata' = v
          /\ ub' = a.ub
          /\ frames' = [frames EXCEPT ![pf] = a.frame]
    /\ UNCHANGED <<recvBuf, nextOff, dataTotal, recvState, pc, Locals, History,
                   bodyOut, hdrsOut>>

\* The loop body for a frame not overlapping the buffer: dispatch half only.
SkipFrame ==
    /\ pc = "frames" /\ ub = "none"
    /\ pf <= Len(frames)
    /\ ~FrameContainsRange(frames[pf], curOff, curLen)
    /\ AfterFill(frames[pf], recvState)
    /\ UNCHANGED <<recvBuf, nextOff, dataTotal, fdata, ub, pc, pb, curOff,
                   curLen, modified, History, bodyOut>>

Next ==
    \/ \E o, n \in 0 .. StreamLen, fin \in BOOLEAN : RecvStreamData(o, n, fin)
    \/ ExtractFrame
    \/ ExtractDone
    \/ NextBuffer
    \/ RecvDone
    \/ NextBufferLink
    \/ FillFrame
    \/ HoldDataFrame
    \/ SkipFrame

\* The steps inside nghq_recv_stream_data() are fair: the engine thread is
\* running that call and nothing else.  Delivery by QUIC is not.
Fairness ==
    /\ WF_vars(ExtractFrame \/ ExtractDone)
    /\ WF_vars(NextBuffer \/ RecvDone \/ NextBufferLink)
    /\ WF_vars(FillFrame \/ HoldDataFrame \/ SkipFrame)

Spec == Init /\ [][Next]_vars /\ Fairness

-----------------------------------------------------------------------------
(***************************************************************************)
(* Properties.  Those about the stream's data structures are stated where  *)
(* nghq_recv_stream_data() has returned (pc = "idle").                     *)
(***************************************************************************)
Idle == pc = "idle"

Buffer == [off : 0 .. StreamLen, data : Seq(StreamBytes), pos : Nat, rem : Int, fin : BOOLEAN]

TypeOK ==
    /\ recvBuf \in Seq(Buffer)
    /\ \A i \in DOMAIN frames :
          frames[i].type \in FrameTypes /\ frames[i].gaps \in Seq([b : Nat, e : Nat])
    /\ nextOff \in 0 .. StreamLen
    /\ recvState \in {OPEN, HDRS, BODY, TRAILERS, DONE}
    /\ pc \in {"idle", "extract", "buffers", "frames"}
    /\ ub \in UBKinds
    /\ received \subseteq StreamBytes
    /\ nsegs \in 0 .. MaxSegs

BodyIds(chunks) == UNION {ToSet(chunks[i].ids) : i \in DOMAIN chunks}

(***************************************************************************)
(* The receive buffer list is sorted by offset, no two buffers overlap or  *)
(* touch (_nghq_insert_recv_stream_data merges them), and every buffer's   *)
(* unconsumed part lies inside it (spec section 3, invariant 1).           *)
(***************************************************************************)
RecvBufWellFormed ==
    Idle =>
      /\ \A i \in 1 .. Len(recvBuf) - 1 : BufEnd(recvBuf[i]) < recvBuf[i+1].off
      /\ \A i \in DOMAIN recvBuf :
            recvBuf[i].rem >= 0 /\ recvBuf[i].pos + recvBuf[i].rem <= Len(recvBuf[i].data)

(***************************************************************************)
(* Every unconsumed byte of a receive buffer is the stream byte its buffer *)
(* offset says it is: inserting, trimming, merging and popping never move  *)
(* data to the wrong offset.                                               *)
(***************************************************************************)
RecvBufContentIntact ==
    Idle =>
      \A i \in DOMAIN recvBuf :
        \A k \in recvBuf[i].pos + 1 .. recvBuf[i].pos + recvBuf[i].rem :
          k <= Len(recvBuf[i].data) /\ recvBuf[i].data[k] = recvBuf[i].off + k - 1

(***************************************************************************)
(* The application gets the right bytes: every on_data_recv_callback call  *)
(* carries body bytes at the body offset it reports (data_offset_adjust    *)
(* and data_frames_total are right), and every delivered HEADERS frame     *)
(* holds exactly the bytes of one HEADERS frame of the stream.             *)
(***************************************************************************)
CallbacksCarryStreamBytes ==
    /\ \A c \in ToSet(bodyOut) :
          \A k \in DOMAIN c.ids :
            IsBody(c.ids[k]) /\ BodyOffset(c.ids[k]) = c.boff + k - 1
    /\ \A h \in ToSet(hdrsOut) :
          \E i \in HeaderFrames :
            h.frame = FrameStart(i) /\ h.ids = Bytes(FrameStart(i), FrameSize(i))

(***************************************************************************)
(* No body byte reaches on_data_recv_callback twice (spec 8, property 3),  *)
(* whatever QUIC hands over.                                               *)
(***************************************************************************)
NoBodyByteTwice ==
    \A i, j \in DOMAIN bodyOut :
       i # j => ToSet(bodyOut[i].ids) \cap ToSet(bodyOut[j].ids) = {}

(***************************************************************************)
(* Once QUIC has handed over every byte and the fin and the call has       *)
(* returned, nothing is left half-assembled: every body byte and every     *)
(* HEADERS frame has been delivered.                                       *)
(***************************************************************************)
AllReceived == Idle /\ ub = "none" /\ received = StreamBytes /\ finSeen

AllDeliveredOnceReceived ==
    AllReceived =>
      /\ frames = <<>>
      /\ BodyIds(bodyOut) = BodyBytes
      /\ {h.frame : h \in ToSet(hdrsOut)} = {FrameStart(i) : i \in HeaderFrames}

(***************************************************************************)
(* The end of the stream reaches the application (spec 4.2: "end-of-stream *)
(* fin bit on the last frame"): once every byte and the fin are in, the    *)
(* last frame was delivered with END_DATA (DATA) or END_REQUEST (HEADERS). *)
(***************************************************************************)
EndOfStreamSignalled ==
    AllReceived =>
      IF Layout[Len(Layout)].type = "DATA"
      THEN \E i \in DOMAIN bodyOut : bodyOut[i].end
      ELSE \E i \in DOMAIN hdrsOut : hdrsOut[i].fin

\* Body bytes reach the application in ascending body offset.
BodyInOrder ==
    \A i, j \in DOMAIN bodyOut :
       (i < j /\ bodyOut[i].ids # <<>> /\ bodyOut[j].ids # <<>>)
         => bodyOut[i].boff + Len(bodyOut[i].ids) <= bodyOut[j].boff

\* When trailing HEADERS are delivered, every body byte already was.
TrailersAfterBody ==
    \A h \in ToSet(hdrsOut) :
       h.trailers => BodyIds(SubSeq(bodyOut, 1, h.after)) = BodyBytes

(***************************************************************************)
(* Spec 5, ordering guarantees within a stream: "headers before body      *)
(* before trailers; bytes delivered in ascending body offset", which       *)
(* stage 4 of the reassembler (spec 4.3) says it preserves while DATA      *)
(* frames do not block.  Under reordered segments this relates the         *)
(* frame loop's dispatch of DATA chunks as soon as they are present        *)
(* (on_data_recv_callback) to the order the application sees.             *)
(***************************************************************************)
DeliveredInStreamOrder == BodyInOrder /\ TrailersAfterBody

(***************************************************************************)
(* nghq_recv_stream_data() returns: once called, the engine thread gets    *)
(* back to the host (or the model has hit undefined behaviour).            *)
(***************************************************************************)
RecvReturns == (~Idle /\ ub = "none") ~> (Idle \/ ub # "none")

\* No undefined behaviour (a size_t wrap, a double free, a garbage frame).
NoUndefinedBehaviour == ub = "none"
=============================================================================
