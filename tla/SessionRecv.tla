---------------------------- MODULE SessionRecv -----------------------------
(***************************************************************************)
(* nghq_session_recv (src/lib/nghq.c 817-884) together with the timer      *)
(* adapter it drives, and the packets a session writes: one per call of    *)
(* nghq_session_send that reaches ngtcp2 (1001-1008) and one per ACK       *)
(* timeout (_conn_ack_timeout, 66-81).                                     *)
(*                                                                         *)
(* session->recv_buf is one queue with two producers: the read loop of     *)
(* nghq_session_recv appends what the host's recv callback returns, and    *)
(* on a multicast server nghq_write_send_buffer appends a fake ACK for     *)
(* every packet the host has sent (nghq_mcast_fake_ack), since no receiver *)
(* will ever acknowledge it.  The process loop of nghq_session_recv hands  *)
(* the queue to ngtcp2_conn_read_pkt, one packet at a time, with           *)
(* _update_timers after each.  ngtcp2 is the environment: a packet read or *)
(* written may move either expiry anywhere (as in TimerAdapter's ReadPkt), *)
(* a peer packet may put the connection into its draining period, and      *)
(* ngtcp2_conn_read_pkt may fail.  The host's timers and clock only run    *)
(* between engine calls: the engine is single-threaded (spec 5).           *)
(***************************************************************************)
EXTENDS TimerAdapter, SequencesExt

CONSTANTS
    McastServer,  \* a multicast server: every packet sent gets a fake ACK
    MaxSent,      \* bound on the packets the session writes
    PnBase        \* packet number of the first short-header packet written

ASSUME McastServer \in BOOLEAN /\ MaxSent \in Nat /\ PnBase \in Nat

VARIABLES
    queue,     \* session->recv_buf: <<[src, n], ...>>, src "peer" or "fake"
    rcv,       \* where nghq_session_recv is: "idle", "read", "process",
               \* "update" (in _update_timers), or "closed" (SESSION_CLOSED)
    rv,        \* the local rv nghq_session_recv returns when the queue is empty
    handed,    \* history: packets handed to ngtcp2_conn_read_pkt, in order
    sent,      \* history: packets written, [n, hdr]: hdr "long" (before the
               \* handshake; nghq_write_send_buffer pops it unsent), "short"
               \* (n its packet number) or "empty" (write_pkt wrote nothing)
    draining,  \* ngtcp2_conn_is_in_draining_period
    last_remote_pkt_num  \* session->last_remote_pkt_num

recvVars == <<queue, rcv, rv, handed, sent, draining, last_remote_pkt_num>>
allVars == <<vars, recvVars>>

-----------------------------------------------------------------------------
(* The packet queue.                                                       *)

\* nghq_io_buf_new / nghq_io_buf_push add a buffer at the end of the list.
Enqueue(q, p) == Append(q, p)

\* Mutation: the processed packet is not unlinked from the list.
PopKept(q) == q

\* pop = session->recv_buf; session->recv_buf = session->recv_buf->next_buf
Pop(q) == Tail(q)

\* ngtcp2 reads or writes a packet: either expiry may move.
PktMovesExpiry == \E e \in [Kinds -> Expiry] : expiry' = e

\* _update_timers: nothing before the handshake, else the loss timer, then
\* the ACK timer (TimerAdapter's Adjust steps).
UpdateTimers == pc' = IF handshake THEN "loss" ELSE "idle"

\* _pkt_num_mask: the mask is chosen from the value of the truncated number.
PktNumMask(t) ==
    CASE t < 2^8  -> 2^8 - 1
      [] t < 2^16 -> 2^16 - 1
      [] OTHER    -> 2^32 - 1

\* Mutation: the carry into the next window is never added.
CalcPktNumberNoCarry(last, t) ==
    IF t < last THEN (last - (last % (PktNumMask(t) + 1))) + t ELSE t

\* _calc_pkt_number: rv |= last & ~mask, then rv += mask + 1 if still
\* behind.  As t <= mask and mask + 1 is a power of two, the OR is an
\* addition to last with its low bits cleared.
CalcPktNumber(last, t) ==
    IF t < last
    THEN LET m == PktNumMask(t) + 1
             r == (last - (last % m)) + t
         IN  IF r < last THEN r + m ELSE r
    ELSE t

\* The packet number on the wire: its low 1 or 2 bytes, whichever width
\* ngtcp2 chose (both decode unambiguously for these gaps).
Truncated(n, w) == n % 2^(8 * w)

\* nghq_mcast_fake_ack: a multicast server queues an ACK whose largest
\* acknowledged is the packet number rebuilt from the header of the packet
\* it has just sent.  Long-header and empty packets fail
\* ngtcp2_pkt_decode_hd_short: no fake ACK.
FakeAck(p) ==
    IF McastServer /\ p.hdr = "short"
    THEN \E w \in {1, 2} :
           LET d == CalcPktNumber(last_remote_pkt_num, Truncated(p.n, w))
           IN  /\ queue' = Enqueue(queue, [src |-> "fake", n |-> d])
               /\ last_remote_pkt_num' = d
    ELSE UNCHANGED <<queue, last_remote_pkt_num>>

ShortHdr(s) == s.hdr = "short"

\* ngtcp2 numbers the short-header packets it writes consecutively.
NextPn == PnBase + Len(SelectSeq(sent, ShortHdr))

\* nghq_write_send_buffer with a host that takes the whole packet: the
\* packet is sent (once the handshake is complete; before, it is popped
\* unsent), then (multicast server) its fake ACK is queued.
WriteSendBuffer(hdr) ==
    LET p == [n |-> IF hdr = "short" THEN NextPn ELSE 0, hdr |-> hdr]
    IN  /\ sent' = Append(sent, p)
        /\ FakeAck(p)

\* _conn_ack_timeout, after its handle is cleared and ngtcp2's expiry dealt
\* with (TimerAdapter's Timeout): ngtcp2_conn_write_pkt writes an ACK
\* packet, or nothing (it returns 0, which becomes buf_len), and the
\* buffer is pushed and sent either way.  The loss timeout writes nothing.
AckTimeoutWrite(k) ==
    IF k = "ack" /\ Len(sent) < MaxSent
    THEN \E hdr \in {"short", "empty"} : WriteSendBuffer(hdr)
    ELSE UNCHANGED <<sent, queue, last_remote_pkt_num>>

-----------------------------------------------------------------------------
(* nghq_session_recv.                                                      *)

\* The host calls nghq_session_recv.
RecvCall ==
    /\ rcv = "idle" /\ pc = "idle"
    /\ rcv' = "read" /\ rv' = "NO_MORE_DATA"
    /\ UNCHANGED <<vars, queue, handed, sent, draining,
                   last_remote_pkt_num>>

\* The read loop: the recv callback returns a packet, which is queued.
RecvPacket ==
    /\ rcv = "read" /\ calls < MaxCalls
    /\ queue' = Enqueue(queue, [src |-> "peer", n |-> calls + 1])
    /\ calls' = calls + 1
    /\ UNCHANGED <<now, expiry, tstamp, timer, host, handshake, pc, spurious,
                   rcv, rv, handed, sent, draining,
                   last_remote_pkt_num>>

\* The recv callback returns 0 (no more data), or malloc fails
\* (NGHQ_OUT_OF_MEMORY, overwritten if a packet is then processed).
RecvEnd ==
    /\ rcv = "read"
    /\ rcv' = "process"
    /\ rv' \in {rv, "OUT_OF_MEMORY"}
    /\ UNCHANGED <<vars, queue, handed, sent, draining,
                   last_remote_pkt_num>>

\* The recv callback fails: NGHQ_EOF gives NGHQ_SESSION_CLOSED, after which
\* the host frees the session (spec 7); any other error NGHQ_ERROR.  The
\* packets read before are left in session->recv_buf.
RecvFail ==
    /\ rcv = "read"
    /\ rcv' \in {"closed", "idle"}
    /\ UNCHANGED <<vars, queue, rv, handed, sent, draining,
                   last_remote_pkt_num>>

\* ngtcp2_conn_read_pkt accepts the head of the queue; it is unlinked and
\* _update_timers runs.  A peer packet may start the draining period.
ReadPktOk ==
    /\ rcv = "process" /\ pc = "idle" /\ queue # <<>> /\ ~draining
    /\ handed' = Append(handed, Head(queue))
    /\ queue' = Pop(queue)
    /\ PktMovesExpiry
    /\ draining' \in IF Head(queue).src = "peer" THEN BOOLEAN ELSE {FALSE}
    /\ UpdateTimers
    /\ rcv' = "update" /\ rv' = "OK"
    /\ UNCHANGED <<now, tstamp, timer, host, handshake, calls, spurious, sent,
                   last_remote_pkt_num>>

\* ngtcp2_conn_read_pkt fails (NGTCP2_ERR_TLS_DECRYPT gives
\* NGHQ_CRYPTO_ERROR, anything else NGHQ_ERROR): the packet is unlinked and
\* nghq_session_recv returns at once, without _update_timers.
ReadPktFail ==
    /\ rcv = "process" /\ pc = "idle" /\ queue # <<>>
    /\ handed' = Append(handed, Head(queue))
    /\ queue' = Pop(queue)
    /\ rcv' = "idle"
    /\ UNCHANGED <<vars, rv, sent, draining,
                   last_remote_pkt_num>>

\* After _update_timers: NGHQ_SESSION_CLOSED in the draining period, else
\* the next packet.
AfterUpdate ==
    /\ rcv = "update" /\ pc = "idle"
    /\ rcv' = IF draining THEN "closed" ELSE "process"
    /\ UNCHANGED <<vars, queue, rv, handed, sent, draining,
                   last_remote_pkt_num>>

\* The queue is empty: rv is returned.
RecvReturn ==
    /\ rcv = "process" /\ queue = <<>>
    /\ rcv' = "idle"
    /\ UNCHANGED <<vars, queue, rv, handed, sent, draining,
                   last_remote_pkt_num>>

\* nghq_session_send has a packet from ngtcp2 (1001-1008): it is queued on
\* send_buf, _update_timers runs, and nghq_write_send_buffer sends it.
SendPkt ==
    /\ rcv = "idle" /\ pc = "idle" /\ calls < MaxCalls /\ Len(sent) < MaxSent
    /\ calls' = calls + 1
    /\ PktMovesExpiry
    /\ WriteSendBuffer(IF handshake THEN "short" ELSE "long")
    /\ UpdateTimers
    /\ UNCHANGED <<now, tstamp, timer, host, handshake, spurious, rcv, rv,
                   handed, draining>>

-----------------------------------------------------------------------------
(* The session: the timer adapter's steps, the host's only between engine *)
(* calls, and nghq_session_recv.  A timeout that runs (inline or fired by  *)
(* the host) may write an ACK packet.                                      *)

SessionInit ==
    /\ Init
    /\ queue = <<>>
    /\ rcv = "idle"
    /\ rv = "NO_MORE_DATA"
    /\ handed = <<>>
    /\ sent = <<>>
    /\ draining = FALSE
    /\ last_remote_pkt_num = IF PnBase = 0 THEN 0 ELSE PnBase - 1

SessionNext ==
    \/ HandshakeComplete /\ rcv = "idle" /\ UNCHANGED recvVars
    \/ \E k \in Kinds :
          \/ (AdjustSame(k) \/ AdjustCancel(k) \/ AdjustReset(k) \/ AdjustSet(k))
             /\ UNCHANGED recvVars
          \/ (AdjustInline(k) \/ AdjustSetFired(k))
             /\ AckTimeoutWrite(k)
             /\ UNCHANGED <<rcv, rv, handed, draining>>
    \/ Tick /\ rcv = "idle" /\ UNCHANGED recvVars
    \/ \E h \in DOMAIN host :
          /\ HostFire(h) /\ rcv = "idle"
          /\ AckTimeoutWrite(host[h].kind)
          /\ UNCHANGED <<rcv, rv, handed, draining>>
    \/ SendPkt
    \/ RecvCall
    \/ RecvPacket
    \/ RecvEnd
    \/ RecvFail
    \/ ReadPktOk
    \/ ReadPktFail
    \/ AfterUpdate
    \/ RecvReturn

SessionSpec == SessionInit /\ [][SessionNext]_allVars

-----------------------------------------------------------------------------
(* Properties.                                                             *)

PktNum == 0 .. PnBase + MaxCalls + MaxSent

Packet == [src : {"peer", "fake"}, n : PktNum]

SessionTypeOK ==
    /\ TypeOK
    /\ queue \in Seq(Packet)
    /\ handed \in Seq(Packet)
    /\ sent \in Seq([n : PktNum, hdr : {"long", "short", "empty"}])
    /\ rcv \in {"idle", "read", "process", "update", "closed"}
    /\ rv \in {"NO_MORE_DATA", "OUT_OF_MEMORY", "OK"}
    /\ draining \in BOOLEAN
    /\ last_remote_pkt_num \in PktNum

IsFake(p) == p.src = "fake"

\* On a multicast server ngtcp2 learns of the delivery of every
\* short-header packet sent exactly once, in the order they were sent, and
\* with its own packet number: the fake ACKs handed to
\* ngtcp2_conn_read_pkt, followed by those still in session->recv_buf,
\* acknowledge exactly those packets' numbers in send order
\* (nghq_write_send_buffer and nghq_mcast_fake_ack queueing, the number
\* rebuilt from its truncated form by _calc_pkt_number, the ACK timeout
\* writing from inside _update_timers, and nghq_session_recv unlinking each
\* packet it hands over, on its error paths too).
FakeAcksInSendOrder ==
    McastServer =>
        LET short == SelectSeq(sent, ShortHdr)
        IN  SelectSeq(handed \o queue, IsFake)
                = [i \in 1 .. Len(short) |-> [src |-> "fake", n |-> short[i].n]]
=============================================================================
