---------------------------- MODULE TimerAdapter ----------------------------
(***************************************************************************)
(* The timer adapter of nghq (src/lib/nghq.c 66-142): _update_timers and   *)
(* _adjust_timer map ngtcp2's two expiry timestamps (loss detection and    *)
(* ACK delay) onto timers the host provides through set_timer, reset_timer *)
(* and cancel_timer, and the two timeouts _conn_loss_timeout and           *)
(* _conn_ack_timeout run when such a timer fires.                          *)
(*                                                                         *)
(* Two actors share the engine thread: nghq, which re-reads the expiries   *)
(* after every packet ngtcp2 reads or writes, and the host's event loop,   *)
(* which fires a due timer between engine calls.  ngtcp2 is the            *)
(* environment: a packet may move either expiry anywhere, and a timeout    *)
(* handler leaves its own expiry in the future or at "never".  Time is a   *)
(* discrete clock; UINT64_MAX ("never") is NEVER, above every time.        *)
(***************************************************************************)
EXTENDS Naturals, Sequences

CONSTANTS
    MaxTime,        \* the clock runs over 0 .. MaxTime
    MaxCalls,       \* bound on the packets ngtcp2 reads or writes
    ImmediateFire   \* the host's set_timer may run the callback at once

ASSUME MaxTime \in Nat /\ MaxCalls \in Nat /\ ImmediateFire \in BOOLEAN

Kinds == {"loss", "ack"}
NEVER == MaxTime + 1          \* UINT64_MAX
NULL == 0                     \* a void * timer handle that is NULL
Time == 0 .. MaxTime
Expiry == Time \cup {NEVER}

VARIABLES
    now,        \* get_timestamp_now ()
    expiry,     \* ngtcp2_conn_loss_detection_expiry / _ack_delay_expiry
    tstamp,     \* session->conn_loss_tstamp, conn_ack_tstamp
    timer,      \* session->conn_loss_timer, conn_ack_timer (index into host)
    host,       \* the host's timers: every handle set_timer has returned
    handshake,  \* session->handshake_complete
    pc,         \* "idle", or the _adjust_timer call _update_timers is in
    calls,      \* packets read or written so far
    spurious    \* history: kinds whose timeout ran while ngtcp2 had no due expiry

vars == <<now, expiry, tstamp, timer, host, handshake, pc, calls, spurious>>

-----------------------------------------------------------------------------
(* ngtcp2's handlers, run by the two timeouts.                             *)

\* What a timeout leaves in ngtcp2: the handler has dealt with the expiry of
\* its kind, which is now in the future or never.  The ACK timeout's
\* write_pkt writes a packet, which may move the loss expiry anywhere, as
\* every packet written does; on_loss_detection_timer leaves the ACK expiry
\* alone.  A timeout that runs while its expiry was not yet due is recorded
\* as spurious.
TimeoutTransport(k) ==
    /\ \E f \in [Kinds -> Expiry] :
          /\ f[k] > now
          /\ k = "loss" => f["ack"] = expiry["ack"]
          /\ expiry' = f
    /\ spurious' = IF expiry[k] <= now THEN spurious ELSE spurious \cup {k}

\* _conn_loss_timeout / _conn_ack_timeout: forget the timer handle, then run
\* ngtcp2's handler (on_loss_detection_timer, or write_pkt for the ACK).
Timeout(k) ==
    /\ timer' = [timer EXCEPT ![k] = NULL]
    /\ TimeoutTransport(k)

\* The delay handed to set_timer / reset_timer, from the absolute trigger.
\* Mutation: the absolute trigger time passed as the delay.
FromNowAbsolute(t) == t

FromNow(t) == t - now

-----------------------------------------------------------------------------
Init ==
    /\ now = 0
    /\ expiry = [k \in Kinds |-> NEVER]
    /\ tstamp = [k \in Kinds |-> NEVER]
    /\ timer = [k \in Kinds |-> NULL]
    /\ host = <<>>
    /\ handshake = FALSE
    /\ pc = "idle"
    /\ calls = 0
    /\ spurious = {}

\* The handshake completes (nghq_transport_handshake_completed).
HandshakeComplete ==
    /\ pc = "idle" /\ ~handshake
    /\ handshake' = TRUE
    /\ UNCHANGED <<now, expiry, tstamp, timer, host, pc, calls, spurious>>

\* ngtcp2 reads a packet (nghq_session_recv) and may move either expiry;
\* then _update_timers runs, or returns at once before the handshake is done.
ReadPkt ==
    /\ pc = "idle" /\ calls < MaxCalls
    /\ \E e \in [Kinds -> Expiry] : expiry' = e
    /\ calls' = calls + 1
    /\ pc' = IF handshake THEN "loss" ELSE "idle"
    /\ UNCHANGED <<now, tstamp, timer, host, handshake, spurious>>

\* _update_timers adjusts the loss timer, then the ACK timer.
NextPc(k) == IF k = "loss" THEN "ack" ELSE "idle"

\* _adjust_timer when the trigger equals the recorded tstamp: nothing.
AdjustSame(k) ==
    /\ pc = k /\ expiry[k] = tstamp[k]
    /\ pc' = NextPc(k)
    /\ UNCHANGED <<now, expiry, tstamp, timer, host, handshake, calls, spurious>>

\* The trigger is "never": cancel the timer if one is held.
AdjustCancel(k) ==
    /\ pc = k /\ expiry[k] # tstamp[k] /\ expiry[k] = NEVER
    /\ host' = IF timer[k] = NULL THEN host
               ELSE [host EXCEPT ![timer[k]].armed = FALSE]
    /\ timer' = [timer EXCEPT ![k] = NULL]
    /\ tstamp' = [tstamp EXCEPT ![k] = expiry[k]]
    /\ pc' = NextPc(k)
    /\ UNCHANGED <<now, expiry, handshake, calls, spurious>>

\* The trigger has passed: run the timeout inline.  The timeout clears the
\* handle first, so the following "if (*timer) cancel" never cancels, and a
\* timer the host still has armed stays armed.
AdjustInline(k) ==
    /\ pc = k /\ expiry[k] # tstamp[k] /\ expiry[k] <= now
    /\ Timeout(k)
    /\ tstamp' = [tstamp EXCEPT ![k] = expiry[k]]
    /\ pc' = NextPc(k)
    /\ UNCHANGED <<now, host, handshake, calls>>

\* Mutation: the held timer is not reset; only the tstamp is recorded.
AdjustResetSkipped(k) ==
    /\ pc = k /\ expiry[k] # tstamp[k] /\ now < expiry[k] /\ expiry[k] # NEVER
    /\ timer[k] # NULL
    /\ tstamp' = [tstamp EXCEPT ![k] = expiry[k]]
    /\ pc' = NextPc(k)
    /\ UNCHANGED <<now, expiry, timer, host, handshake, calls, spurious>>

\* The trigger is in the future and a timer is held: reset_timer.
AdjustReset(k) ==
    /\ pc = k /\ expiry[k] # tstamp[k] /\ now < expiry[k] /\ expiry[k] # NEVER
    /\ timer[k] # NULL
    /\ host' = [host EXCEPT ![timer[k]].deadline = now + FromNow(expiry[k]),
                            ![timer[k]].armed = TRUE]
    /\ tstamp' = [tstamp EXCEPT ![k] = expiry[k]]
    /\ pc' = NextPc(k)
    /\ UNCHANGED <<now, expiry, timer, handshake, calls, spurious>>

\* The trigger is in the future and no timer is held: set_timer arms a new
\* host timer and the returned handle is stored.
AdjustSet(k) ==
    /\ pc = k /\ expiry[k] # tstamp[k] /\ now < expiry[k] /\ expiry[k] # NEVER
    /\ timer[k] = NULL
    /\ host' = Append(host, [kind |-> k, armed |-> TRUE,
                             deadline |-> now + FromNow(expiry[k])])
    /\ timer' = [timer EXCEPT ![k] = Len(host')]
    /\ tstamp' = [tstamp EXCEPT ![k] = expiry[k]]
    /\ pc' = NextPc(k)
    /\ UNCHANGED <<now, expiry, handshake, calls, spurious>>

\* As AdjustSet, but the host's set_timer runs the timeout before it
\* returns.  The handle it returns, now spent, is still stored.
AdjustSetFired(k) ==
    /\ ImmediateFire
    /\ pc = k /\ expiry[k] # tstamp[k] /\ now < expiry[k] /\ expiry[k] # NEVER
    /\ timer[k] = NULL
    /\ host' = Append(host, [kind |-> k, armed |-> FALSE,
                             deadline |-> now + FromNow(expiry[k])])
    /\ TimeoutTransport(k)
    /\ timer' = [timer EXCEPT ![k] = Len(host')]
    /\ tstamp' = [tstamp EXCEPT ![k] = expiry[k]]
    /\ pc' = NextPc(k)
    /\ UNCHANGED <<now, handshake, calls>>

-----------------------------------------------------------------------------
(* The host: its clock and its event loop.                                 *)

Tick ==
    /\ pc = "idle" /\ now < MaxTime
    /\ now' = now + 1
    /\ UNCHANGED <<expiry, tstamp, timer, host, handshake, pc, calls, spurious>>

\* A due host timer fires and its callback runs.
HostFire(h) ==
    /\ pc = "idle" /\ host[h].armed /\ host[h].deadline <= now
    /\ host' = [host EXCEPT ![h].armed = FALSE]
    /\ Timeout(host[h].kind)
    /\ UNCHANGED <<now, tstamp, handshake, pc, calls>>

Adjust(k) ==
    \/ AdjustSame(k)
    \/ AdjustCancel(k)
    \/ AdjustInline(k)
    \/ AdjustReset(k)
    \/ AdjustSet(k)
    \/ AdjustSetFired(k)

Next ==
    \/ HandshakeComplete
    \/ ReadPkt
    \/ \E k \in Kinds : Adjust(k)
    \/ Tick
    \/ \E h \in DOMAIN host : HostFire(h)

Spec == Init /\ [][Next]_vars

-----------------------------------------------------------------------------
(* Properties.                                                             *)

TypeOK ==
    /\ now \in Time
    /\ expiry \in [Kinds -> Expiry]
    /\ tstamp \in [Kinds -> Expiry]
    /\ host \in Seq([kind : Kinds, deadline : Time, armed : BOOLEAN])
    /\ \A k \in Kinds : timer[k] \in {NULL} \cup {h \in DOMAIN host : host[h].kind = k}
    /\ handshake \in BOOLEAN
    /\ pc \in {"idle"} \cup Kinds
    /\ calls \in 0 .. MaxCalls
    /\ spurious \subseteq Kinds

\* The tstamp nghq records is when the timer it holds will fire: whenever
\* the engine is idle, a held host timer that is still armed has the
\* recorded tstamp as its deadline.  This is what makes _adjust_timer's
\* early return (trigger_time == *tstamp: nothing to do) sound, through
\* reset_timer, set_timer, cancel_timer, inline timeouts that clear the
\* handle, set_timer firing at once and the host firing timers.  (It is
\* not ngtcp2's current expiry: the ACK timeout's write_pkt may move the
\* loss expiry with no _update_timers after it.)
HeldTimerMatchesTstamp ==
    pc = "idle" =>
        \A k \in Kinds :
            timer[k] # NULL /\ host[timer[k]].armed =>
                host[timer[k]].deadline = tstamp[k]

\* A timeout never runs ngtcp2's loss or ACK handler while ngtcp2 has no
\* expiry of that kind due (no spurious loss detection or ACK).
TimeoutNotEarly ==
    spurious = {}

=============================================================================
