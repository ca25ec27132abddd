---------------------------- MODULE MCStreamRecv ----------------------------
(***************************************************************************)
(* Model-checking instances of StreamRecv: a request stream carrying       *)
(* HEADERS, DATA and trailing HEADERS, with headers of one and two bytes   *)
(* so that a frame header can be split between segments.                   *)
(***************************************************************************)
EXTENDS StreamRecv

\* HEADERS [0,2), DATA [2,6) with a two-byte header and 2 body bytes,
\* trailers [6,8).
LayoutHDT ==
    << [type |-> "HEADERS", hlen |-> 1, plen |-> 1],
       [type |-> "DATA",    hlen |-> 2, plen |-> 2],
       [type |-> "HEADERS", hlen |-> 1, plen |-> 1] >>

\* HEADERS [0,2), DATA [2,5), DATA [5,7): two DATA frames exercise
\* data_frames_total; the stream ends on DATA.
LayoutHDD ==
    << [type |-> "HEADERS", hlen |-> 1, plen |-> 1],
       [type |-> "DATA",    hlen |-> 1, plen |-> 2],
       [type |-> "DATA",    hlen |-> 1, plen |-> 1] >>
\* HEADERS [0,2), DATA [2,6) with a two-byte header, DATA [6,8),
\* trailers [8,10): body offsets across two DATA frames, then trailers.
LayoutHDDT ==
    << [type |-> "HEADERS", hlen |-> 1, plen |-> 1],
       [type |-> "DATA",    hlen |-> 2, plen |-> 2],
       [type |-> "DATA",    hlen |-> 1, plen |-> 1],
       [type |-> "HEADERS", hlen |-> 1, plen |-> 1] >>
=============================================================================
