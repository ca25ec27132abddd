----------------------------- MODULE MCRequests -----------------------------
(* Model-checking instance of Requests: two requests on the client's first  *)
(* bidirectional streams.  QUIC draft-22 numbers client-initiated           *)
(* bidirectional streams 0, 4, 8, ...; stream 0 is also the entry nghq adds *)
(* to the map when the session is created (src/lib/nghq.c:194-196).        *)
EXTENDS Requests, TLC

MCBidiIds == <<0, 4, 8>>
MCDataLens == {1, 2}
\* The two users are interchangeable: no definition tells them apart.
MCSymmetry == Permutations(Users)
====
