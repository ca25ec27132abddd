------------------------------- MODULE MCPush -------------------------------
(* Model-checking instance of MulticastPush: server-initiated               *)
(* unidirectional streams are numbered 3, 7, 11, ...; ngtcp2 gave 3 to the  *)
(* control stream (src/lib/nghq.c:693-702), so push streams get 7 and 11.   *)
EXTENDS MulticastPush

MCUniIds == <<7, 11>>
MCSymmetry == Permutations(Users)
====
