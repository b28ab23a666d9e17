--------------------------- MODULE MCWsStreamServer ---------------------------
(* WsStreamServer for TLC: one stream is long enough for a gap, the other  *)
(* one only moves between the steps of the first.                          *)
EXTENDS WsStreamServer, TLC

CONSTANTS a, b

Bounds == a :> 3 @@ b :> 1

OneStream == a :> 2
=============================================================================
