------------------------- MODULE MCWebSocketClient -------------------------
(* Small instances of WebSocketClient: interchangeable requests. *)
EXTENDS WebSocketClient, TLC

Symmetry == Permutations(Request)
===========================================================================
