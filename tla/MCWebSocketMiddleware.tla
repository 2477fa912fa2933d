------------------------ MODULE MCWebSocketMiddleware ------------------------
(* Two connections, a backlog of two frames and four frames in all: the    *)
(* fewest for which an overflowing backlog is flushed in part, overflows   *)
(* again and is dropped while the other client is served.                  *)
EXTENDS WebSocketMiddleware

CONSTANTS c1, c2
=============================================================================
