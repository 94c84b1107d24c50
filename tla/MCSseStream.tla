----------------------------- MODULE MCSseStream -----------------------------
(* Instances of SseStream for TLC. *)
EXTENDS SseStream

(* Horizon opens a stream with a data block "hello" that carries a retry,  *)
(* and keeps it alive with blocks that carry no data.                      *)
MCHello == [id |-> NoId, data |-> TRUE, retry |-> 10]
MCKeepAlive == [id |-> NoId, data |-> FALSE, retry |-> 20]
MCChatter == {MCHello, MCKeepAlive}
MCCursors == {NoCursor, Now, 1}
=============================================================================
