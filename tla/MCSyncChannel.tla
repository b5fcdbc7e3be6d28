----------------------------- MODULE MCSyncChannel -----------------------------
(* SyncChannel for TLC: two peers that lose their first connection, a FIFO    *)
(* that just holds the two messages a peer can have outstanding, and an error *)
(* limit of one.                                                              *)
EXTENDS SyncChannel
================================================================================
