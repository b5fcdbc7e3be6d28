---------------------------- MODULE MCLockFreeFifo ----------------------------
(* LockFreeFifo for TLC: an 8-byte ring under cursors that wrap at 16, with  *)
(* 2-byte heads, so that heads and payloads are split at the end of the ring *)
(* and cursors wrap in the middle of a message.                              *)
EXTENDS LockFreeFifo
===============================================================================
