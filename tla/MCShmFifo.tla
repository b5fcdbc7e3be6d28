------------------------------- MODULE MCShmFifo -------------------------------
(* ShmFifo for TLC, on the ring of MCLockFreeFifo.                            *)
EXTENDS ShmFifo
================================================================================
