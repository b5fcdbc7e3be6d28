----------------------------- MODULE MCTcpFraming -----------------------------
(* TcpFraming for TLC: messages of two to four bytes through a connection    *)
(* that holds three, so that a message can be cut anywhere.                  *)
EXTENDS TcpFraming
===============================================================================
