---------------------------- MODULE MCTcpServer ----------------------------
(* TcpServer for TLC: two peers, two descriptors and a send buffer that    *)
(* blocks after one byte.                                                  *)
EXTENDS TcpServer

=============================================================================
