---------------------------- MODULE MCTcpService ----------------------------
(* TcpService with a few connections.                                      *)
EXTENDS TcpService
=============================================================================
