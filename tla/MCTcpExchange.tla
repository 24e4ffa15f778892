---------------------------- MODULE MCTcpExchange ----------------------------
(* Checks TcpExchange; the configuration gives the constants their values. *)
EXTENDS TcpExchange
=============================================================================
