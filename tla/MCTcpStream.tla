----------------------------- MODULE MCTcpStream -----------------------------
(* Bounds for TLC are plain numbers, given in the configurations. *)
EXTENDS TcpStream
=============================================================================
