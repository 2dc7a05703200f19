------------------------------ MODULE MCTunnel ------------------------------
(* An instance of Tunnel for TLC. *)
EXTENDS Tunnel

CONSTANTS p1, p2
=============================================================================
