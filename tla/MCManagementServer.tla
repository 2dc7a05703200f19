------------------------- MODULE MCManagementServer -------------------------
(* An instance of ManagementServer for TLC: two Ambient servers, of which one *)
(* may hold up the other's handshake and events, one HTTP handler, one player. *)
EXTENDS ManagementServer

CONSTANTS s1, s2, h1, p1

MCServers == {s1, s2}

MCHandlers == {h1}
=============================================================================
