--------------------------- MODULE MCEpollServer ---------------------------
(* EpollServer for TLC. *)
EXTENDS EpollServer, MCServer
=============================================================================
