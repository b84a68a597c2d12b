--------------------------- MODULE MCSelectServer ---------------------------
(* SelectServer for TLC. *)
EXTENDS SelectServer, MCServer
=============================================================================
