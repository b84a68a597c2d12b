---------------------------- MODULE MCOpenFiles ----------------------------
(* Values of the constants of OpenFiles for TLC. *)
EXTENDS OpenFiles, TLC

MCClients == {5, 6}
MCSizes == {0, 1, 2}
MCAbsent == -1
AllFaults == {"edit", "stale_close"}
FileSymmetry == Permutations(Streams) \cup Permutations(Names)
=============================================================================
