--------------------------- MODULE MCReservations ---------------------------
(* Small instances of Reservations for TLC: a file and a glob over it, or the *)
(* file, and a virtual name.                                                  *)
EXTENDS Reservations, TLC
CONSTANTS a1, a2, file, glob, tool

SymmetricAgents == Permutations({a1, a2})
FileAndGlob == {<<file, file>>, <<glob, glob>>, <<glob, file>>}
FileAlone == {<<file, file>>}
FileAndTool == {<<file, file>>, <<tool, tool>>}
=============================================================================
