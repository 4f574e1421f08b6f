---------------------------- MODULE MCFileTable ----------------------------
(***************************************************************************)
(* FileTable for TLC: two processes, two file slots, two descriptors per   *)
(* process, a file of at most 3 bytes and writes of at most 2 bytes in    *)
(* chunks of 1, so a write can be cut off by MAXFILE after its first      *)
(* chunk and two writers' chunks can interleave.                           *)
(***************************************************************************)
EXTENDS FileTable, TLC

CONSTANTS p1, p2

MCProcs == {p1, p2}

\* Processes are interchangeable: no step tells them apart by name.
MCSymmetry == Permutations(MCProcs)
====
