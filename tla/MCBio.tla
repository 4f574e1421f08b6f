------------------------------- MODULE MCBio -------------------------------
(* Two processes, three buffers, four blocks: more blocks than buffers so  *)
(* that bget recycles, and one block the log may keep dirty.               *)
EXTENDS Bio, IdeTaskFile, TLC

CONSTANTS p1, p2, b1, b2, b3, b4

MCProcs == {p1, p2}
MCBlocks == {b1, b2, b3, b4}

(* Three blocks for the runs that check temporal properties, without symmetry. *)
MCBlocks3 == {b1, b2, b3}

(* Processes and blocks are interchangeable: every block starts as 0 on   *)
(* the disk and every process starts idle.                                 *)
MCSymmetry == Permutations(MCProcs) \cup Permutations(MCBlocks)
(* Task-file inputs: blocks and sectors on either side of each byte       *)
(* boundary of the LBA, FSSIZE as xv6's param.h sets it, block sizes of   *)
(* one, two and eight sectors, and counts up to the 256 that goes out as 0. *)
MCBsizes == {512, 1024, 4096}
MCTfBlocks == {0, 255, 256, 999, 1000}
MCTfSectors == {0, 255, 256, 65535, 65536, 2^24 - 1, 2^24, 2^28 - 1}
MCTfCounts == {1, 8, 255, 256}

\* The drivers' task files address the requested sectors (IdeTaskFile's
\* TaskFileAddressesRequest, a fact about idestart, ide_read and ide_write).
IdeAgrees == [][TaskFileAddressesRequest]_vars
=============================================================================
