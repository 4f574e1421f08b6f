----------------------------- MODULE BlockStore -----------------------------
(***************************************************************************)
(* What the buffer cache promises its callers (bio.c's header comment):   *)
(* a disk of blocks, each used by one process at a time.  bread hands a    *)
(* process exclusive use of a block, whose contents are the last ones     *)
(* written by anyone; bwrite/log_write change them; brelse gives the      *)
(* block up.  A process uses one block at a time.                          *)
(***************************************************************************)
CONSTANTS Procs, Blocks, NoProc, Values

VARIABLES mem, owner

Init ==
  /\ mem = [b \in Blocks |-> 0]
  /\ owner = [b \in Blocks |-> NoProc]

Acquire(p, b) ==
  /\ owner[b] = NoProc
  /\ \A c \in Blocks : owner[c] # p
  /\ owner' = [owner EXCEPT ![b] = p]
  /\ UNCHANGED mem

Write(p, b, v) ==
  /\ owner[b] = p
  /\ mem' = [mem EXCEPT ![b] = v]
  /\ UNCHANGED owner

Release(p, b) ==
  /\ owner[b] = p
  /\ owner' = [owner EXCEPT ![b] = NoProc]
  /\ UNCHANGED mem

Next ==
  \E p \in Procs, b \in Blocks :
    \/ Acquire(p, b)
    \/ \E v \in Values : Write(p, b, v)
    \/ Release(p, b)

Spec == Init /\ [][Next]_<<mem, owner>>

=============================================================================
