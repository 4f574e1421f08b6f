----------------------------- MODULE InodeData -----------------------------
(***************************************************************************)
(* File contents in xv6 (fs.c): the block bitmap (balloc, bfree, bzero),  *)
(* bmap's direct and indirect block map, writei's block-by-block copy and *)
(* itrunc.  Each inode is worked on by the one process holding its        *)
(* sleep-lock (ilock), so a process is named by its inode; processes on   *)
(* different inodes share the bitmap, whose buffer's sleep-lock makes     *)
(* balloc's scan-and-set and bfree's test-and-clear single steps.         *)
(*                                                                         *)
(* Sizes are scaled down: a block holds BSIZE bytes, an indirect block    *)
(* holds NINDIRECT = BSIZE addresses (one per byte).  Every byte and every *)
(* address is a number; the process of inode i writes the byte i, so a    *)
(* block's contents say who wrote them and an address read from a block  *)
(* that was never zeroed is whatever stale number it holds.               *)
(***************************************************************************)
EXTENDS Integers, FiniteSets, FiniteSetsExt

CONSTANTS
  Inodes,     \* inode numbers, each with its writer process
  NB,         \* data blocks 1..NB (0 is "no block" in an address)
  BSIZE,      \* bytes per block
  NDIRECT,    \* direct addresses per inode
  WriteLens   \* the n arguments writei is called with

ASSUME Inodes \subseteq 1..NB

NINDIRECT == BSIZE
MAXFILE == NDIRECT + NINDIRECT
Blocks == 1..NB
Bytes == 0..BSIZE-1
Zeros == [k \in Bytes |-> 0]

VARIABLES
  bitmap,   \* the free-block bitmap: 1 = in use
  data,     \* each block's contents
  addrs,    \* ip->addrs[0..NDIRECT]; index NDIRECT is the indirect block
  size,     \* ip->size
  pc, off, end, addr, idx   \* per process: writei's off and off+n, the
                            \* block balloc returned, itrunc's loop index

vars == <<bitmap, data, addrs, size, pc, off, end, addr, idx>>

PCs == {"idle", "w_bmap", "w_zero_dir", "w_zero_ind", "w_zero_ent", "w_copy",
        "t_dir", "t_ind", "t_ent", "t_indblk",
        "panic_balloc", "panic_bfree"}

TypeOK ==
  /\ bitmap \in [Blocks -> {0, 1}]
  /\ data \in [Blocks -> [Bytes -> 0..NB]]
  /\ addrs \in [Inodes -> [0..NDIRECT -> 0..NB]]
  /\ size \in [Inodes -> 0..MAXFILE * BSIZE]
  /\ pc \in [Inodes -> PCs]
  /\ off \in [Inodes -> 0..MAXFILE * BSIZE]
  /\ end \in [Inodes -> 0..MAXFILE * BSIZE]
  /\ addr \in [Inodes -> 0..NB]
  /\ idx \in [Inodes -> 0..MAXFILE]

\* mkfs: every data block free and zeroed, every inode empty.
Init ==
  /\ bitmap = [b \in Blocks |-> 0]
  /\ data = [b \in Blocks |-> Zeros]
  /\ addrs = [i \in Inodes |-> [k \in 0..NDIRECT |-> 0]]
  /\ size = [i \in Inodes |-> 0]
  /\ pc = [i \in Inodes |-> "idle"]
  /\ off = [i \in Inodes |-> 0]
  /\ end = [i \in Inodes |-> 0]
  /\ addr = [i \in Inodes |-> 0]
  /\ idx = [i \in Inodes |-> 0]

Goto(i, l) == pc' = [pc EXCEPT ![i] = l]

\* The block number bmap is asked for, and where its address lives.
Bn(i) == off[i] \div BSIZE
Ind(i) == addrs[i][NDIRECT]
Entry(i) == Bn(i) - NDIRECT

FreeBlocks == {b \in Blocks : bitmap[b] = 0}

(***************************************************************************)
(* balloc: the first block whose bit is clear gets its bit set (one step  *)
(* under the bitmap buffer's lock); bzero is a later step.                *)
(***************************************************************************)
BallocNextBlock(i, next) ==
  /\ FreeBlocks # {}
  /\ bitmap' = [bitmap EXCEPT ![Min(FreeBlocks)] = 1]
  /\ addr' = [addr EXCEPT ![i] = Min(FreeBlocks) + 1]
  /\ Goto(i, next)

Balloc(i, next) ==
  /\ FreeBlocks # {}
  /\ bitmap' = [bitmap EXCEPT ![Min(FreeBlocks)] = 1]
  /\ addr' = [addr EXCEPT ![i] = Min(FreeBlocks)]
  /\ Goto(i, next)

\* bfree: panics ("freeing free block") on a block whose bit is clear,
\* else clears it; either way process i goes on to next or halts.
Bfree(i, b, next) ==
  IF bitmap[b] = 0
    THEN Goto(i, "panic_bfree") /\ UNCHANGED bitmap
    ELSE bitmap' = [bitmap EXCEPT ![b] = 0] /\ Goto(i, next)

(***************************************************************************)
(* bmap(ip, off/BSIZE) inside writei's loop: the address if present, or   *)
(* balloc for the direct slot, the indirect block, or the indirect entry. *)
(* bmap's panic past MAXFILE is stated as the invariant NoBmapOutOfRange. *)
(***************************************************************************)
Lookup(i) ==
  IF Bn(i) < NDIRECT THEN addrs[i][Bn(i)]
  ELSE IF Ind(i) = 0 THEN 0 ELSE data[Ind(i)][Entry(i)]

BmapHit(i) ==
  /\ pc[i] = "w_bmap"
  /\ Bn(i) < MAXFILE
  /\ Lookup(i) # 0
  /\ addr' = [addr EXCEPT ![i] = Lookup(i)]
  /\ Goto(i, "w_copy")
  /\ UNCHANGED <<bitmap, data, addrs, size, off, end, idx>>

BmapAlloc(i) ==
  /\ pc[i] = "w_bmap"
  /\ Bn(i) < MAXFILE
  /\ Lookup(i) = 0
  /\ Balloc(i, IF Bn(i) < NDIRECT THEN "w_zero_dir"
               ELSE IF Ind(i) = 0 THEN "w_zero_ind" ELSE "w_zero_ent")
  /\ UNCHANGED <<data, addrs, size, off, end, idx>>

BallocPanic(i) ==
  /\ pc[i] = "w_bmap"
  /\ Bn(i) < MAXFILE
  /\ Lookup(i) = 0
  /\ FreeBlocks = {}
  /\ Goto(i, "panic_balloc")
  /\ UNCHANGED <<bitmap, data, addrs, size, off, end, addr, idx>>

\* bzero(dev, b), then the address is stored: in ip->addrs for a direct
\* block or the indirect block (whose entry bmap then looks up afresh), or
\* in the indirect block's entry (a[bn] = addr; log_write).
BzeroDirect(i) ==
  /\ pc[i] = "w_zero_dir"
  /\ data' = [data EXCEPT ![addr[i]] = Zeros]
  /\ addrs' = [addrs EXCEPT ![i][Bn(i)] = addr[i]]
  /\ Goto(i, "w_copy")
  /\ UNCHANGED <<bitmap, size, off, end, addr, idx>>

BzeroIndirectNoZero(i) ==
  /\ pc[i] = "w_zero_ind"
  /\ addrs' = [addrs EXCEPT ![i][NDIRECT] = addr[i]]
  /\ Goto(i, "w_bmap")
  /\ UNCHANGED <<bitmap, data, size, off, end, addr, idx>>

BzeroIndirect(i) ==
  /\ pc[i] = "w_zero_ind"
  /\ data' = [data EXCEPT ![addr[i]] = Zeros]
  /\ addrs' = [addrs EXCEPT ![i][NDIRECT] = addr[i]]
  /\ Goto(i, "w_bmap")
  /\ UNCHANGED <<bitmap, size, off, end, addr, idx>>

BzeroEntry(i) ==
  /\ pc[i] = "w_zero_ent"
  /\ data' = [data EXCEPT ![addr[i]] = Zeros, ![Ind(i)][Entry(i)] = addr[i]]
  /\ Goto(i, "w_copy")
  /\ UNCHANGED <<bitmap, addrs, size, off, end, addr, idx>>

(***************************************************************************)
(* writei(ip, src, off, n): rejected (changing nothing) when off > size or *)
(* off + n > MAXFILE*BSIZE; else, block by block, bmap then copy          *)
(* m = min(n - tot, BSIZE - off%BSIZE) bytes and log_write; after the     *)
(* loop, if off grew past size, size = off and iupdate.                   *)
(***************************************************************************)
WriteBeginNoMaxCheck(i, o, n) ==
  /\ pc[i] = "idle"
  /\ o <= size[i]
  /\ off' = [off EXCEPT ![i] = o]
  /\ end' = [end EXCEPT ![i] = o + n]
  /\ Goto(i, "w_bmap")
  /\ UNCHANGED <<bitmap, data, addrs, size, addr, idx>>

WriteBegin(i, o, n) ==
  /\ pc[i] = "idle"
  /\ o <= size[i]
  /\ o + n <= MAXFILE * BSIZE
  /\ off' = [off EXCEPT ![i] = o]
  /\ end' = [end EXCEPT ![i] = o + n]
  /\ Goto(i, "w_bmap")
  /\ UNCHANGED <<bitmap, data, addrs, size, addr, idx>>

CopyChunkNoOffset(i) == Min({end[i] - off[i], BSIZE})

CopyChunk(i) == Min({end[i] - off[i], BSIZE - (off[i] % BSIZE)})

Copy(i) ==
  LET m == CopyChunk(i)
      first == off[i] % BSIZE
  IN
  /\ pc[i] = "w_copy"
  /\ data' = [data EXCEPT ![addr[i]] =
                [k \in Bytes |-> IF first <= k /\ k < first + m THEN i ELSE @[k]]]
  /\ off' = [off EXCEPT ![i] = @ + m]
  /\ IF off[i] + m < end[i]
       THEN Goto(i, "w_bmap") /\ UNCHANGED size
       ELSE /\ size' = [size EXCEPT ![i] = IF off[i] + m > @ THEN off[i] + m ELSE @]
            /\ Goto(i, "idle")
  /\ UNCHANGED <<bitmap, addrs, end, addr, idx>>

(***************************************************************************)
(* itrunc (from iput freeing the inode): bfree each direct block and      *)
(* clear its address; then, if there is an indirect block, bfree each     *)
(* nonzero entry (the entries are left as they are), bfree the indirect   *)
(* block and clear its address; size = 0 and iupdate.                     *)
(***************************************************************************)
TruncBegin(i) ==
  /\ pc[i] = "idle"
  /\ idx' = [idx EXCEPT ![i] = 0]
  /\ Goto(i, "t_dir")
  /\ UNCHANGED <<bitmap, data, addrs, size, off, end, addr>>

TruncDirect(i) ==
  LET b == addrs[i][idx[i]]
      next == IF idx[i] + 1 = NDIRECT THEN "t_ind" ELSE "t_dir"
  IN
  /\ pc[i] = "t_dir"
  /\ IF b # 0
       THEN /\ Bfree(i, b, next)
            /\ addrs' = [addrs EXCEPT ![i][idx[i]] = 0]
       ELSE Goto(i, next) /\ UNCHANGED <<bitmap, addrs>>
  /\ idx' = [idx EXCEPT ![i] = @ + 1]
  /\ UNCHANGED <<data, size, off, end, addr>>

TruncIndirect(i) ==
  /\ pc[i] = "t_ind"
  /\ idx' = [idx EXCEPT ![i] = 0]
  /\ IF Ind(i) # 0
       THEN Goto(i, "t_ent") /\ UNCHANGED size
       ELSE size' = [size EXCEPT ![i] = 0] /\ Goto(i, "idle")
  /\ UNCHANGED <<bitmap, data, addrs, off, end, addr>>

TruncEntry(i) ==
  LET b == data[Ind(i)][idx[i]]
      next == IF idx[i] + 1 = NINDIRECT THEN "t_indblk" ELSE "t_ent"
  IN
  /\ pc[i] = "t_ent"
  /\ IF b # 0 THEN Bfree(i, b, next) ELSE Goto(i, next) /\ UNCHANGED bitmap
  /\ idx' = [idx EXCEPT ![i] = @ + 1]
  /\ UNCHANGED <<data, addrs, size, off, end, addr>>

TruncIndBlockLeak(i) ==
  /\ pc[i] = "t_indblk"
  /\ addrs' = [addrs EXCEPT ![i][NDIRECT] = 0]
  /\ size' = [size EXCEPT ![i] = 0]
  /\ Goto(i, "idle")
  /\ UNCHANGED <<bitmap, data, off, end, addr, idx>>

TruncIndBlock(i) ==
  /\ pc[i] = "t_indblk"
  /\ Bfree(i, Ind(i), "idle")
  /\ addrs' = [addrs EXCEPT ![i][NDIRECT] = 0]
  /\ size' = [size EXCEPT ![i] = 0]
  /\ UNCHANGED <<data, off, end, addr, idx>>

\* A panic stops the kernel.
Halted == \E i \in Inodes : pc[i] \in {"panic_balloc", "panic_bfree"}

Step(i) ==
  \/ \E o \in 0..MAXFILE * BSIZE, n \in WriteLens : WriteBegin(i, o, n)
  \/ BmapHit(i) \/ BmapAlloc(i) \/ BallocPanic(i)
  \/ BzeroDirect(i) \/ BzeroIndirect(i) \/ BzeroEntry(i) \/ Copy(i)
  \/ TruncBegin(i) \/ TruncDirect(i) \/ TruncIndirect(i) \/ TruncEntry(i)
  \/ TruncIndBlock(i)

Stopped == Halted /\ UNCHANGED vars

Next == (~Halted /\ \E i \in Inodes : Step(i)) \/ Stopped

Spec == Init /\ [][Next]_vars

-----------------------------------------------------------------------------
(***************************************************************************)
(* Properties                                                              *)
(***************************************************************************)

\* The places that hold a block number: direct slots, the indirect block,
\* its entries not yet freed by a running itrunc, and a block balloc has
\* handed out that bmap has not yet stored.
Truncated(i, j) == (pc[i] = "t_ent" /\ j < idx[i]) \/ pc[i] = "t_indblk"

RefSlots ==
  UNION {
    {<<i, "d", k>> : k \in {k \in 0..NDIRECT-1 : addrs[i][k] # 0}}
    \cup (IF Ind(i) # 0 THEN {<<i, "ind", 0>>} ELSE {})
    \cup (IF Ind(i) # 0
            THEN {<<i, "e", j>> : j \in {j \in 0..NINDIRECT-1 :
                                           data[Ind(i)][j] # 0 /\ ~Truncated(i, j)}}
            ELSE {})
    \cup (IF pc[i] \in {"w_zero_dir", "w_zero_ind", "w_zero_ent"}
            THEN {<<i, "new", 0>>} ELSE {})
    : i \in Inodes}

Ref(s) ==
  LET i == s[1] IN
  CASE s[2] = "d"   -> addrs[i][s[3]]
    [] s[2] = "ind" -> Ind(i)
    [] s[2] = "e"   -> data[Ind(i)][s[3]]
    [] s[2] = "new" -> addr[i]

\* No block is used twice, by one inode or two: balloc hands out only
\* clear bits and bzero wipes the stale addresses an indirect block held.
NoSharedBlock ==
  \A s, t \in RefSlots : s # t => Ref(s) # Ref(t)

\* The bitmap's set bits are exactly the blocks some inode uses: itrunc
\* frees everything bmap allocated, and nothing else (no leak, no block
\* in use with a clear bit for balloc to hand out again).
BitmapExact ==
  {b \in Blocks : bitmap[b] = 1} = {Ref(s) : s \in RefSlots}

\* Every byte below an inode's size, read through bmap's map, is one its
\* own writei wrote (writei never leaves a hole, since off <= size).
BlockOf(i, k) ==
  LET bn == k \div BSIZE IN
  IF bn < NDIRECT THEN addrs[i][bn]
  ELSE IF Ind(i) = 0 THEN 0 ELSE data[Ind(i)][bn - NDIRECT]

FileHoldsOwnData ==
  \A i \in Inodes :
    pc[i] \notin {"t_dir", "t_ind", "t_ent", "t_indblk"} =>
      \A k \in 0..size[i]-1 :
        BlockOf(i, k) # 0 /\ data[BlockOf(i, k)][k % BSIZE] = i

\* writei's bound off + n <= MAXFILE*BSIZE keeps bmap inside the inode's
\* map ("bmap: out of range" never fires).
NoBmapOutOfRange == \A i \in Inodes : pc[i] = "w_bmap" => Bn(i) < MAXFILE
====
