-------------------------------- MODULE Bio --------------------------------
(***************************************************************************)
(* The xv6 buffer cache (src/xv6-public/bio.c) together with the IDE      *)
(* request queue that serves it (src/xv6-public/ide.c).                    *)
(*                                                                         *)
(* Processes call bread, then bwrite or log_write, then brelse on one     *)
(* block at a time.  Every step a process takes under one lock is one      *)
(* action: bget's scan under bcache.lock, acquiresleep, iderw's enqueue    *)
(* under idelock, the wake-up after ideintr, releasesleep and the         *)
(* refcnt decrement of brelse.  The disk is a separate actor whose only    *)
(* step is the completion interrupt, handled by ideintr.                  *)
(*                                                                         *)
(* Data is abstracted to a write counter: the n-th write stores the value  *)
(* n, so two writes are always told apart.                                 *)
(***************************************************************************)
EXTENDS Integers, Sequences, SequencesExt, FiniteSets

CONSTANTS
  Procs,      \* processes that use the cache
  NBUF,       \* number of buffers (param.h NBUF)
  Blocks,     \* block numbers the file system asks for
  NoBlock,    \* identity of a buffer never assigned: (dev 0, block 0) of binit's zeroed array
  NoProc,     \* sleep-lock holder of an unlocked buffer
  MaxWrites,  \* bound on the number of writes into buffers
  LOGSIZE,    \* bound the log layer puts on buffers dirty at once
  DiskErrors  \* whether the disk may report an error on a read

ASSUME NBUF \in Nat \ {0}
ASSUME NoBlock \notin Blocks /\ NoProc \notin Procs
ASSUME MaxWrites \in Nat /\ LOGSIZE \in Nat /\ DiskErrors \in BOOLEAN

VARIABLES
  blockno,    \* blockno[i]: block held by buffer i (b->dev, b->blockno)
  flags,      \* flags[i] \subseteq {B_VALID, B_DIRTY}
  refcnt,     \* refcnt[i]
  data,       \* data[i]: contents of buffer i
  lock,       \* lock[i]: holder of buffer i's sleep-lock
  lru,        \* the list from bcache.head.next to bcache.head.prev
  idequeue,   \* idequeue linked through qnext
  ideactive,  \* a command issued by idestart is in progress on the disk
  disk,       \* disk[b]: contents of block b on the disk
  pc,         \* pc[p]: where process p is
  buf,        \* buf[p]: the struct buf * process p holds (0: none)
  want,       \* want[p]: the blockno argument of p's bread
  nwrites     \* number of writes so far; the next write stores nwrites + 1

vars == <<blockno, flags, refcnt, data, lock, lru, idequeue, ideactive,
          disk, pc, buf, want, nwrites>>

Bufs == 1 .. NBUF
B_VALID == "B_VALID"
B_DIRTY == "B_DIRTY"
Values == 0 .. MaxWrites
PCs == {"idle", "acquire", "rw", "wait", "hold", "relse", "panic"}

TypeOK ==
  /\ blockno \in [Bufs -> Blocks \cup {NoBlock}]
  /\ flags \in [Bufs -> SUBSET {B_VALID, B_DIRTY}]
  /\ refcnt \in [Bufs -> 0 .. Cardinality(Procs)]
  /\ data \in [Bufs -> Values]
  /\ lock \in [Bufs -> Procs \cup {NoProc}]
  /\ lru \in Seq(Bufs) /\ Len(lru) = NBUF /\ ToSet(lru) = Bufs
  /\ idequeue \in Seq(Bufs)
  /\ ideactive \in BOOLEAN
  /\ disk \in [Blocks -> Values]
  /\ pc \in [Procs -> PCs]
  /\ buf \in [Procs -> Bufs \cup {0}]
  /\ want \in [Procs -> Blocks \cup {NoBlock}]
  /\ nwrites \in Values

(* binit: buffers are put on the list by head insertion, so buf[NBUF-1]   *)
(* ends at head.next.  The static array is zeroed: no identity, no flags. *)
Init ==
  /\ blockno = [i \in Bufs |-> NoBlock]
  /\ flags = [i \in Bufs |-> {}]
  /\ refcnt = [i \in Bufs |-> 0]
  /\ data = [i \in Bufs |-> 0]
  /\ lock = [i \in Bufs |-> NoProc]
  /\ lru = [k \in 1 .. NBUF |-> NBUF + 1 - k]
  /\ idequeue = <<>>
  /\ ideactive = FALSE
  /\ disk = [b \in Blocks |-> 0]
  /\ pc = [p \in Procs |-> "idle"]
  /\ buf = [p \in Procs |-> 0]
  /\ want = [p \in Procs |-> NoBlock]
  /\ nwrites = 0

-----------------------------------------------------------------------------
(* bget                                                                     *)

(* Mutant: a hit scan that, like iget's, skips unreferenced entries.      *)
CachedIndexPinnedOnly(b) ==
  SelectInSeq(lru, LAMBDA i : blockno[i] = b /\ refcnt[i] > 0)

(* The first buffer, from head.next, that holds block b (0 if none).      *)
CachedIndex(b) == SelectInSeq(lru, LAMBDA i : blockno[i] = b)

(* Mutant: a victim test that forgets refcnt.                             *)
RecyclableIgnoringRef(i) == B_DIRTY \notin flags[i]

(* Mutant: a victim test that forgets B_DIRTY.                            *)
RecyclableIgnoringDirty(i) == refcnt[i] = 0

(* A buffer bget may recycle: unreferenced and not dirty.                 *)
Recyclable(i) == refcnt[i] = 0 /\ B_DIRTY \notin flags[i]

(* The first recyclable buffer scanning from head.prev (0 if none).       *)
VictimIndex == SelectLastInSeq(lru, Recyclable)

(* bget, cache hit: refcnt++ under bcache.lock.                           *)
BGetHit(p, i) ==
  /\ refcnt' = [refcnt EXCEPT ![i] = @ + 1]
  /\ buf' = [buf EXCEPT ![p] = i]
  /\ pc' = [pc EXCEPT ![p] = "acquire"]
  /\ UNCHANGED <<blockno, flags, data>>

(* Mutant: recycling that leaves the victim's flags (no b->flags = 0).    *)
BGetRecycleKeepFlags(p, b, i) ==
  /\ blockno' = [blockno EXCEPT ![i] = b]
  /\ refcnt' = [refcnt EXCEPT ![i] = 1]
  /\ buf' = [buf EXCEPT ![p] = i]
  /\ pc' = [pc EXCEPT ![p] = "acquire"]
  /\ UNCHANGED <<data, flags>>

(* bget, miss: take the victim, give it block b, flags = 0, refcnt = 1.   *)
BGetRecycle(p, b, i) ==
  /\ blockno' = [blockno EXCEPT ![i] = b]
  /\ flags' = [flags EXCEPT ![i] = {}]
  /\ refcnt' = [refcnt EXCEPT ![i] = 1]
  /\ buf' = [buf EXCEPT ![p] = i]
  /\ pc' = [pc EXCEPT ![p] = "acquire"]
  /\ UNCHANGED data

(* bread(dev, b) starts with bget's scan, all under bcache.lock; bget     *)
(* panics when no buffer is recyclable.                                   *)
BGet(p, b) ==
  /\ pc[p] = "idle"
  /\ \/ /\ CachedIndex(b) # 0
        /\ BGetHit(p, lru[CachedIndex(b)])
     \/ /\ CachedIndex(b) = 0
        /\ VictimIndex # 0
        /\ BGetRecycle(p, b, lru[VictimIndex])
     \/ /\ CachedIndex(b) = 0
        /\ VictimIndex = 0
        /\ pc' = [pc EXCEPT ![p] = "panic"]
        /\ UNCHANGED <<blockno, flags, refcnt, data, buf>>
  /\ want' = [want EXCEPT ![p] = b]
  /\ UNCHANGED <<lock, lru, idequeue, ideactive, disk, nwrites>>

(* acquiresleep(&b->lock) at the end of bget; bread then calls iderw      *)
(* unless B_VALID is set.                                                 *)
AcquireSleep(p) ==
  /\ pc[p] = "acquire"
  /\ lock[buf[p]] = NoProc
  /\ lock' = [lock EXCEPT ![buf[p]] = p]
  /\ pc' = [pc EXCEPT ![p] = IF B_VALID \in flags[buf[p]] THEN "hold" ELSE "rw"]
  /\ UNCHANGED <<blockno, flags, refcnt, data, lru, idequeue, ideactive,
                 disk, buf, nwrites, want>>

-----------------------------------------------------------------------------
(* The IDE driver                                                           *)

(* Mutant: idestart that always issues a read command.                   *)
IdeStartReadOnly(i) ==
  /\ ideactive' = TRUE
  /\ UNCHANGED disk

(* idestart(b): issue the command for b.  For a dirty buffer the data is  *)
(* sent with the command (outsl), so the disk holds it from here on.      *)
IdeStart(i) ==
  /\ ideactive' = TRUE
  /\ disk' = IF B_DIRTY \in flags[i] THEN [disk EXCEPT ![blockno[i]] = data[i]]
                                     ELSE disk

(* iderw(b) up to its sleep: append b to idequeue, start the disk if b is *)
(* alone in the queue.  It panics when there is nothing to do.            *)
IdeRW(p) ==
  LET i == buf[p] IN
  /\ pc[p] = "rw"
  /\ flags[i] \cap {B_VALID, B_DIRTY} # {B_VALID}
  /\ idequeue' = Append(idequeue, i)
  /\ IF idequeue = <<>> THEN IdeStart(i) ELSE UNCHANGED <<ideactive, disk>>
  /\ pc' = [pc EXCEPT ![p] = "wait"]
  /\ UNCHANGED <<blockno, flags, refcnt, data, lock, lru, buf, nwrites, want>>

(* Mutant: ideintr that does not start the next queued request.         *)
IdeIntrNoRestart ==
  LET i == Head(idequeue) IN
  /\ ideactive
  /\ idequeue # <<>>
  /\ data' = IF B_DIRTY \notin flags[i] THEN [data EXCEPT ![i] = disk[blockno[i]]]
                                         ELSE data
  /\ flags' = [flags EXCEPT ![i] = (@ \cup {B_VALID}) \ {B_DIRTY}]
  /\ idequeue' = Tail(idequeue)
  /\ ideactive' = FALSE
  /\ UNCHANGED <<disk, blockno, refcnt, lock, lru, pc, buf, nwrites, want>>

(* ideintr: the disk has finished the head request.  A read copies the    *)
(* sector in unless idewait(1) reports an error; either way the buffer    *)
(* becomes B_VALID and not B_DIRTY.  The next queued request is started.  *)
IdeIntr ==
  LET i == Head(idequeue)
      rest == Tail(idequeue)
  IN
  /\ ideactive
  /\ idequeue # <<>>
  /\ \E diskerr \in IF DiskErrors THEN BOOLEAN ELSE {FALSE} :
       data' = IF B_DIRTY \notin flags[i] /\ ~diskerr
                 THEN [data EXCEPT ![i] = disk[blockno[i]]]
                 ELSE data
  /\ flags' = [flags EXCEPT ![i] = (@ \cup {B_VALID}) \ {B_DIRTY}]
  /\ idequeue' = rest
  /\ IF rest # <<>>
       THEN IdeStart(Head(rest))
       ELSE /\ ideactive' = FALSE
            /\ UNCHANGED disk
  /\ UNCHANGED <<blockno, refcnt, lock, lru, pc, buf, nwrites, want>>

(* The sleeper of iderw wakes and finds B_VALID set and B_DIRTY clear.    *)
IdeDone(p) ==
  /\ pc[p] = "wait"
  /\ flags[buf[p]] \cap {B_VALID, B_DIRTY} = {B_VALID}
  /\ pc' = [pc EXCEPT ![p] = "hold"]
  /\ UNCHANGED <<blockno, flags, refcnt, data, lock, lru, idequeue, ideactive,
                 disk, buf, nwrites, want>>

-----------------------------------------------------------------------------
(* Writing a held buffer                                                    *)

(* A caller changes the data (or, like the log's install step, rewrites   *)
(* what it holds) and calls bwrite: B_DIRTY is set, then iderw.           *)
BWrite(p) ==
  LET i == buf[p] IN
  /\ pc[p] = "hold"
  /\ \E v \in {data[i], nwrites + 1} \cap Values :
       /\ data' = [data EXCEPT ![i] = v]
       /\ nwrites' = IF v = data[i] THEN nwrites ELSE v
  /\ flags' = [flags EXCEPT ![i] = @ \cup {B_DIRTY}]
  /\ pc' = [pc EXCEPT ![p] = "rw"]
  /\ UNCHANGED <<blockno, refcnt, lock, lru, idequeue, ideactive, disk, buf, want>>

(* log_write (log.c, not in this source tree): the change is recorded in  *)
(* the log and the buffer stays dirty, hence unevictable, until the log   *)
(* installs it.  begin_op keeps at most LOGSIZE blocks in the log.        *)
LogWrite(p) ==
  LET i == buf[p] IN
  /\ pc[p] = "hold"
  /\ nwrites < MaxWrites
  /\ Cardinality({j \in Bufs : B_DIRTY \in flags[j]} \cup {i}) <= LOGSIZE
  /\ data' = [data EXCEPT ![i] = nwrites + 1]
  /\ nwrites' = nwrites + 1
  /\ flags' = [flags EXCEPT ![i] = @ \cup {B_DIRTY}]
  /\ UNCHANGED <<blockno, refcnt, lock, lru, idequeue, ideactive, disk, pc, buf, want>>

-----------------------------------------------------------------------------
(* brelse                                                                   *)

(* releasesleep(&b->lock).                                                 *)
ReleaseSleep(p) ==
  /\ pc[p] = "hold"
  /\ lock' = [lock EXCEPT ![buf[p]] = NoProc]
  /\ pc' = [pc EXCEPT ![p] = "relse"]
  /\ UNCHANGED <<blockno, flags, refcnt, data, lru, idequeue, ideactive,
                 disk, buf, nwrites, want>>

(* Mutant: moving to the front without unlinking from the old place.    *)
MoveToFrontNoUnlink(i) == <<i>> \o lru

(* The list with buffer i moved to head.next.                             *)
MoveToFront(i) == <<i>> \o SelectSeq(lru, LAMBDA j : j # i)

(* Mutant: brelse that never drops the reference.                        *)
BRelseNoDecrement(p) ==
  /\ pc[p] = "relse"
  /\ buf' = [buf EXCEPT ![p] = 0]
  /\ pc' = [pc EXCEPT ![p] = "idle"]
  /\ want' = [want EXCEPT ![p] = NoBlock]
  /\ UNCHANGED <<blockno, flags, refcnt, data, lock, lru, idequeue, ideactive,
                 disk, nwrites>>

(* Under bcache.lock: refcnt--, and at zero the buffer becomes the most   *)
(* recently used.                                                          *)
BRelse(p) ==
  LET i == buf[p] IN
  /\ pc[p] = "relse"
  /\ refcnt' = [refcnt EXCEPT ![i] = @ - 1]
  /\ lru' = IF refcnt[i] - 1 = 0 THEN MoveToFront(i) ELSE lru
  /\ buf' = [buf EXCEPT ![p] = 0]
  /\ pc' = [pc EXCEPT ![p] = "idle"]
  /\ want' = [want EXCEPT ![p] = NoBlock]
  /\ UNCHANGED <<blockno, flags, data, lock, idequeue, ideactive, disk, nwrites>>

-----------------------------------------------------------------------------
Next ==
  \/ \E p \in Procs, b \in Blocks : BGet(p, b)
  \/ \E p \in Procs :
       \/ AcquireSleep(p)
       \/ IdeRW(p)
       \/ IdeDone(p)
       \/ BWrite(p)
       \/ LogWrite(p)
       \/ ReleaseSleep(p)
       \/ BRelse(p)
  \/ IdeIntr

(* The disk always completes a started command and raises its interrupt,  *)
(* and a process that has been woken, or that can take the next step of   *)
(* iderw, is eventually scheduled.                                        *)
Fairness ==
  /\ WF_vars(IdeIntr)
  /\ \A p \in Procs : WF_vars(IdeRW(p)) /\ WF_vars(IdeDone(p))

Spec == Init /\ [][Next]_vars /\ Fairness

-----------------------------------------------------------------------------
(* Properties                                                               *)

(* bget's hit scan runs over every buffer, referenced or not, before it   *)
(* recycles one, so no two buffers ever hold the same block: two cached   *)
(* copies of a block could diverge.                                       *)
UniqueBlock ==
  \A i, j \in Bufs : i # j /\ blockno[i] = blockno[j] => blockno[i] = NoBlock

(* A buffer bget handed out keeps the block it was asked for until its    *)
(* holder's brelse, whatever other processes do between bget's release of *)
(* bcache.lock and acquiresleep, or while the holder sleeps in iderw:     *)
(* refcnt > 0 keeps the victim scan away from it.                          *)
PinnedBufferKeepsIdentity ==
  \A p \in Procs : buf[p] # 0 => blockno[buf[p]] = want[p]

(* A buffer that is valid and not dirty mirrors the disk: what bread      *)
(* returns from the cache is what a read of the disk would return.  It    *)
(* breaks if recycling keeps stale flags or data, or if ideintr marks a   *)
(* buffer valid without its data.                                         *)
CleanBufferMatchesDisk ==
  \A i \in Bufs : flags[i] = {B_VALID} => data[i] = disk[blockno[i]]

(* bget never panics with "no buffers" as long as NBUF covers one buffer  *)
(* per process plus the blocks the log keeps dirty.                        *)
NoBgetPanic == \A p \in Procs : pc[p] # "panic"

(* Every process asleep in iderw is eventually woken with its request     *)
(* done: ideintr always starts the next queued request.                   *)
IoCompletes == \A p \in Procs : pc[p] = "wait" ~> pc[p] = "hold"

(* Refinement mapping to BlockStore: a block's contents are those of the  *)
(* buffer holding it when that buffer has been read or written, else the  *)
(* disk's; its owner is the holder of that buffer's sleep-lock.            *)
BufOf(b) == CHOOSE i \in Bufs : blockno[i] = b

Cached(b) == \E i \in Bufs : blockno[i] = b

AbsMem ==
  [b \in Blocks |->
     IF Cached(b) /\ flags[BufOf(b)] # {} THEN data[BufOf(b)] ELSE disk[b]]

AbsOwner ==
  [b \in Blocks |-> IF Cached(b) THEN lock[BufOf(b)] ELSE NoProc]

Abstract == INSTANCE BlockStore WITH mem <- AbsMem, owner <- AbsOwner

(* The cache implements a store of exclusively used blocks that never     *)
(* loses or invents a write.                                               *)
ImplementsBlockStore == Abstract!Spec

=============================================================================
