----------------------------- MODULE IdeTaskFile -----------------------------
(***************************************************************************)
(* The ATA task file the PIO IDE drivers write: xv6's idestart (ide.c)    *)
(* and JOS's ide_read and ide_write (lab6 fs/ide.c), with the status      *)
(* loop of idewait / ide_wait_ready and JOS's per-sector transfer loop.   *)
(* A request is a sequence of outb's to 8-bit ports; the model computes  *)
(* the register values those writes leave, bit field by bit field, and   *)
(* checks them against the drive's LBA28 decoding of the registers.  Bio  *)
(* takes idestart as addressing blockno; this is what justifies it.      *)
(* Port reads and writes of data (insl, outsl) move a sector each and are *)
(* counted, not modelled byte by byte.                                    *)
(***************************************************************************)
EXTENDS Integers, Sequences

CONSTANTS
  FSSIZE,       \* param.h: blocks in the file system, idestart's bound
  Bsizes,       \* block sizes idestart is checked with (fs.h BSIZE is 512)
  TfBlocks,     \* block numbers given to idestart
  TfSectors,    \* sector numbers given to ide_read and ide_write
  TfCounts      \* sector counts given to them

SECTOR_SIZE == 512
IDE_CMD_READ == 32     \* 0x20
IDE_CMD_WRITE == 48    \* 0x30
IDE_CMD_RDMUL == 196   \* 0xc4
IDE_CMD_WRMUL == 197   \* 0xc5

\* Bit i of v, and (v >> lo) & (2^w - 1).
Bit(v, i) == (v \div 2^i) % 2
Field(v, lo, w) == (v \div 2^lo) % 2^w

\* outb: an 8-bit port keeps the low byte of the value written.
Outb(v) == v % 256

TaskFileLba2Shift8(count, sector, dev, cmd) ==
  [nsect |-> Outb(count),
   lba0 |-> Outb(Field(sector, 0, 8)),
   lba1 |-> Outb(Field(sector, 8, 8)),
   lba2 |-> Outb(Field(sector, 8, 8)),
   drive |-> Outb(224 + Field(dev, 0, 1) * 16 + Field(sector, 24, 4)),
   cmd |-> cmd]

\* Ports 0x1f2..0x1f7 after a request's outb's.  0xe0 | (dev&1)<<4 |
\* (sector>>24)&0x0f ORs disjoint bit fields, which is their sum.
TaskFile(count, sector, dev, cmd) ==
  [nsect |-> Outb(count),
   lba0 |-> Outb(Field(sector, 0, 8)),
   lba1 |-> Outb(Field(sector, 8, 8)),
   lba2 |-> Outb(Field(sector, 16, 8)),
   drive |-> Outb(224 + Field(dev, 0, 1) * 16 + Field(sector, 24, 4)),
   cmd |-> cmd]

\* idewait / ide_wait_ready: the loop spins until BSY is clear and DRDY
\* set; with checkerr, DF or ERR in that status is -1.
WaitEnds(r) == Bit(r, 7) = 0 /\ Bit(r, 6) = 1
WaitReady(r, checkerr) ==
  IF checkerr /\ (Bit(r, 5) = 1 \/ Bit(r, 0) = 1) THEN -1 ELSE 0

\* idestart(b): the panics, the sector and command for the block size,
\* and the task file (the wait before it changes nothing).
IdestartRegs(bno, dev, dirty, bsize) ==
  LET spb == bsize \div SECTOR_SIZE
      cmd == IF dirty THEN IF spb = 1 THEN IDE_CMD_WRITE ELSE IDE_CMD_WRMUL
                      ELSE IF spb = 1 THEN IDE_CMD_READ ELSE IDE_CMD_RDMUL
  IN IF bno >= FSSIZE \/ spb > 7 THEN [panic |-> TRUE]
     ELSE [panic |-> FALSE, tf |-> TaskFile(spb, bno * spb, dev, cmd)]

RECURSIVE SectorLoop(_)
\* for (; nsecs > 0; nsecs--): ide_wait_ready(1) on the sector's status,
\* returning its error at once, else insl/outsl of one sector.
SectorLoop(sts) ==
  IF sts = <<>> THEN [ret |-> 0, moved |-> 0]
  ELSE IF WaitReady(Head(sts), TRUE) < 0 THEN [ret |-> -1, moved |-> 0]
  ELSE LET r == SectorLoop(Tail(sts)) IN [ret |-> r.ret, moved |-> r.moved + 1]

\* ide_read / ide_write(secno, buf, nsecs) on disk diskno, sts being the
\* status each sector's wait ends on: assert(nsecs <= 256), the task file
\* with command 0x20 or 0x30, then the sector loop.
IdeSectorIO(secno, nsecs, diskno, cmd, sts) ==
  IF nsecs > 256 THEN [panic |-> TRUE]
  ELSE LET l == SectorLoop(sts) IN
       [panic |-> FALSE, tf |-> TaskFile(nsecs, secno, diskno, cmd),
        ret |-> l.ret, moved |-> l.moved]

IdeRead(secno, nsecs, diskno, sts) == IdeSectorIO(secno, nsecs, diskno, IDE_CMD_READ, sts)
IdeWrite(secno, nsecs, diskno, sts) == IdeSectorIO(secno, nsecs, diskno, IDE_CMD_WRITE, sts)

\* ide_set_disk(d): diskno = d, or a panic for a disk other than 0 and 1.
IdeSetDisk(d) == IF d \notin {0, 1} THEN [panic |-> TRUE] ELSE [panic |-> FALSE, diskno |-> d]

-----------------------------------------------------------------------------
(* The drive's view (ATA, LBA28): the sector is LBA 0..7, 8..15, 16..23   *)
(* from 0x1f3..0x1f5 and 24..27 from the low nibble of 0x1f6, whose bit 4 *)
(* selects the drive and bit 6 LBA addressing; a count of 0 means 256.    *)
AtaSector(tf) == tf.lba0 + 2^8 * tf.lba1 + 2^16 * tf.lba2 + 2^24 * (tf.drive % 16)
AtaCount(tf) == IF tf.nsect = 0 THEN 256 ELSE tf.nsect

Addresses(tf, sector, count, drive) ==
  /\ Bit(tf.drive, 6) = 1
  /\ AtaSector(tf) = sector
  /\ AtaCount(tf) = count
  /\ Bit(tf.drive, 4) = drive

\* A ready status (the wait's exit) with or without DF and ERR.
ReadyStatuses == {r \in 0..255 : WaitEnds(r) /\ (r % 32) \in {0, 1}}

-----------------------------------------------------------------------------
(* Property *)

\* Every request the drivers issue reaches the drive as the sectors they
\* mean: idestart panics exactly on a block past FSSIZE or a block of more
\* than 7 sectors, and otherwise addresses the block's sectors on b->dev;
\* ide_read and ide_write address secno..secno+nsecs-1 on diskno for
\* every sector below 2^28 and every count 1..256 (256 goes out as 0);
\* and their loop moves the sectors before the first status with DF or
\* ERR, and returns -1 exactly when there is one.
TaskFileAddressesRequest ==
  /\ \A bno \in TfBlocks, dev \in {0, 1}, dirty \in BOOLEAN, bsize \in Bsizes :
       LET r == IdestartRegs(bno, dev, dirty, bsize)
           spb == bsize \div SECTOR_SIZE
       IN /\ r.panic = (bno >= FSSIZE \/ spb > 7)
          /\ ~r.panic => Addresses(r.tf, bno * spb, spb, dev)
  /\ \A sec \in TfSectors, n \in TfCounts, dev \in {0, 1} :
       sec < 2^28 /\ n >= 1 =>
         /\ Addresses(IdeRead(sec, n, dev, <<>>).tf, sec, n, dev)
         /\ Addresses(IdeWrite(sec, n, dev, <<>>).tf, sec, n, dev)
  /\ \A s1, s2 \in ReadyStatuses :
       LET l == IdeRead(0, 2, 0, <<s1, s2>>)
           bad(r) == WaitReady(r, TRUE) # 0
       IN /\ (l.ret = -1) = (bad(s1) \/ bad(s2))
          /\ l.moved = IF bad(s1) THEN 0 ELSE IF bad(s2) THEN 1 ELSE 2
====
