# TLA+ models of the xv6 file-system stack (and the JOS lab code beside it)

This directory holds TLA+ models of the code under `src/`. Each model is checked with
TLC. `PROJECT.json` lists the components, the runs, the mutants, the map from each
definition to the source lines it translates, the findings and the hazards.

## 1. Inventory

The code comes from two teaching kernels. `src/xv6-public` is the xv6 kernel's file
system. `src/6.828-lab` holds pieces of JOS lab code. `spec.md` specifies the xv6
file-system stack. The JOS pieces sit beside it.

| Component | Source | State it keeps | Operations |
|---|---|---|---|
| BufferCache | `bio.c`, `buf.h` | `NBUF` buffers. Each has `dev`, `blockno`, `flags` (B_VALID, B_DIRTY), `refcnt`, `data` and a sleep-lock. The buffers form an LRU list. `bcache.lock` guards the list, `refcnt` and the identity. | `binit`, `bget` (static), `bread`, `bwrite`, `brelse` |
| IdeDriver | `ide.c` | `idequeue`, a list through `qnext`; the disk's busy state; `idelock` | `iderw` (queue, start, sleep), `idestart`, `ideintr` |
| Log | not in the tree (`log.c`) | the logged blocks | `begin_op`, `end_op`, `log_write` |
| BlockAllocator | `fs.c` `balloc`/`bfree` | the on-disk bitmap, reached through the cache | allocate the first free block and zero it; free a block (panic on a double free) |
| InodeLayer | `fs.c`, `file.h`, `fs.h` | `icache`: `NINODE` in-memory inodes with `ref`, `valid`, a sleep-lock and copies of the on-disk fields; on-disk dinodes | `ialloc`, `iget`, `idup`, `ilock`, `iunlock`, `iput`, `iupdate`, `itrunc`, `bmap`, `readi`, `writei`, `stati` |
| DirectoryLayer | `fs.c` | directory contents as `dirent` arrays | `dirlookup`, `dirlink`, `skipelem`, `namex`/`namei`/`nameiparent` |
| FileTable | `file.c` | `ftable`: `NFILE` open files with `ref`, `type`, `readable`/`writable`, `ip`, `off` | `filealloc`, `filedup`, `fileclose`, `filestat`, `fileread`, `filewrite` |
| SyscallFacade | `sysfile.c` | per-process `ofile[NOFILE]` and `cwd` | `dup`, `read`, `write`, `close`, `fstat`, `link`, `unlink`, `open`, `mkdir`, `mknod`, `chdir`, `exec`, `pipe`; helpers `argfd`, `fdalloc`, `isdirempty`, `create` |
| JOS scheduler | `lab4/kern/sched.c` | `envs[].env_status`, each CPU's `cpu_env` | `sched_yield` (round robin), `sched_halt` |
| JOS IPC | `lab4/lib/ipc.c` | the env's `env_ipc_*` fields | `ipc_send` (retry until the receiver waits), `ipc_recv`, `ipc_find_env` |
| JOS fork | `lab4/lib/fork.c` | page-table entries with PTE_W / PTE_COW | `fork`, `duppage`, `pgfault` |
| JOS file client, polled IDE, ELF header | `lab5/lib/file.c`, `lab6/fs/ide.c`, `lab1/inc/elf.h` | none beyond the request page and port I/O | RPC wrappers, sector I/O, type definitions |

**How the parts interact.** A system call checks its arguments and then runs inside a
transaction. It resolves path names through the directory layer, which reads
directories with `readi`. The inode layer reaches disk blocks through the buffer
cache (`bread`/`brelse`) and records changes with `log_write`. The cache calls the
IDE driver's `iderw`. That queues the request and sleeps until `ideintr`, the disk's
interrupt handler, marks the buffer done. The state is shared through locks:

- `bcache.lock`, `icache.lock` and `ftable.lock` are spinlocks.
- Each buffer and each inode has its own sleep-lock.
- `idelock` guards the disk queue.
- Reference counts keep an entry's identity stable while it is in use.

**What is hard.**

- Interleavings of processes around each lock release. `bget` drops `bcache.lock`
  before it sleeps on the buffer lock. `iput` reads `ref` and then drops
  `icache.lock`. `sys_link` unlocks the inode between `nlink++` and `dirlink`.
- The disk runs asynchronously. Requests queue behind each other. A write's data
  leaves at `idestart`. A failed read is still marked valid.
- Resources run out: buffers (`bget` panics), inodes, blocks and descriptors.
- Boundaries: `NDIRECT` versus the indirect block, `MAXFILE`, and `off + n`
  overflowing.
- Error paths that roll back: `sys_link`'s `bad:` label, and `sys_open` failing after
  `filealloc`.

**Properties that make each part correct.**

- Cache:
  - At most one buffer holds a block.
  - A buffer that was handed out keeps its block.
  - Clean cached data equals the disk.
  - No write is lost or invented: the cache refines a store of blocks, each used
    exclusively.
  - Every disk request completes.
  - `bget` does not run out of buffers while the buffers cover one per process plus
    the log's dirty blocks.
- Allocator: a block is marked in the bitmap exactly when some inode uses it. A block
  is never handed out twice.
- Inodes:
  - One cache entry per inode while `ref > 0`.
  - An inode is freed only when `nlink = 0` and no reference is left.
  - `readi` returns `min(n, size - off)`.
  - `bmap`/`itrunc` free exactly the blocks that were allocated.
- Directories and system calls:
  - `nlink` equals the number of entries that name the inode (plus `..`).
  - `.` and `..` come first in every directory.
  - `unlink` of a directory succeeds only when it is empty.
- File table: `ref` equals the number of descriptors that name the file. A closed
  file releases its inode exactly once.

## 2. Plan

The modules are listed in order, the most important behaviour first.

1. **Bio** + **BlockStore** + **MCBio** (done). The buffer cache and the IDE queue,
   with processes interleaving at every lock boundary. It is shown to implement the
   abstract `BlockStore`.
2. **Icache** (done). `iget`, `idup`, `ilock` (loading from the dinode), `iunlock`,
   `iput` (truncate and free on the last reference with `nlink = 0`) and `ialloc`,
   with processes interleaving. The block I/O is abstracted to the atomic reads and
   writes that Bio shows correct.
3. **InodeData** (done). The bitmap, and `bmap`/`itrunc`/`readi`/`writei` over a
   small `NDIRECT` and `NINDIRECT`, as steps of two writers and truncators. `readi` is
   left out (it changes nothing). The allocator's invariants are checked against
   allocations and truncations.
4. **Namei** (done). The directory entries and `namex`, as operators checked against
   reference definitions inside the Icache run. `mkdir` and `chdir` as actions over
   nested directories are not modelled (section 4).
5. **FileTable** (done). `filealloc`, `filedup`, `fileclose`, and `filewrite` in chunks,
   with per-process descriptor tables (`fdalloc`, `sys_dup`, `sys_close`) and fork's copy.
6. **JosSched**, **JosIpc** (JOS, done). Round-robin `sched_yield` over a few envs and CPUs, and
   `ipc_send`'s retry loop against a receiver, with the kernel side taken from the
   comments in `ipc.c` because the kernel code is not in the tree.
7. **JosFork** (JOS, done). Copy-on-write `fork`, `duppage` and `pgfault` over the same
   scheduler, with the parent's own stack writes during fork.

## 3. What is modelled now

### Bio (`Bio.tla`): the buffer cache with the IDE queue

The state:

- The variables `blockno`, `flags`, `refcnt`, `data` and `lock` are the fields of
  `struct buf`.
- `lru` is the list from `bcache.head.next` to `head.prev`.
- `idequeue` is the disk queue. `ideactive` says a command issued by `idestart` is in
  progress. `disk` holds the disk's contents.
- The processes' local state is `pc`, `buf` (the buffer pointer) and `want` (the
  block asked for).
- Data is a write counter: the n-th write stores n, so any two writes differ.
- The device is abstracted away. The file system runs on one device (ROOTDEV). The
  identity `(0, 0)` that `binit`'s zeroed array gives every buffer is the model value
  `NoBlock`, which no caller asks for.

Each step a process takes under one lock is one action:

| Action | Code |
|---|---|
| `BGet(p, b)` | `bget`'s whole scan under `bcache.lock`. It has three disjuncts: a hit (`refcnt++`), a miss that recycles the LRU-last buffer with `refcnt = 0` and not dirty, and the panic. |
| `AcquireSleep(p)` | `acquiresleep`, then `bread`'s test of B_VALID |
| `IdeRW(p)` | `iderw` up to its sleep: append to the queue, and `idestart` if the queue was empty |
| `IdeIntr` | `ideintr`: complete the head request, copy the data in for a read unless the disk reports an error, set B_VALID and clear B_DIRTY, start the next request |
| `IdeDone(p)` | the sleeper in `iderw` sees its buffer done |
| `BWrite(p)` | the caller changes the data (or rewrites what it holds, as the log's install step does), then `bwrite`: set B_DIRTY, then `iderw` |
| `LogWrite(p)` | `log_write`, modelled from the spec because `log.c` is not in the tree. The buffer becomes dirty. At most `LOGSIZE` buffers are dirty at once, which is what `begin_op` enforces. |
| `ReleaseSleep(p)`, `BRelse(p)` | the two halves of `brelse`: the sleep-lock, then `refcnt--` with the move to the LRU head at zero |

**Fairness.** `IdeIntr` is weakly fair: the disk always completes a command it was
given. `IdeRW(p)` and `IdeDone(p)` are weakly fair: a process that has been woken is
eventually scheduled. Nothing is assumed about who wins a sleep-lock. xv6's `wakeup`
wakes every sleeper and gives no ordering, so no liveness property depends on it.

**The abstract specification.** `BlockStore.tla` is what the cache promises its
callers. Blocks have contents. A process acquires one block exclusively, may write
it, and releases it. The refinement mapping in `Bio.tla` works as follows:

- `AbsMem[b]` is the data of the buffer that holds `b` if that buffer has been read
  or written (flags are not empty). Otherwise it is the disk's copy.
- `AbsOwner[b]` is the holder of that buffer's sleep-lock.

### Runs

| Run | Config | Checks | Bounds |
|---|---|---|---|
| `bio_safety` | `MCBio.cfg` | `TypeOK`, `UniqueBlock`, `PinnedBufferKeepsIdentity`, `CleanBufferMatchesDisk`, `NoBgetPanic`, `IdeAgrees` (IdeTaskFile, below) | 2 processes, `NBUF = 3`, 4 blocks, 2 writes, `LOGSIZE = 1`; symmetry over processes and over blocks |
| `bio_refinement` | `MCBioLive.cfg` | `IoCompletes`, `ImplementsBlockStore` | 2 processes, `NBUF = 2`, 3 blocks, 2 writes, `LOGSIZE = 1`; no symmetry (temporal properties) |
| `bio_disk_error` | `MCBioDiskError.cfg` | `CleanBufferMatchesDisk` (expected violated) | as `bio_safety`, with disk read errors possible |

Why these bounds are enough:

- Four blocks over three buffers, and three blocks over two, force `bget` to recycle.
  Recycling is where identity, flags and dirty data can go wrong.
- Two processes give every interleaving of two callers around each lock boundary:
  - both ask for the same block;
  - one sleeps in `iderw` while the other recycles;
  - requests queue behind each other at the disk.
- `NBUF = NPROC + LOGSIZE` in `bio_safety` is the smallest cache for which `bget`
  cannot run out of buffers. That makes `NoBgetPanic` a tight check.
- The refinement run allows one log-dirty block with `NBUF = 2`. So an unreferenced
  buffer can be dirty when `bget` scans for a victim, and the refinement sees a
  victim test that forgets B_DIRTY (mutant `RecyclableIgnoringDirty`): the logged
  write is dropped and the abstract block changes with no write. With both processes
  holding a buffer beside the dirty one, `bget` can panic; the panicking process
  stops, which changes no block, so the refinement still has to hold around it.

**What the runs show.** Through every interleaving of two processes within these
bounds:

- the cache never holds a block twice;
- a buffer that was handed out keeps its block across every sleep;
- clean cached data is the disk's;
- every write is either in a dirty buffer or on the disk.

Each property has a mutant in `PROJECT.json`: a one-line change of the code that TLC
shows breaks it. The mutants are:

- a hit scan that skips unreferenced buffers;
- a victim test without `refcnt == 0`;
- a victim test without the B_DIRTY check;
- recycling that keeps the old flags;
- `brelse` without `refcnt--`;
- `ideintr` that does not start the next request;
- `idestart` that ignores B_DIRTY;
- an LRU move that does not unlink.

**Finding (`bio_disk_error`).** `ideintr` (ide.c:154) skips `insl` when
`idewait(1)` reports an error. It still sets B_VALID and wakes the reader. Here is
how that goes wrong:

1. A buffer is recycled for a new block.
2. The read of that block fails.
3. `bread` returns the buffer, marked valid, holding the previous block's data.

The spec's block device has no error outcome, so this is a gap in the spec as well
as an unhandled path in the code.

### IdeTaskFile (`IdeTaskFile.tla`): the ATA registers the IDE drivers write

Bio takes `idestart` to address the disk block `b->blockno`. This module checks that
assumption at the port level. It covers xv6's `idestart` and JOS's polled `ide_read`
and `ide_write` (lab6 `fs/ide.c`). Each is a pure operator, checked against the
drive's view inside the `bio_safety` run as the action property
`IdeAgrees == [][TaskFileAddressesRequest]_vars`.

| Definition | Code |
|---|---|
| `Outb(v)`, `Field(v, lo, w)` | `outb` keeps the low byte; `(v >> lo) & mask` |
| `TaskFile` | the `outb`s to ports 0x1f2..0x1f7 (ide.c 93-98 in JOS, 121-131 in xv6); the OR of disjoint fields into 0x1f6 is their sum |
| `WaitEnds`, `WaitReady` | `idewait` / `ide_wait_ready`: the loop's exit condition, then -1 on DF or ERR when errors are checked |
| `IdestartRegs` | `idestart`: the panics for `blockno >= FSSIZE` and more than 7 sectors per block, the sector, and the choice of command |
| `SectorLoop` | the per-sector loop of `ide_read`/`ide_write`: wait with error check, return -1 at once, else move one sector |
| `IdeSectorIO`, `IdeRead`, `IdeWrite` | `assert(nsecs <= 256)`, the task file with command 0x20 or 0x30, then the loop |
| `IdeSetDisk` | `ide_set_disk`: panic for a disk other than 0 and 1 |

The reference is the LBA28 decoding of the registers, written down independently of the
encoding. The sector is `lba0 + 2^8 lba1 + 2^16 lba2 + 2^24 (drive & 0xf)`. Bit 4 of
the drive register selects the drive, bit 6 selects LBA addressing, and a count of 0
means 256. `TaskFileAddressesRequest` states three things:

- `idestart` panics exactly when it should, and otherwise addresses the block's
  sectors on `b->dev`. This is checked for blocks 0, 255, 256, 999 and 1000 with
  `FSSIZE = 1000`, and for block sizes of 1, 2 and 8 sectors.
- `ide_read` and `ide_write` address `secno .. secno + nsecs - 1` on the chosen disk.
  The sectors checked sit on each side of every byte boundary below 2^28. The counts
  are 1, 8, 255 and 256; 256 goes out as 0.
- The loop moves exactly the sectors before the first status with DF or ERR, and
  returns -1 exactly when there is one. This is checked over every pair of ready
  statuses.

The mutant computes `lba2` from `secno >> 8`, a copy-and-paste slip in the fourth
`outb`. The sector-boundary inputs break the property under it.

### Icache (`Icache.tla`): the inode cache under open, create, link, unlink and close

The state:

- `inum`, `ref`, `valid`, `itype`, `nlink` and `ilk` are the fields of the `NINODE`
  cache entries. `ilk` is the holder of the entry's sleep-lock.
- `dtype` and `dnlink` are the on-disk dinodes. The dinode reads and writes are atomic,
  as Bio shows.
- `dir` is the one directory, a map from name to inode number (0: no entry).
  `dplock` is the directory's sleep-lock.
- The processes' local state is `pc`, `ip` (the entry), `ofile` (one open file) and
  `arg` (the name).

There is one action per step a process takes between two lock operations:

| Actions | Code |
|---|---|
| `OpenLookup`, `OpenIlock`, `OpenUnlock` | `sys_open` without `O_CREATE`: `namei`'s `iget`, `ilock`, then the file keeps the reference |
| `CreateBegin` … `CreateDirlink` | `create`: the lookup under the directory lock, `ialloc` (the first free dinode; it panics when none is free), `ilock`, `nlink = 1` with `iupdate`, `dirlink` |
| `LinkLookup` … `LinkBad` | `sys_link`: `nlink++` with `iupdate`, unlock, then `dirlink` under the directory lock, and the `bad:` path that undoes the increment |
| `UnlinkBegin` … `UnlinkDec` | `sys_unlink`: the lookup, `ilock`, clearing the entry, then `nlink--` with `iupdate` |
| `Close` | `fileclose`'s last reference: `iput` of the file's inode |
| `IputLock`, `IputCheck`, `IputFree`, `IputUnlock`, `IputDec` | `iput`: the sleep-lock; the test `valid && nlink == 0` and the read of `r = ref` under `icache.lock`; if `r == 1`, the free (`type = 0`, `iupdate`, `valid = 0`); the unlock; then `ref--` |

A panic (`ilock`'s "no type", `ialloc`'s "no inodes") stops the kernel: `Halted`
allows only stuttering.

The run `icache_safety` (`MCIcache.cfg`) uses 2 processes, 2 names, 2 inode numbers and
`NINODE = 3`, with symmetry over processes and names. It checks:

- `UniqueInode`: no inode is cached twice.
- `NoIlockPanic`: no process locks an inode whose dinode was freed under it.
- `CachedInodeMatchesDisk`: an unlocked valid entry agrees with its dinode.
- `NamesCounted`: each named inode is a file, and it has at least as many links as names.

Two processes cover every pairing of the calls. Three slots for two inodes make
`iget` recycle an entry.

**Finding (`icache_orphan`).** `iput` reads `r = ip->ref` (fs.c:374) before its own
`ref--` (fs.c:387). It does that `ref--` after `releasesleep` (fs.c:384). Here is how
the race goes:

1. A process closes the file while another unlinks it, so both hold a reference.
2. Each reads `r == 2` in turn: the first has unlocked but not yet decremented when
   the second reads.
3. Neither frees the inode.

The dinode stays allocated with no links and no references, so it is leaked on disk
(`NoOrphanInode` is violated).

### Namei (`Namei.tla`): directory entries and path names

Directory lookup and path resolution are computations over data: no lock is
dropped inside them beyond what Icache already models. `Namei` therefore gives
them as operators, not actions, and checks them against reference definitions
over every small input.

| Definition | Code |
|---|---|
| `Dirent`, `EmptyDirent` | `struct dirent`; the zeroed entry `sys_unlink` writes |
| `Namecmp` | `namecmp`: `strncmp(s, t, DIRSIZ)` |
| `DirlookupSlot`, `Dirlookup` | `dirlookup`'s scan: the first slot in use whose name matches, its offset and inum |
| `Dirlink` | `dirlink`: -1 if the name is present; else the first free slot, or `dp->size`; a write past `MAXFILE` panics |
| `DirUnlink` | `sys_unlink`'s `memset` and `writei` of the entry at `off` |
| `SkipSlashes`, `ElemLen`, `Skipelem` | `skipelem`: skip slashes, measure the element, copy `DIRSIZ` bytes or the element and a NUL, skip slashes |
| `Start`, `NamexLoop`, `Namex`, `Namei`, `Nameiparent` | `namex`'s start at the root or the cwd, its loop (non-directory, one level early for `nameiparent`, missing name), and the final `nameiparent` check |

A directory's data is a sequence of dirents: slot k is the entry at byte offset
(k-1)·16. A path is a sequence of characters.

The reference definitions are simpler:

- A directory is the map from the names of its live slots to their inodes (`DirMap`).
- A path's elements are its maximal runs of characters other than `/` (`Elements`).
- `RefWalk` looks the elements up in turn. `RefParent` walks all but the last.

The run `icache_safety` checks `NameiAgrees`, which says three things:

- `SkipelemSplitsPath`: repeated `skipelem` visits the elements in order. Each is cut
  to `DIRSIZ` bytes, and each rest has no leading slash.
- `NamexMatchesReference`: `namei` and `nameiparent` give the reference's inode, and
  `nameiparent` gives the last element's name.
- `DirentsImplementDirectory`: on every directory with unique names, the dirent
  operations agree with the map. In particular:
  - `dirlookup` reads the map.
  - `dirlink` fails exactly when the name is present. Otherwise it adds the name,
    reuses a free slot before growing, and panics only when a full directory is at
    `MAXDIRENT`.
  - Clearing an entry removes exactly that name.

The formula is constant, so TLC evaluates it once. It is stated as an action property
of the run so that a counterexample is reported. The inputs are:

- all 364 paths of up to 5 characters over `a`, `b` and `/`, from two cwds;
- a tree whose root holds `a` (a directory), a free slot, `bb` (a file), and `b`
  (the root itself, as `..` does);
- `DIRSIZ = 2`, so `aab` is looked up as `aa`;
- every directory of up to `MAXDIRENT = 3` slots over three names and two inodes,
  with names of up to 3 characters to link.

Three mutants each break it:

- a `skipelem` that keeps the slashes after an element, so `nameiparent("a/")` walks
  into `a`;
- a `namex` without the final `nameiparent` check, so `nameiparent("/")` returns the root;
- a `dirlink` that always appends.

### InodeData (`InodeData.tla`): block allocation, bmap, writei and itrunc

The state:

- `bitmap` is the free-block bitmap.
- `data` holds the block contents. Indirect blocks hold addresses, and file blocks hold
  the number of the inode that wrote them.
- `addrs` and `size` are each inode's fields.
- The sizes are scaled down: `NDIRECT = 1` and `NINDIRECT = BSIZE` entries, with
  `BSIZE` a constant of the configuration.

The actions follow the code:

- `balloc` marks the first clear bit. `bzero` is its own step.
- `bmap` has a hit path, and it allocates a direct block, the indirect block, or an
  entry.
- `writei`:
  - `WriteBegin` holds the bounds checks.
  - `Copy` copies one chunk of `min(n - tot, BSIZE - off % BSIZE)` bytes and loops back
    to `bmap`.
  - It sets the size at the end.
- `itrunc` frees the direct blocks, then the entries, then the indirect block. `bfree`
  panics on a block that is already free.
- The writer's `n` is drawn from the constant `WriteLens`, and its offset from every
  value up to the size (writei rejects a larger one).

The runs:

- `inodedata_safety` (`MCInodeData.cfg`: 2 inodes, 4 blocks of 2 bytes, writes of 2
  bytes, 4.8 million states in about a minute) checks four properties.
  - With 2-byte blocks, `MAXFILE = 3` blocks (6 bytes). The disk's 4 blocks are
    enough for one file to reach `MAXFILE` (direct, indirect and two entries).
  - A write at an odd offset starts mid-block, overwrites part of a block and crosses
    into the next. This is the case `min(n - tot, BSIZE - off % BSIZE)` exists for.
  - Writes of 1 byte are left out. They add only aligned or single-byte chunks, which
    the odd-offset 2-byte writes already cover. With them, the run takes over 3 minutes.

  The four properties:
  - `NoSharedBlock`: no block is referenced twice, by two files or by a stale entry.
  - `BitmapExact`: a bit is set exactly when a block is in use.
  - `FileHoldsOwnData`: every byte below a file's size was written by that file.
  - `NoBmapOutOfRange`: writei's bound keeps `bmap` from its "out of range" panic.

### FileTable (`FileTable.tla`): open files and descriptors

The state:

- `fref`, `ftype`, `foff`, `freadable` and `fwritable` are `ftable.file[]`.
- `ofile` is each process's descriptor table.
- `iref` counts the inode references the open files hold.
- `size` is the inode's size. No property tells bytes apart.
- `pc`, `wfile`, `wn` and `wi` are `filewrite`'s loop state.

The actions:

- `Open` is `sys_open`'s `filealloc`, `fdalloc` and field set-up.
- `Dup` is `sys_dup`.
- `Fork` copies a table with `filedup`. It is modelled from the spec, because `proc.c`
  is not in the tree.
- `Close` is `sys_close` with `fileclose`'s `ref--` under the lock. `CloseIput` is the
  `iput` after the lock.
- `Read` is `fileread` with `readi`'s clamp (`ReadResult`).
- `WriteBegin` and `WriteChunk` are `filewrite`'s loop. Each chunk of `MAXCHUNK` bytes
  is one step under the inode lock.

The run `filetable_safety` (2 processes, `NFILE = 2`, `NOFILE = 2`, `MAXFILEB = 3`,
`MAXCHUNK = 1`, writes of up to 2 bytes, symmetry over processes) checks:

- `FileRefExact`: a file's `ref` is the number of descriptors naming it.
- `InodeRefExact`: the inode's references are the open files plus the pending iputs.
- `OffsetWithinFile`: no offset passes the end of the file.

**Finding (`filetable_partial_write`).** A 2-byte write at offset 2 of a file limited
to 3 bytes writes its first chunk. The second chunk's `writei` then fails, and
`filewrite` returns -1 (file.c:177, 183) with the first byte written and `f->off`
advanced. The spec's `write` row treats partial writes as errors, so the
caller is told that a write that changed the file failed.

### JosSched (`JosSched.tla`): the JOS round-robin scheduler

The source is `lab4/kern/sched.c`. The kernel holds the big kernel lock on every
entry, and every entry ends in `env_run` or `sched_halt`. So a trap, with the
scheduling it does, is one step, and the CPUs interleave at trap granularity.

The state:

- `status` and `envcpu` are `env_status` and `env_cpunum` of `envs[0..NENV-1]`.
- `curenv` is each CPU's `cpu_env`. `NoEnv` stands for NULL.
- `monitor` says `sched_halt` found nothing to run and dropped into the monitor.

The actions:

- `Schedule(c, cur, st)` is `sched_yield`. `NextRunnable` is the circular scan from
  `StartId(cur)` (cur's slot, or 0). The fallback runs cur again if it is RUNNING on this
  CPU. Otherwise it calls `SchedHalt`, which is `sched_halt`.
- `EnvRun` is `env_run`. It demotes the CPU's RUNNING env and runs the new one here.
- `Timer(c)` is a timer interrupt. A DYING env is freed first.
- `SysYield(c)` is `sys_yield`.
- `EnvDestroy(c, e)` is `sys_env_destroy`. An env running on another CPU becomes DYING.
  A self-destroy frees the env and schedules.

Fairness is weak fairness of each CPU's timer, because the LAPIC timer keeps firing.

JosSched has no run of its own. Its properties are checked in `josfork_safety`, where
the programs of `JosFork` drive every scheduler action: timer interrupts, `sys_yield`,
self-destroy, and destroying a child that runs on the other CPU, which makes it DYING.
That run has 3 envs on 2 CPUs.

- `RunningOnItsCpu`: a RUNNING env is the `cpu_env` of the CPU in its `env_cpunum`, and a
  CPU's env is RUNNING or DYING there. This is the comment's "never choose an
  environment that's currently running on another CPU".
- `RunnableEventuallyRuns`: a RUNNABLE env eventually runs or is destroyed. A
  `sched_yield` that keeps the CPU's own env before scanning for others breaks it.

### JosIpc (`JosIpc.tla`): ipc_send and ipc_recv over the scheduler

The source is `lab4/lib/ipc.c`. `JosIpc` extends `JosSched`. Two sender envs find the
file-server env with `ipc_find_env` and send it messages, and the receiver loops on
`ipc_recv`.

The kernel side follows the contract in `ipc.c`'s comments:

- `sys_ipc_recv` fails for an unaligned `dstva` below UTOP. Otherwise it blocks the env
  and schedules.
- `sys_ipc_try_send` fails unless the target is receiving. Otherwise it records the
  sender and value in the target, clears its receiving flag and makes it RUNNABLE.
- A failed try changes no state, so the spin is stuttering.

Each sender's messages carry an alternating bit (`seq`), and the receiver keeps the next
expected bit per sender (`expect`). A lost or repeated message therefore shows.

The actions are:

- `TrySend`: the successful `sys_ipc_try_send`.
- `SendYield`: the `sys_yield` after a send.
- `RecvCall`: `ipc_recv` up to its syscall.
- `RecvReturn`: the reads of `env_ipc_from` and `env_ipc_value` after the syscall.
- `Handle`: the receiver's own loop.
- `Interrupt`: the timer.

`fresh[c]` marks an env that was just scheduled. A timer interrupt cannot preempt it
before it takes a step it can take, because a quantum is far longer than one loop
iteration. Fairness is weak fairness of each CPU's interrupt and of its user step.

The runs:

- `josipc_safety` uses 3 envs on 2 CPUs, with `pg` NULL or aligned (2,885 states). It
  checks:
  - `ExactlyOnceInOrder`: every message the receiver takes is the next one of the
    sender it names.
  - `RecvCompletes`: a blocked receiver is always woken and run.
- `josipc_recv_error` (violation) passes an unaligned `pg`. `ipc_recv`'s comment says
  that on failure it stores 0 in `*from_env_store` and returns the error. But the code
  sets it to 0 and falls through: it overwrites it with `env_ipc_from` and returns
  `env_ipc_value`, the previous message's value. `RecvErrorReported` is violated.
- Not every sender's `ipc_send` returns. `ipc_send`'s comment says it "keeps trying until
  it succeeds", but with one CPU and two senders round robin starves one of them:
  1. After the receiver blocks, the scan from the receiver's slot always reaches
     sender 0.
  2. Sender 0 sends and yields. Sender 1 then runs only while the receiver is handling
     the message, so its tries fail until the timer preempts it.
  3. Sender 1 never sends.

  TLC found this cycle when the sender-side eventuality was checked on one CPU. It is
  recorded as a hazard of `ipc.c:74` rather than a run, so only the receiver's side,
  `RecvCompletes`, is checked.

### JosFork (`JosFork.tla`): copy-on-write fork and pgfault

The source is `lab4/lib/fork.c`. `JosFork` extends `JosSched`. Env 0 forks once, and
env slot 1 on the free list becomes its child. Env 2 runs beside them and competes for
the two CPUs.

The state:

- `pte[e][va]` is env e's page-table entry: a physical page (0 if not present) and a
  permission, `W`, `COW` or `RO`. The virtual pages are:
  - the user pages `1..NVA` below USTACKTOP, with page `NVA` the stack;
  - `UX`, the exception stack;
  - `PFTEMP`.
- `mem` is each physical page's content.
- `pc`, `child` and `dva` are fork's place, its `child` and its loop address.
- `pf` and `fva` are pgfault's place and `utf_fault_va`.
- `upcall` is `env_pgfault_upcall`.

Physical pages are free when no page table maps them (`FreePages`). `page_alloc` takes
the lowest free page; the free list's order is not modelled.

The actions:

- `ForkBegin` is `set_pgfault_handler` (on first use it allocates the exception stack
  and sets the upcall) and `sys_exofork`.
- `Dup` is one iteration of the loop and duppage's first `sys_page_map`:
  - a page that is not present is skipped;
  - a writable or copy-on-write page goes into the child as COW;
  - a read-only page goes into the child as RO.
- `DupParent` is duppage's second `sys_page_map`, which makes our own mapping COW.
- `Setup` is the child's new exception stack and its upcall.
- `SetStatus` makes the child RUNNABLE.
- `Write(c, va, v)` is a user write through a writable mapping. Fork's own frames are on
  the stack page, so the parent writes it during fork too. Any other write traps
  (`Fault`), and the kernel runs pgfault on the exception stack.
- pgfault is three steps: `PgfaultAlloc` (the check and `sys_page_alloc` at PFTEMP),
  `PgfaultMap` (the `memcpy` and the map at the faulting address), and `PgfaultUnmap`.
  The faulting write is retried afterwards, as a later `Write`.
- `Yield`, `Exit` and `Kill` are `sys_yield`, `sys_env_destroy(0)` and the parent's
  `sys_env_destroy(child)`.
- `Interrupt` is the timer.
- Any step that leaves an env FREE empties its page table (`FreeTables`, `env_free`).

Fairness is weak fairness of each CPU's timer.

The bounds are 3 envs, 2 CPUs, and one written value. There are 3 user pages: text (RO), an absent page that fork skips, and the stack (W).
There are 8 physical pages, one for every page that two envs can map at once, so no
allocation fails.

The runs:

- `josfork_safety` (432,688 states, about two and a half minutes) checks four properties:
  - `TypeOK`.
  - `PrivateMemory`: once the child runs, what an env reads at a page changes only by
    its own write, through a writable mapping it keeps. No other env's write, no
    pgfault copy and no remap changes it. Dropping duppage's second `sys_page_map`, or
    the `memcpy`, breaks it.
  - `RunningOnItsCpu` and `RunnableEventuallyRuns` from JosSched.
- `josfork_readonly` (violation) checks `ReadOnlyStaysReadOnly`. pgfault's comment says
  to panic unless the fault is a write to a copy-on-write page. The code panics only
  when the fault is not a write and the page is COW (`&&` where `||` was meant). A
  write to the read-only text page gets through: pgfault copies the page and maps the
  copy writable, so the env gains a writable private page instead of panicking.

Every property of a passing run has a mutant in `PROJECT.json`. TLC shows that each
mutant breaks its property.

## 4. Not modelled, and why

- The data moves (`insl`/`outsl`) are counted per sector, not copied byte by byte.
  The waits are modelled by the status they end on, not as a spin: a status loop
  cannot change what the request addresses. `ideinit` and `ide_probe_disk1` probe for
  disk 1 at boot. They only choose the disk number, which `ide_set_disk` models.
- The log (`log.c`) is not in the tree. Only `log_write`'s effect on the cache is
  modelled, from the spec. Crash atomicity is a non-goal of the spec.
- `mkdir`, `mknod`, `chdir` and system calls on paths through nested directories are
  not actions. `Namei` checks path resolution over a fixed tree. Icache's calls act on
  names in the root only: a path variable per process multiplies the state space past
  TLC's reach.
- Pipe files (`FD_PIPE`), `filestat` and `readi` on its own change no file-system state.
- `exec`, `pipe` and the device switch (`devsw`) are outside the spec's core.
- The JOS file client (`lab5/lib/file.c`) is not modelled. It packs arguments into
  the request page and calls `fsipc`. The file server that gives it meaning is not in
  the tree, and `JosIpc` already checks the exchange it rides on. `elf.h` holds only
  type definitions.
- JOS `env_run`, `env_destroy`, the trap path and the `sys_ipc_*` syscalls are not in the
  tree. They are modelled from the contract the lab's comments state, and marked so in
  the map. IPC page transfer (`perm`, `dstva` mapping) is not modelled: the properties
  are about who receives which value, and a page changes neither.
- `ipc_send`'s panic on an error other than `-E_IPC_NOT_RECV` is not reachable in
  `JosIpc`, because no env is destroyed there.
- In `JosFork`, the syscalls' failure panics (`sys_exofork` with no free env, a failed
  `sys_page_alloc` or `sys_page_map`) are not reachable at these bounds. The kernel's
  destroy of an env that faults without an upcall is not reachable either, because fork
  sets the child's upcall before the child runs. `sfork` only panics. Reads never fault,
  because every page a program touches is present.
