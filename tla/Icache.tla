------------------------------- MODULE Icache -------------------------------
(***************************************************************************)
(* The xv6 inode cache (fs.c: iget, ilock, iunlock, iput, ialloc, iupdate) *)
(* driven by the system calls that take and drop inode references on       *)
(* plain files of one directory: open and create (sysfile.c sys_open,      *)
(* create), link, unlink and close (sys_close, file.c fileclose).          *)
(*                                                                         *)
(* The cache holds NINODE entries (inum, ref, valid and the cached copy   *)
(* of type and nlink, each with a sleep-lock).  The disk holds one dinode *)
(* (type, nlink) per inode number.  The directory is a function from      *)
(* names to inode numbers (0: an empty dirent); its inode's sleep-lock is *)
(* dplock.  A directory lookup done under dplock is one step.  File data, *)
(* size and blocks (itrunc) are the business of other modules.            *)
(***************************************************************************)
EXTENDS Integers, FiniteSets, FiniteSetsExt

CONSTANTS
  Procs,      \* processes making system calls
  NINODE,     \* entries of the inode cache (param.h)
  Inums,      \* inode numbers ialloc may hand out, in its scan order
  Names,      \* file names of the directory
  NoProc      \* holder of a free sleep-lock

ASSUME Inums \subseteq Nat \ {0}

VARIABLES
  inum, ref, valid, itype, nlink, ilk,   \* icache.inode[]
  dtype, dnlink,                         \* the dinodes on disk
  dir, dplock,                           \* the directory's entries and lock
  pc, ip, ofile, arg                     \* per process

vars == <<inum, ref, valid, itype, nlink, ilk, dtype, dnlink, dir, dplock,
          pc, ip, ofile, arg>>

Slots == 1..NINODE
T_FILE == 2
PCs == {"idle", "open_ilock", "open_unlock", "create_lookup", "create_ilock",
        "create_init", "create_dirlink", "link_ilock", "link_inc", "link_dp",
        "link_dirlink", "link_bad_ilock", "link_bad", "unlink_lookup",
        "unlink_ilock", "unlink_clear", "unlink_dec", "iput_lock",
        "iput_check", "iput_free", "iput_unlock", "iput_dec",
        "panic_ilock", "panic_ialloc"}

TypeOK ==
  /\ inum \in [Slots -> Inums \cup {0}]
  /\ ref \in [Slots -> Nat]
  /\ valid \in [Slots -> {0, 1}]
  /\ itype \in [Slots -> {0, T_FILE}]
  /\ nlink \in [Slots -> Nat]
  /\ ilk \in [Slots -> Procs \cup {NoProc}]
  /\ dtype \in [Inums -> {0, T_FILE}]
  /\ dnlink \in [Inums -> Nat]
  /\ dir \in [Names -> Inums \cup {0}]
  /\ dplock \in Procs \cup {NoProc}
  /\ pc \in [Procs -> PCs]
  /\ ip \in [Procs -> Slots \cup {0}]
  /\ ofile \in [Procs -> Slots \cup {0}]
  /\ arg \in [Procs -> Names]

\* iinit leaves every entry zeroed; mkfs leaves every dinode free and the
\* directory empty (the root's own dinode is not among Inums).
Init ==
  /\ inum = [e \in Slots |-> 0]
  /\ ref = [e \in Slots |-> 0]
  /\ valid = [e \in Slots |-> 0]
  /\ itype = [e \in Slots |-> 0]
  /\ nlink = [e \in Slots |-> 0]
  /\ ilk = [e \in Slots |-> NoProc]
  /\ dtype = [n \in Inums |-> 0]
  /\ dnlink = [n \in Inums |-> 0]
  /\ dir = [nm \in Names |-> 0]
  /\ dplock = NoProc
  /\ pc = [p \in Procs |-> "idle"]
  /\ ip = [p \in Procs |-> 0]
  /\ ofile = [p \in Procs |-> 0]
  /\ arg = [p \in Procs |-> CHOOSE nm \in Names : TRUE]

Goto(p, l) == pc' = [pc EXCEPT ![p] = l]

(***************************************************************************)
(* iget (fs.c): under icache.lock, a referenced entry holding n gains a   *)
(* reference; otherwise the first entry with ref = 0 is recycled for n,   *)
(* not valid.  p's ip becomes the entry.  No process holds more than two  *)
(* references, so with NINODE >= 2 * |Procs| the "no inodes" panic cannot *)
(* happen.                                                                 *)
(***************************************************************************)
IgetTo(p, n, e) ==
  /\ ip' = [ip EXCEPT ![p] = e]
  /\ IF ref[e] > 0
       THEN /\ ref' = [ref EXCEPT ![e] = @ + 1]
            /\ UNCHANGED <<inum, valid>>
       ELSE /\ inum' = [inum EXCEPT ![e] = n]
            /\ ref' = [ref EXCEPT ![e] = 1]
            /\ valid' = [valid EXCEPT ![e] = 0]

IgetFirstEmptyWins(p, n) ==
  LET empty == {e \in Slots : ref[e] = 0}
      hit == {e \in Slots : ref[e] > 0 /\ inum[e] = n}
  IN  IF hit # {} /\ (empty = {} \/ Min(hit) < Min(empty))
        THEN IgetTo(p, n, Min(hit))
        ELSE empty # {} /\ IgetTo(p, n, Min(empty))

Iget(p, n) ==
  LET empty == {e \in Slots : ref[e] = 0}
      hit == {e \in Slots : ref[e] > 0 /\ inum[e] = n}
  IN  IF hit # {} THEN IgetTo(p, n, CHOOSE e \in hit : TRUE)
                  ELSE empty # {} /\ IgetTo(p, n, Min(empty))

(***************************************************************************)
(* ilock (fs.c): take the entry's sleep-lock; if not valid, copy the      *)
(* dinode into it and mark it valid, panicking if the dinode is free.     *)
(***************************************************************************)
Ilock(p, next) ==
  LET e == ip[p] IN
  /\ ilk[e] = NoProc
  /\ ilk' = [ilk EXCEPT ![e] = p]
  /\ IF valid[e] = 0
       THEN /\ itype' = [itype EXCEPT ![e] = dtype[inum[e]]]
            /\ nlink' = [nlink EXCEPT ![e] = dnlink[inum[e]]]
            /\ valid' = [valid EXCEPT ![e] = 1]
            /\ Goto(p, IF dtype[inum[e]] = 0 THEN "panic_ilock" ELSE next)
       ELSE /\ Goto(p, next)
            /\ UNCHANGED <<itype, nlink, valid>>

\* iunlock (fs.c).
Iunlock(p) == ilk' = [ilk EXCEPT ![ip[p]] = NoProc]

\* iupdate (fs.c): the write-through of the cached type and nlink, given
\* their new values.
Iupdate(e, t, l) ==
  /\ dtype' = [dtype EXCEPT ![inum[e]] = t]
  /\ dnlink' = [dnlink EXCEPT ![inum[e]] = l]

(***************************************************************************)
(* sys_open without O_CREATE: namei looks the name up under the directory *)
(* lock and igets it (a missing name returns -1 and changes nothing);     *)
(* ilock, the type check (a plain file passes), then filealloc/fdalloc    *)
(* and iunlock leave the reference in the process's open file.            *)
(***************************************************************************)
OpenLookup(p, nm) ==
  /\ pc[p] = "idle" /\ ofile[p] = 0
  /\ dplock = NoProc
  /\ dir[nm] # 0
  /\ Iget(p, dir[nm])
  /\ Goto(p, "open_ilock")
  /\ UNCHANGED <<itype, nlink, ilk, dtype, dnlink, dir, dplock, ofile, arg>>

OpenIlock(p) ==
  /\ pc[p] = "open_ilock"
  /\ Ilock(p, "open_unlock")
  /\ UNCHANGED <<inum, ref, dtype, dnlink, dir, dplock, ip, ofile, arg>>

OpenUnlock(p) ==
  /\ pc[p] = "open_unlock"
  /\ Iunlock(p)
  /\ ofile' = [ofile EXCEPT ![p] = ip[p]]
  /\ ip' = [ip EXCEPT ![p] = 0]
  /\ Goto(p, "idle")
  /\ UNCHANGED <<inum, ref, valid, itype, nlink, dtype, dnlink, dir, dplock, arg>>

(***************************************************************************)
(* sys_open with O_CREATE, create(): lock the directory and look the name *)
(* up.  An existing file is igot, the directory unlocked, and the open    *)
(* goes on as above.  Otherwise ialloc takes the first free dinode (type  *)
(* T_FILE, the rest zeroed, through log_write) and igets it, or panics.   *)
(***************************************************************************)
CreateBegin(p, nm) ==
  /\ pc[p] = "idle" /\ ofile[p] = 0
  /\ dplock = NoProc
  /\ dplock' = p
  /\ arg' = [arg EXCEPT ![p] = nm]
  /\ Goto(p, "create_lookup")
  /\ UNCHANGED <<inum, ref, valid, itype, nlink, ilk, dtype, dnlink, dir, ip, ofile>>

CreateExisting(p) ==
  /\ pc[p] = "create_lookup"
  /\ dir[arg[p]] # 0
  /\ Iget(p, dir[arg[p]])
  /\ dplock' = NoProc
  /\ Goto(p, "open_ilock")
  /\ UNCHANGED <<itype, nlink, ilk, dtype, dnlink, dir, ofile, arg>>

FreeInums == {n \in Inums : dtype[n] = 0}

CreateAlloc(p) ==
  /\ pc[p] = "create_lookup"
  /\ dir[arg[p]] = 0
  /\ FreeInums # {}
  /\ LET n == Min(FreeInums) IN
       /\ dtype' = [dtype EXCEPT ![n] = T_FILE]
       /\ dnlink' = [dnlink EXCEPT ![n] = 0]
       /\ Iget(p, n)
  /\ Goto(p, "create_ilock")
  /\ UNCHANGED <<itype, nlink, ilk, dir, dplock, ofile, arg>>

IallocPanic(p) ==
  /\ pc[p] = "create_lookup"
  /\ dir[arg[p]] = 0
  /\ FreeInums = {}
  /\ Goto(p, "panic_ialloc")
  /\ UNCHANGED <<inum, ref, valid, itype, nlink, ilk, dtype, dnlink, dir, dplock,
                 ip, ofile, arg>>

CreateIlock(p) ==
  /\ pc[p] = "create_ilock"
  /\ Ilock(p, "create_init")
  /\ UNCHANGED <<inum, ref, dtype, dnlink, dir, dplock, ip, ofile, arg>>

\* ip->nlink = 1; iupdate(ip).
CreateInit(p) ==
  LET e == ip[p] IN
  /\ pc[p] = "create_init"
  /\ nlink' = [nlink EXCEPT ![e] = 1]
  /\ Iupdate(e, itype[e], 1)
  /\ Goto(p, "create_dirlink")
  /\ UNCHANGED <<inum, ref, valid, itype, ilk, dir, dplock, ip, ofile, arg>>

\* dirlink(dp, name, ip->inum); iunlockput(dp).  The name is still free:
\* the directory has been locked since the lookup.
CreateDirlink(p) ==
  /\ pc[p] = "create_dirlink"
  /\ dir' = [dir EXCEPT ![arg[p]] = inum[ip[p]]]
  /\ dplock' = NoProc
  /\ Goto(p, "open_unlock")
  /\ UNCHANGED <<inum, ref, valid, itype, nlink, ilk, dtype, dnlink, ip, ofile, arg>>

\* sys_close and fileclose: the process's file is not shared (no dup or
\* fork here), so its last reference goes and iput(ff.ip) follows.
Close(p) ==
  /\ pc[p] = "idle" /\ ofile[p] # 0
  /\ ip' = [ip EXCEPT ![p] = ofile[p]]
  /\ ofile' = [ofile EXCEPT ![p] = 0]
  /\ Goto(p, "iput_lock")
  /\ UNCHANGED <<inum, ref, valid, itype, nlink, ilk, dtype, dnlink, dir, dplock, arg>>

(***************************************************************************)
(* sys_link(old, new): namei(old) igets the file; ilock; nlink++ and      *)
(* iupdate; iunlock; lock the directory; dirlink(new) fails if the name   *)
(* is taken (its lookup's iget/iput of a named file frees nothing); then  *)
(* iunlockput(dp) and iput(ip), or on failure ilock, nlink--, iupdate and  *)
(* iunlockput(ip).                                                         *)
(***************************************************************************)
LinkLookup(p, old, new) ==
  /\ pc[p] = "idle"
  /\ dplock = NoProc
  /\ dir[old] # 0
  /\ Iget(p, dir[old])
  /\ arg' = [arg EXCEPT ![p] = new]
  /\ Goto(p, "link_ilock")
  /\ UNCHANGED <<itype, nlink, ilk, dtype, dnlink, dir, dplock, ofile>>

LinkIlock(p) ==
  /\ pc[p] = "link_ilock"
  /\ Ilock(p, "link_inc")
  /\ UNCHANGED <<inum, ref, dtype, dnlink, dir, dplock, ip, ofile, arg>>

LinkIncNoUpdate(p) ==
  LET e == ip[p] IN
  /\ pc[p] = "link_inc"
  /\ nlink' = [nlink EXCEPT ![e] = @ + 1]
  /\ Iunlock(p)
  /\ Goto(p, "link_dp")
  /\ UNCHANGED <<inum, ref, valid, itype, dtype, dnlink, dir, dplock, ip, ofile, arg>>

LinkInc(p) ==
  LET e == ip[p] IN
  /\ pc[p] = "link_inc"
  /\ nlink' = [nlink EXCEPT ![e] = @ + 1]
  /\ Iupdate(e, itype[e], nlink[e] + 1)
  /\ Iunlock(p)
  /\ Goto(p, "link_dp")
  /\ UNCHANGED <<inum, ref, valid, itype, dir, dplock, ip, ofile, arg>>

LinkDirLock(p) ==
  /\ pc[p] = "link_dp"
  /\ dplock = NoProc
  /\ dplock' = p
  /\ Goto(p, "link_dirlink")
  /\ UNCHANGED <<inum, ref, valid, itype, nlink, ilk, dtype, dnlink, dir, ip, ofile, arg>>

LinkDirlink(p) ==
  /\ pc[p] = "link_dirlink"
  /\ dir[arg[p]] = 0
  /\ dir' = [dir EXCEPT ![arg[p]] = inum[ip[p]]]
  /\ dplock' = NoProc
  /\ Goto(p, "iput_lock")
  /\ UNCHANGED <<inum, ref, valid, itype, nlink, ilk, dtype, dnlink, ip, ofile, arg>>

LinkExists(p) ==
  /\ pc[p] = "link_dirlink"
  /\ dir[arg[p]] # 0
  /\ dplock' = NoProc
  /\ Goto(p, "link_bad_ilock")
  /\ UNCHANGED <<inum, ref, valid, itype, nlink, ilk, dtype, dnlink, dir, ip, ofile, arg>>

LinkBadIlock(p) ==
  /\ pc[p] = "link_bad_ilock"
  /\ Ilock(p, "link_bad")
  /\ UNCHANGED <<inum, ref, dtype, dnlink, dir, dplock, ip, ofile, arg>>

LinkBad(p) ==
  LET e == ip[p] IN
  /\ pc[p] = "link_bad"
  /\ nlink' = [nlink EXCEPT ![e] = @ - 1]
  /\ Iupdate(e, itype[e], nlink[e] - 1)
  /\ Iunlock(p)
  /\ Goto(p, "iput_lock")
  /\ UNCHANGED <<inum, ref, valid, itype, dir, dplock, ip, ofile, arg>>

(***************************************************************************)
(* sys_unlink(name): lock the directory; a missing name unlocks it and    *)
(* returns -1; else dirlookup igets the file, ilock, clear the dirent,    *)
(* iunlockput(dp), then nlink-- and iupdate, and iunlockput(ip).          *)
(***************************************************************************)
UnlinkBegin(p, nm) ==
  /\ pc[p] = "idle"
  /\ dplock = NoProc
  /\ dplock' = p
  /\ arg' = [arg EXCEPT ![p] = nm]
  /\ Goto(p, "unlink_lookup")
  /\ UNCHANGED <<inum, ref, valid, itype, nlink, ilk, dtype, dnlink, dir, ip, ofile>>

UnlinkMissing(p) ==
  /\ pc[p] = "unlink_lookup"
  /\ dir[arg[p]] = 0
  /\ dplock' = NoProc
  /\ Goto(p, "idle")
  /\ UNCHANGED <<inum, ref, valid, itype, nlink, ilk, dtype, dnlink, dir, ip, ofile, arg>>

UnlinkLookup(p) ==
  /\ pc[p] = "unlink_lookup"
  /\ dir[arg[p]] # 0
  /\ Iget(p, dir[arg[p]])
  /\ Goto(p, "unlink_ilock")
  /\ UNCHANGED <<itype, nlink, ilk, dtype, dnlink, dir, dplock, ofile, arg>>

UnlinkIlock(p) ==
  /\ pc[p] = "unlink_ilock"
  /\ Ilock(p, "unlink_clear")
  /\ UNCHANGED <<inum, ref, dtype, dnlink, dir, dplock, ip, ofile, arg>>

UnlinkClearDropsLink(p) ==
  LET e == ip[p] IN
  /\ pc[p] = "unlink_clear"
  /\ dir' = [dir EXCEPT ![arg[p]] = 0]
  /\ nlink' = [nlink EXCEPT ![e] = @ - 1]
  /\ dplock' = NoProc
  /\ Goto(p, "unlink_dec")
  /\ UNCHANGED <<inum, ref, valid, itype, ilk, dtype, dnlink, ip, ofile, arg>>

UnlinkClear(p) ==
  /\ pc[p] = "unlink_clear"
  /\ dir' = [dir EXCEPT ![arg[p]] = 0]
  /\ dplock' = NoProc
  /\ Goto(p, "unlink_dec")
  /\ UNCHANGED <<inum, ref, valid, itype, nlink, ilk, dtype, dnlink, ip, ofile, arg>>

UnlinkDec(p) ==
  LET e == ip[p] IN
  /\ pc[p] = "unlink_dec"
  /\ nlink' = [nlink EXCEPT ![e] = @ - 1]
  /\ Iupdate(e, itype[e], nlink[e] - 1)
  /\ Iunlock(p)
  /\ Goto(p, "iput_lock")
  /\ UNCHANGED <<inum, ref, valid, itype, dir, dplock, ip, ofile, arg>>

(***************************************************************************)
(* iput (fs.c), in the steps its locks separate: acquiresleep; if the     *)
(* entry is valid with no links, read ref under icache.lock and, if it is *)
(* 1, truncate and free the dinode (type 0, iupdate) and clear valid;     *)
(* releasesleep; then ref-- under icache.lock.                            *)
(***************************************************************************)
IputLock(p) ==
  LET e == ip[p] IN
  /\ pc[p] = "iput_lock"
  /\ ilk[e] = NoProc
  /\ ilk' = [ilk EXCEPT ![e] = p]
  /\ Goto(p, "iput_check")
  /\ UNCHANGED <<inum, ref, valid, itype, nlink, dtype, dnlink, dir, dplock, ip, ofile, arg>>

IputCheckIgnoreRef(p) ==
  LET e == ip[p] IN
  /\ pc[p] = "iput_check"
  /\ Goto(p, IF valid[e] = 1 /\ nlink[e] = 0 THEN "iput_free" ELSE "iput_unlock")
  /\ UNCHANGED <<inum, ref, valid, itype, nlink, ilk, dtype, dnlink, dir, dplock, ip, ofile, arg>>

IputCheck(p) ==
  LET e == ip[p] IN
  /\ pc[p] = "iput_check"
  /\ Goto(p, IF valid[e] = 1 /\ nlink[e] = 0 /\ ref[e] = 1
               THEN "iput_free" ELSE "iput_unlock")
  /\ UNCHANGED <<inum, ref, valid, itype, nlink, ilk, dtype, dnlink, dir, dplock, ip, ofile, arg>>

IputFreeKeepValid(p) ==
  LET e == ip[p] IN
  /\ pc[p] = "iput_free"
  /\ itype' = [itype EXCEPT ![e] = 0]
  /\ Iupdate(e, 0, nlink[e])
  /\ Goto(p, "iput_unlock")
  /\ UNCHANGED <<inum, ref, valid, nlink, ilk, dir, dplock, ip, ofile, arg>>

IputFree(p) ==
  LET e == ip[p] IN
  /\ pc[p] = "iput_free"
  /\ itype' = [itype EXCEPT ![e] = 0]
  /\ Iupdate(e, 0, nlink[e])
  /\ valid' = [valid EXCEPT ![e] = 0]
  /\ Goto(p, "iput_unlock")
  /\ UNCHANGED <<inum, ref, nlink, ilk, dir, dplock, ip, ofile, arg>>

IputUnlock(p) ==
  /\ pc[p] = "iput_unlock"
  /\ Iunlock(p)
  /\ Goto(p, "iput_dec")
  /\ UNCHANGED <<inum, ref, valid, itype, nlink, dtype, dnlink, dir, dplock, ip, ofile, arg>>

IputDec(p) ==
  /\ pc[p] = "iput_dec"
  /\ ref' = [ref EXCEPT ![ip[p]] = @ - 1]
  /\ ip' = [ip EXCEPT ![p] = 0]
  /\ Goto(p, "idle")
  /\ UNCHANGED <<inum, valid, itype, nlink, ilk, dtype, dnlink, dir, dplock, ofile, arg>>

\* A panic stops the whole kernel: no process takes another step.
Halted == \E p \in Procs : pc[p] \in {"panic_ilock", "panic_ialloc"}

Step(p) ==
  \/ \E nm \in Names : OpenLookup(p, nm) \/ CreateBegin(p, nm) \/ UnlinkBegin(p, nm)
  \/ \E old, new \in Names : LinkLookup(p, old, new)
  \/ OpenIlock(p) \/ OpenUnlock(p)
  \/ CreateExisting(p) \/ CreateAlloc(p) \/ IallocPanic(p)
  \/ CreateIlock(p) \/ CreateInit(p) \/ CreateDirlink(p)
  \/ LinkIlock(p) \/ LinkInc(p) \/ LinkDirLock(p) \/ LinkDirlink(p)
  \/ LinkExists(p) \/ LinkBadIlock(p) \/ LinkBad(p)
  \/ UnlinkMissing(p) \/ UnlinkLookup(p) \/ UnlinkIlock(p) \/ UnlinkClear(p)
  \/ UnlinkDec(p)
  \/ Close(p)
  \/ IputLock(p) \/ IputCheck(p) \/ IputFree(p) \/ IputUnlock(p) \/ IputDec(p)

Stopped == Halted /\ UNCHANGED vars

Next == (~Halted /\ \E p \in Procs : Step(p)) \/ Stopped

Spec == Init /\ [][Next]_vars

-----------------------------------------------------------------------------
(***************************************************************************)
(* Properties                                                              *)
(***************************************************************************)

\* iget's contract (fs.c comment on the icache): an inode number is held by
\* at most one referenced cache entry, so every holder of a reference to
\* an inode shares one sleep-lock and one cached copy.
UniqueInode ==
  \A e1, e2 \in Slots :
    e1 # e2 /\ ref[e1] > 0 /\ ref[e2] > 0 => inum[e1] # inum[e2]

\* ilock never finds a freed dinode ("ilock: no type"): iput frees an
\* inode only when its reference is the last one, and nobody can reach an
\* inode with no links by name.
NoIlockPanic == \A p \in Procs : pc[p] # "panic_ilock"

\* The cache is write-through (iupdate's comment): a valid entry that no
\* process has locked agrees with its dinode on type and link count.
CachedInodeMatchesDisk ==
  \A e \in Slots :
    ref[e] > 0 /\ valid[e] = 1 /\ ilk[e] = NoProc =>
      itype[e] = dtype[inum[e]] /\ nlink[e] = dnlink[inum[e]]

\* Every directory entry names an allocated dinode whose link count is at
\* least the number of names for it: link raises nlink before dirlink, and
\* unlink clears the dirent before lowering nlink.
NamesCounted ==
  \A n \in Inums :
    LET names == {nm \in Names : dir[nm] = n} IN
    names # {} => dtype[n] = T_FILE /\ Cardinality(names) <= dnlink[n]

\* An allocated dinode with no links is still referenced by some process,
\* which will free it at its last iput (fs.c iput's comment: "If that was
\* the last reference and the inode has no links to it, free the inode").
NoOrphanInode ==
  \A n \in Inums :
    dtype[n] # 0 /\ dnlink[n] = 0 => \E e \in Slots : ref[e] > 0 /\ inum[e] = n
====
