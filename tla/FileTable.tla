----------------------------- MODULE FileTable -----------------------------
(***************************************************************************)
(* The open-file layer of xv6 (file.c: filealloc, filedup, fileclose,     *)
(* fileread, filewrite) with the system calls that drive it (sysfile.c:   *)
(* sys_open, sys_dup, sys_close, sys_read, sys_write; fdalloc).  Every   *)
(* open file names the one inode of the model, of which only the size    *)
(* is kept (no property tells bytes apart).  A readi or writei call runs  *)
(* under the inode's sleep-lock together with fileread's and filewrite's  *)
(* read and update of f->off, so each is one step; filewrite splits a     *)
(* write into chunks of at most MAXCHUNK bytes, each its own              *)
(* locked step.  fork's copy of the descriptor table is modelled from the *)
(* spec (proc.c is not in the tree).                                      *)
(***************************************************************************)
EXTENDS Integers, Sequences, FiniteSets

CONSTANTS
  Procs,
  NFILE,      \* struct file slots (param.h)
  NOFILE,     \* descriptors per process (param.h)
  MAXFILEB,   \* writei's limit MAXFILE*BSIZE, in bytes
  MAXCHUNK,   \* filewrite's max = ((MAXOPBLOCKS-1-1-2) / 2) * 512
  MAXN        \* largest n of one read or write call

Files == 1..NFILE
Fds == 0..NOFILE-1
Modes == {"O_RDONLY", "O_WRONLY", "O_RDWR"}

VARIABLES
  fref, ftype, foff, freadable, fwritable,   \* ftable.file[]
  iref,        \* the inode's references held by open files
  size,        \* the inode's size in bytes
  ofile,       \* each process's descriptor table (0: free)
  pc, wfile, wn, wi   \* per process: filewrite's f, n and i

vars == <<fref, ftype, foff, freadable, fwritable, iref, size, ofile,
          pc, wfile, wn, wi>>

TypeOK ==
  /\ fref \in [Files -> Nat]
  /\ ftype \in [Files -> {"FD_NONE", "FD_INODE"}]
  /\ foff \in [Files -> 0..MAXFILEB]
  /\ freadable \in [Files -> BOOLEAN]
  /\ fwritable \in [Files -> BOOLEAN]
  /\ iref \in Nat
  /\ size \in 0..MAXFILEB
  /\ ofile \in [Procs -> [Fds -> Files \cup {0}]]
  /\ pc \in [Procs -> {"idle", "w_chunk", "close_iput"}]
  /\ wfile \in [Procs -> Files \cup {0}]
  /\ wn \in [Procs -> 0..MAXN]
  /\ wi \in [Procs -> 0..MAXN]

Init ==
  /\ fref = [f \in Files |-> 0]
  /\ ftype = [f \in Files |-> "FD_NONE"]
  /\ foff = [f \in Files |-> 0]
  /\ freadable = [f \in Files |-> FALSE]
  /\ fwritable = [f \in Files |-> FALSE]
  /\ iref = 0
  /\ size = 0
  /\ ofile = [p \in Procs |-> [d \in Fds |-> 0]]
  /\ pc = [p \in Procs |-> "idle"]
  /\ wfile = [p \in Procs |-> 0]
  /\ wn = [p \in Procs |-> 0]
  /\ wi = [p \in Procs |-> 0]

FirstOf(S) == CHOOSE x \in S : \A y \in S : x <= y

\* filealloc's scan: the first slot with ref = 0.  fdalloc: the lowest
\* free descriptor.
FreeFiles == {f \in Files : fref[f] = 0}
FreeFds(p) == {d \in Fds : ofile[p][d] = 0}

(***************************************************************************)
(* sys_open of the file: namei's iget (a reference the file keeps), then  *)
(* filealloc and fdalloc, and f's type, offset 0 and the mode's read and   *)
(* write flags.  When either table is full the call undoes what it did     *)
(* and returns -1, which changes nothing.                                 *)
(***************************************************************************)
Open(p, mode) ==
  /\ pc[p] = "idle"
  /\ FreeFiles # {} /\ FreeFds(p) # {}
  /\ LET f == FirstOf(FreeFiles) IN
       /\ fref' = [fref EXCEPT ![f] = 1]
       /\ ftype' = [ftype EXCEPT ![f] = "FD_INODE"]
       /\ foff' = [foff EXCEPT ![f] = 0]
       /\ freadable' = [freadable EXCEPT ![f] = mode # "O_WRONLY"]
       /\ fwritable' = [fwritable EXCEPT ![f] = mode # "O_RDONLY"]
       /\ ofile' = [ofile EXCEPT ![p][FirstOf(FreeFds(p))] = f]
  /\ iref' = iref + 1
  /\ UNCHANGED <<size, pc, wfile, wn, wi>>

\* sys_dup: fdalloc then filedup (ref++).
DupNoRef(p, d) ==
  /\ pc[p] = "idle"
  /\ ofile[p][d] # 0 /\ FreeFds(p) # {}
  /\ ofile' = [ofile EXCEPT ![p][FirstOf(FreeFds(p))] = ofile[p][d]]
  /\ UNCHANGED <<fref, ftype, foff, freadable, fwritable, iref, size, pc,
                 wfile, wn, wi>>

Dup(p, d) ==
  /\ pc[p] = "idle"
  /\ ofile[p][d] # 0 /\ FreeFds(p) # {}
  /\ ofile' = [ofile EXCEPT ![p][FirstOf(FreeFds(p))] = ofile[p][d]]
  /\ fref' = [fref EXCEPT ![ofile[p][d]] = @ + 1]
  /\ UNCHANGED <<ftype, foff, freadable, fwritable, iref, size, pc,
                 wfile, wn, wi>>

\* fork (proc.c, from the spec): a process with no open files receives a
\* copy of p's table, each descriptor filedup'ed.
Fork(p, q) ==
  /\ p # q /\ pc[p] = "idle" /\ pc[q] = "idle"
  /\ \A d \in Fds : ofile[q][d] = 0
  /\ \E d \in Fds : ofile[p][d] # 0
  /\ ofile' = [ofile EXCEPT ![q] = ofile[p]]
  /\ fref' = [f \in Files |-> fref[f] + Cardinality({d \in Fds : ofile[p][d] = f})]
  /\ UNCHANGED <<ftype, foff, freadable, fwritable, iref, size, pc,
                 wfile, wn, wi>>

(***************************************************************************)
(* sys_close and fileclose: clear the descriptor; under ftable.lock,      *)
(* ref--, and if it reached 0 mark the slot FD_NONE; then, outside the    *)
(* lock, iput the inode.                                                  *)
(***************************************************************************)
CloseKeepType(p, d) ==
  LET f == ofile[p][d] IN
  /\ pc[p] = "idle"
  /\ f # 0
  /\ ofile' = [ofile EXCEPT ![p][d] = 0]
  /\ fref' = [fref EXCEPT ![f] = @ - 1]
  /\ pc' = [pc EXCEPT ![p] = IF fref[f] = 1 THEN "close_iput" ELSE "idle"]
  /\ UNCHANGED <<ftype, foff, freadable, fwritable, iref, size, wfile, wn, wi>>

Close(p, d) ==
  LET f == ofile[p][d] IN
  /\ pc[p] = "idle"
  /\ f # 0
  /\ ofile' = [ofile EXCEPT ![p][d] = 0]
  /\ fref' = [fref EXCEPT ![f] = @ - 1]
  /\ IF fref[f] = 1
       THEN /\ ftype' = [ftype EXCEPT ![f] = "FD_NONE"]
            /\ pc' = [pc EXCEPT ![p] = "close_iput"]
       ELSE UNCHANGED <<ftype, pc>>
  /\ UNCHANGED <<foff, freadable, fwritable, iref, size, wfile, wn, wi>>

CloseIput(p) ==
  /\ pc[p] = "close_iput"
  /\ iref' = iref - 1
  /\ pc' = [pc EXCEPT ![p] = "idle"]
  /\ UNCHANGED <<fref, ftype, foff, freadable, fwritable, size, ofile,
                 wfile, wn, wi>>

(***************************************************************************)
(* fileread: readable files only; under ilock, readi at f->off (-1 when   *)
(* off > size, else n clamped to size - off) and f->off += r when r > 0.   *)
(***************************************************************************)
ReadResult(f, n) ==
  IF foff[f] > size THEN -1
  ELSE IF n < size - foff[f] THEN n ELSE size - foff[f]

ReadAdvanceByN(p, d, n) ==
  LET f == ofile[p][d] IN
  /\ pc[p] = "idle"
  /\ f # 0 /\ freadable[f]
  /\ foff' = [foff EXCEPT ![f] = IF ReadResult(f, n) > 0 THEN @ + n ELSE @]
  /\ UNCHANGED <<fref, ftype, freadable, fwritable, iref, size, ofile,
                 pc, wfile, wn, wi>>

Read(p, d, n) ==
  LET f == ofile[p][d] IN
  /\ pc[p] = "idle"
  /\ f # 0 /\ freadable[f]
  /\ foff' = [foff EXCEPT ![f] = IF ReadResult(f, n) > 0 THEN @ + ReadResult(f, n) ELSE @]
  /\ UNCHANGED <<fref, ftype, freadable, fwritable, iref, size, ofile,
                 pc, wfile, wn, wi>>

(***************************************************************************)
(* filewrite: writable files only; while i < n, a chunk of               *)
(* n1 = min(n - i, max) bytes: under ilock, writei at f->off (-1 when     *)
(* off > size or off + n1 > MAXFILE*BSIZE, else n1 bytes, the file        *)
(* growing past its end) and f->off += r; r < 0 breaks out of the loop,   *)
(* and the call returns n if i = n, else -1.  writei either fails or      *)
(* writes all n1 bytes, so "short filewrite" cannot fire.                 *)
(***************************************************************************)
WriteBegin(p, d, n) ==
  LET f == ofile[p][d] IN
  /\ pc[p] = "idle"
  /\ f # 0 /\ fwritable[f]
  /\ pc' = [pc EXCEPT ![p] = "w_chunk"]
  /\ wfile' = [wfile EXCEPT ![p] = f]
  /\ wn' = [wn EXCEPT ![p] = n]
  /\ wi' = [wi EXCEPT ![p] = 0]
  /\ UNCHANGED <<fref, ftype, foff, freadable, fwritable, iref, size, ofile>>

\* The call's locals f, n and i die with it.
WriteReturn(p) ==
  /\ pc' = [pc EXCEPT ![p] = "idle"]
  /\ wfile' = [wfile EXCEPT ![p] = 0]
  /\ wn' = [wn EXCEPT ![p] = 0]
  /\ wi' = [wi EXCEPT ![p] = 0]

WriteChunkNoMaxCheck(p) ==
  LET f == wfile[p]
      n1 == IF wn[p] - wi[p] > MAXCHUNK THEN MAXCHUNK ELSE wn[p] - wi[p]
  IN
  /\ pc[p] = "w_chunk"
  /\ IF foff[f] > size
       THEN /\ WriteReturn(p)
            /\ UNCHANGED <<size, foff>>
       ELSE /\ size' = IF foff[f] + n1 > size THEN foff[f] + n1 ELSE size
            /\ foff' = [foff EXCEPT ![f] = @ + n1]
            /\ IF wi[p] + n1 = wn[p]
                 THEN WriteReturn(p)
                 ELSE /\ wi' = [wi EXCEPT ![p] = @ + n1]
                      /\ UNCHANGED <<pc, wfile, wn>>
  /\ UNCHANGED <<fref, ftype, freadable, fwritable, iref, ofile>>

WriteChunk(p) ==
  LET f == wfile[p]
      n1 == IF wn[p] - wi[p] > MAXCHUNK THEN MAXCHUNK ELSE wn[p] - wi[p]
  IN
  /\ pc[p] = "w_chunk"
  /\ IF foff[f] > size \/ foff[f] + n1 > MAXFILEB
       THEN /\ WriteReturn(p)
            /\ UNCHANGED <<size, foff>>
       ELSE /\ size' = IF foff[f] + n1 > size THEN foff[f] + n1 ELSE size
            /\ foff' = [foff EXCEPT ![f] = @ + n1]
            /\ IF wi[p] + n1 = wn[p]
                 THEN WriteReturn(p)
                 ELSE /\ wi' = [wi EXCEPT ![p] = @ + n1]
                      /\ UNCHANGED <<pc, wfile, wn>>
  /\ UNCHANGED <<fref, ftype, freadable, fwritable, iref, ofile>>

Next ==
  \E p \in Procs :
    \/ \E mode \in Modes : Open(p, mode)
    \/ \E d \in Fds : Dup(p, d) \/ Close(p, d)
    \/ \E q \in Procs : Fork(p, q)
    \/ CloseIput(p)
    \/ \E d \in Fds, n \in 1..MAXN : Read(p, d, n) \/ WriteBegin(p, d, n)
    \/ WriteChunk(p)

Spec == Init /\ [][Next]_vars

-----------------------------------------------------------------------------
(***************************************************************************)
(* Properties                                                              *)
(***************************************************************************)

\* A struct file's ref is the number of descriptors, in every process,
\* that name it (filedup on dup and fork, fileclose on close), so the
\* slot is reused by filealloc only when no descriptor can reach it.
FileRefExact ==
  \A f \in Files :
    fref[f] = Cardinality({pd \in Procs \X Fds : ofile[pd[1]][pd[2]] = f})

\* The inode's references from the file layer: one per struct file of
\* type FD_INODE, plus each last close whose iput has not yet run.
InodeRefExact ==
  iref = Cardinality({f \in Files : ftype[f] = "FD_INODE"})
         + Cardinality({p \in Procs : pc[p] = "close_iput"})

\* Every open file's offset stays within the file: fileread advances it by
\* what readi returned, filewrite by what writei wrote.
OffsetWithinFile ==
  \A f \in Files : ftype[f] = "FD_INODE" => foff[f] <= size

\* The spec (sysfile write): "partial writes are errors (panic)", so a
\* write either writes all of its bytes or fails having written none.
\* Here: the step in which filewrite gives up (writei returned -1 and the
\* loop breaks with i < n, so the call returns -1) follows no chunk that
\* was written.
WriteFails(p) == pc[p] = "w_chunk" /\ pc'[p] = "idle" /\ foff' = foff

FailedWriteWroteNothing ==
  [][\A p \in Procs : WriteFails(p) => wi[p] = 0]_vars
====
