------------------------------- MODULE Namei --------------------------------
(***************************************************************************)
(* xv6 directories and path names (fs.c: namecmp, dirlookup, dirlink,      *)
(* skipelem, namex, namei, nameiparent; sys_unlink's clearing of an        *)
(* entry).  These are pure computations over a directory's data and a     *)
(* path, so they are operators, checked against reference definitions     *)
(* over every small input.  A directory's data is a sequence of dirents,  *)
(* slot k being the entry at byte offset (k-1)*sizeof(de); a path is a    *)
(* sequence of characters.  The inode references and sleep-locks namex    *)
(* takes on the way are those of the Icache module and are not repeated  *)
(* here; dirlookup's "not DIR" and "read" panics cannot happen, since     *)
(* every caller passes a locked directory and reads whole entries below  *)
(* its size.                                                               *)
(***************************************************************************)
EXTENDS Integers, Sequences, FiniteSets, SequencesExt, TLC

CONSTANTS
  DIRSIZ,     \* fs.h: bytes of a name in a dirent
  MAXDIRENT,  \* MAXFILE*BSIZE / sizeof(struct dirent): the most a directory holds
  ROOTINO,    \* the root directory's inode number
  IType,      \* IType[i]: "dir" (T_DIR) or "file" for the inodes of the tree
  DirData,    \* DirData[i]: the dirents that are directory i's data
  Paths,      \* the paths resolved in the checks
  Cwds,       \* the current directories they are resolved from
  Dirs,       \* the directory contents the dirent operations are checked on
  LinkNames,  \* the names linked, looked up and unlinked in them
  DirInums    \* the inode numbers linked

Slash == "/"
\* skipelem returns 0: no element left (an element is never empty).
NoElem == [name |-> <<>>, rest |-> <<>>]

\* struct dirent: an inode number and a name of at most DIRSIZ bytes.
Dirent(i, nm) == [inum |-> i, name |-> nm]

\* memset(&de, 0, sizeof(de)): a free slot.
EmptyDirent == Dirent(0, <<>>)

\* The first n characters of s (strncpy and strncmp with bound n).
Prefix(s, n) == SubSeq(s, 1, IF Len(s) < n THEN Len(s) ELSE n)

\* The lowest of a set of slots, or 0 for none: a scan from offset 0.
FirstSlot(K) == IF K = {} THEN 0 ELSE CHOOSE k \in K : \A j \in K : k <= j

\* namecmp(s, t) == 0: strncmp(s, t, DIRSIZ).
Namecmp(s, t) == Prefix(s, DIRSIZ) = Prefix(t, DIRSIZ)

\* dirlookup's scan: the first slot in use whose name matches, or 0; *poff
\* is this slot.
DirlookupSlot(d, name) ==
  FirstSlot({k \in DOMAIN d : d[k].inum # 0 /\ Namecmp(name, d[k].name)})

Dirlookup(d, name) ==
  LET k == DirlookupSlot(d, name) IN IF k = 0 THEN 0 ELSE d[k].inum

DirlinkAppend(d, name, ino) ==
  IF Dirlookup(d, name) # 0 THEN [ret |-> -1, panic |-> FALSE, data |-> d]
  ELSE IF Len(d) + 1 > MAXDIRENT THEN [ret |-> -1, panic |-> TRUE, data |-> d]
  ELSE [ret |-> 0, panic |-> FALSE, data |-> Append(d, Dirent(ino, Prefix(name, DIRSIZ)))]

\* dirlink: fail if the name is present; else write the entry into the
\* first free slot, or at dp->size when there is none, where writei fails
\* past MAXFILE and dirlink panics.
Dirlink(d, name, ino) ==
  LET hole == FirstSlot({j \in DOMAIN d : d[j].inum = 0})
      k == IF hole = 0 THEN Len(d) + 1 ELSE hole
      de == Dirent(ino, Prefix(name, DIRSIZ))
  IN IF Dirlookup(d, name) # 0 THEN [ret |-> -1, panic |-> FALSE, data |-> d]
     ELSE IF k > MAXDIRENT THEN [ret |-> -1, panic |-> TRUE, data |-> d]
     ELSE [ret |-> 0, panic |-> FALSE,
           data |-> IF k > Len(d) THEN Append(d, de) ELSE [d EXCEPT ![k] = de]]

\* sys_unlink: dirlookup(dp, name, &off), then a zeroed dirent written at off.
DirUnlink(d, name) == [d EXCEPT ![DirlookupSlot(d, name)] = EmptyDirent]

-----------------------------------------------------------------------------
(* Paths *)

RECURSIVE SkipSlashes(_)
\* while(*path == '/') path++;
SkipSlashes(p) == IF p # <<>> /\ Head(p) = Slash THEN SkipSlashes(Tail(p)) ELSE p

\* path - s after while(*path != '/' && *path != 0) path++;
ElemLen(p) ==
  LET k == FirstSlot({j \in DOMAIN p : p[j] = Slash}) IN
  IF k = 0 THEN Len(p) ELSE k - 1

SkipelemKeepSlashes(p) ==
  LET s == SkipSlashes(p)
      len == ElemLen(s)
  IN IF s = <<>> THEN NoElem
     ELSE [name |-> SubSeq(s, 1, IF len >= DIRSIZ THEN DIRSIZ ELSE len),
           rest |-> SubSeq(s, len + 1, Len(s))]

\* skipelem: the next element (its first DIRSIZ bytes when it is longer,
\* unterminated) and the path after it with its slashes skipped.
Skipelem(p) ==
  LET s == SkipSlashes(p)
      len == ElemLen(s)
  IN IF s = <<>> THEN NoElem
     ELSE [name |-> SubSeq(s, 1, IF len >= DIRSIZ THEN DIRSIZ ELSE len),
           rest |-> SkipSlashes(SubSeq(s, len + 1, Len(s)))]

\* namex's start: the root for an absolute path, else the cwd.
Start(p, cwd) == IF p # <<>> /\ Head(p) = Slash THEN ROOTINO ELSE cwd

RECURSIVE NamexNoParentCheck(_, _, _, _)
NamexNoParentCheck(dp, p, nameiparent, name) ==
  LET s == Skipelem(p) IN
  IF s = NoElem THEN [ip |-> dp, name |-> name]
  ELSE IF IType[dp] # "dir" THEN [ip |-> 0, name |-> s.name]
  ELSE IF nameiparent /\ s.rest = <<>> THEN [ip |-> dp, name |-> s.name]
  ELSE LET next == Dirlookup(DirData[dp], s.name) IN
       IF next = 0 THEN [ip |-> 0, name |-> s.name]
       ELSE NamexNoParentCheck(next, s.rest, nameiparent, s.name)

RECURSIVE NamexLoop(_, _, _, _)
\* namex's loop from inode dp over the rest p of the path: stop at a
\* non-directory or a missing element, stop one level early for
\* nameiparent, and, for nameiparent, give 0 when the path had no element.
NamexLoop(dp, p, nameiparent, name) ==
  LET s == Skipelem(p) IN
  IF s = NoElem THEN [ip |-> IF nameiparent THEN 0 ELSE dp, name |-> name]
  ELSE IF IType[dp] # "dir" THEN [ip |-> 0, name |-> s.name]
  ELSE IF nameiparent /\ s.rest = <<>> THEN [ip |-> dp, name |-> s.name]
  ELSE LET next == Dirlookup(DirData[dp], s.name) IN
       IF next = 0 THEN [ip |-> 0, name |-> s.name]
       ELSE NamexLoop(next, s.rest, nameiparent, s.name)

Namex(p, nameiparent, cwd) == NamexLoop(Start(p, cwd), p, nameiparent, <<>>)

Namei(p, cwd) == Namex(p, FALSE, cwd).ip

Nameiparent(p, cwd) == Namex(p, TRUE, cwd)

-----------------------------------------------------------------------------
(* Reference definitions *)

\* The slots in use, and the directory they describe: a map from names to
\* inode numbers.
Live(d) == {k \in DOMAIN d : d[k].inum # 0}
UniqueNames(d) == \A j, k \in Live(d) : d[j].name = d[k].name => j = k
DirMap(d) == [nm \in {d[k].name : k \in Live(d)} |->
                d[CHOOSE k \in Live(d) : d[k].name = nm].inum]

\* A path's elements: its maximal runs of characters other than '/'.
ElemStarts(p) == {k \in 1..Len(p) : p[k] # Slash /\ (k = 1 \/ p[k-1] = Slash)}
ElemFrom(p, k) ==
  SubSeq(p, k, CHOOSE j \in k..Len(p) :
                 /\ \A m \in k..j : p[m] # Slash
                 /\ j = Len(p) \/ p[j+1] = Slash)
Elements(p) ==
  LET st == ElemStarts(p) IN
  [i \in 1..Cardinality(st) |->
     ElemFrom(p, CHOOSE k \in st : Cardinality({j \in st : j < k}) = i - 1)]

\* The inode directory i maps a name to, by the name's first DIRSIZ bytes.
RefLookup(i, nm) ==
  LET m == DirMap(DirData[i])
      t == Prefix(nm, DIRSIZ)
  IN IF t \in DOMAIN m THEN m[t] ELSE 0

\* The inode reached from i through the elements es, or 0.
RECURSIVE RefWalk(_, _)
RefWalk(i, es) ==
  IF es = <<>> THEN i
  ELSE IF IType[i] # "dir" \/ RefLookup(i, Head(es)) = 0 THEN 0
  ELSE RefWalk(RefLookup(i, Head(es)), Tail(es))

\* The directory holding the path's last element, or 0.
RefParent(p, cwd) ==
  LET es == Elements(p) IN
  IF es = <<>> THEN 0
  ELSE LET d == RefWalk(Start(p, cwd), Front(es)) IN
       IF d = 0 \/ IType[d] # "dir" THEN 0 ELSE d

\* skipelem called until it returns 0.
RECURSIVE SkipAll(_)
SkipAll(p) ==
  LET s == Skipelem(p) IN IF s = NoElem THEN <<>> ELSE <<s>> \o SkipAll(s.rest)

-----------------------------------------------------------------------------
(* Properties *)

\* The comment above skipelem: each call yields the path's next element,
\* its first DIRSIZ bytes when longer, and a rest with no leading slash,
\* so that namex's *path == '\0' test means "last element"; calls until 0
\* visit every element in order.
SkipelemSplitsPath ==
  \A p \in Paths :
    LET ss == SkipAll(p)
        es == Elements(p)
    IN /\ Len(ss) = Len(es)
       /\ \A i \in DOMAIN ss :
            /\ ss[i].name = Prefix(es[i], DIRSIZ)
            /\ ss[i].rest = <<>> \/ Head(ss[i].rest) # Slash

\* namei resolves a path by looking its elements up in turn from the root
\* or the cwd, failing at a non-directory or a missing name; nameiparent
\* resolves all but the last element to a directory, giving 0 for a path
\* with no element, and returns the last element's name.  An element of
\* DIRSIZ bytes or more is matched by its first DIRSIZ bytes.
NamexMatchesReference ==
  \A p \in Paths, c \in Cwds :
    /\ Namei(p, c) = RefWalk(Start(p, c), Elements(p))
    /\ Nameiparent(p, c).ip = RefParent(p, c)
    /\ RefParent(p, c) # 0 =>
         Nameiparent(p, c).name = Prefix(Last(Elements(p)), DIRSIZ)

\* The dirent array implements the directory's map from names to inodes:
\* dirlookup reads the map; dirlink fails exactly when the name is
\* present, else adds it, reusing a free slot before growing the
\* directory, and panics only when a full directory is at MAXFILE;
\* sys_unlink's cleared slot removes exactly that name.
DirentsImplementDirectory ==
  \A d \in Dirs, nm \in LinkNames, i \in DirInums :
    UniqueNames(d) =>
      LET m == DirMap(d)
          t == Prefix(nm, DIRSIZ)
          r == Dirlink(d, nm, i)
      IN /\ Dirlookup(d, nm) = (IF t \in DOMAIN m THEN m[t] ELSE 0)
         /\ (r.ret = -1 /\ ~r.panic) = (t \in DOMAIN m)
         /\ r.panic => Live(d) = DOMAIN d /\ Len(d) = MAXDIRENT
         /\ r.ret = 0 =>
              /\ UniqueNames(r.data)
              /\ DirMap(r.data) = [x \in DOMAIN m \cup {t} |-> IF x = t THEN i ELSE m[x]]
              /\ Len(r.data) = IF Live(d) = DOMAIN d THEN Len(d) + 1 ELSE Len(d)
         /\ t \in DOMAIN m =>
              DirMap(DirUnlink(d, nm)) = [x \in DOMAIN m \ {t} |-> m[x]]
====
