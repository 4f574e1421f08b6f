------------------------------ MODULE MCIcache ------------------------------
(* Model values and symmetry for checking Icache with TLC. *)
EXTENDS Icache, Namei, TLC

CONSTANTS p1, p2, n1, n2

MCProcs == {p1, p2}
MCNames == {n1, n2}
MCInums == {1, 2}

\* Processes and names are interchangeable; inode numbers are not (ialloc
\* scans them in order), nor are cache slots (iget scans them in order).
MCSymmetry == Permutations(MCProcs) \cup Permutations(MCNames)

\* The tree the paths are resolved in: root 1 holds "a" (directory 2), a
\* free slot, "bb" (file 3) and "b" (itself, as ".." does); directory 2
\* holds "aa" (file 3) and "b" (the root).  With DIRSIZ = 2, an element
\* "aab" is looked up as "aa".
MCLetters == {"a", "b"}
MCIType == [i \in 1..3 |-> IF i = 3 THEN "file" ELSE "dir"]
MCDirData ==
  [i \in 1..3 |->
     CASE i = 1 -> <<Dirent(2, <<"a">>), EmptyDirent, Dirent(3, <<"b", "b">>),
                     Dirent(1, <<"b">>)>>
       [] i = 2 -> <<Dirent(3, <<"a", "a">>), Dirent(1, <<"b">>)>>
       [] OTHER -> <<>>]
MCPaths == BoundedSeq(MCLetters \cup {Slash}, 5)
MCCwds == {1, 2}

\* Every directory of up to MAXDIRENT = 3 slots over three stored names
\* and two inode numbers; names to link of up to DIRSIZ + 1 characters.
MCSlots == {EmptyDirent} \cup
           {Dirent(i, nm) : i \in {1, 2}, nm \in {<<"a">>, <<"b">>, <<"a", "b">>}}
MCDirs == BoundedSeq(MCSlots, 3)
MCLinkNames == BoundedSeq(MCLetters, 3) \ {<<>>}

\* Directory lookup, dirlink, unlink's clearing, skipelem and namex agree
\* with their reference definitions on every input above.  The formula is
\* constant, so TLC evaluates it once; it is stated as a property of the
\* run's steps so that a counterexample is reported like any other.
NameiAgrees ==
  [][SkipelemSplitsPath /\ NamexMatchesReference /\ DirentsImplementDirectory]_vars
====
