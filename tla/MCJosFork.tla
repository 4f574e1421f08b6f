------------------------------ MODULE MCJosFork ------------------------------
(* Model values for checking JosFork with TLC: env 0 forks into slot 1,    *)
(* env 2 competes for the CPUs.  The parent's text page is read-only, the   *)
(* page above it absent, and the stack page writable.                       *)
EXTENDS JosFork, TLC

CONSTANTS c1, c2

MCCPUs == {c1, c2}
MCInitPerm == [va \in 1..3 |-> CASE va = 1 -> "RO" [] va = 2 -> "none" [] OTHER -> "W"]
====
