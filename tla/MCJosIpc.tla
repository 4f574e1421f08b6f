------------------------------ MODULE MCJosIpc ------------------------------
(* Model values for checking JosIpc with TLC: env 2 is the file server. *)
EXTENDS JosIpc, TLC

CONSTANTS c1, c2

MCCPUs == {c1, c2}
MCEnvType == [e \in 0..2 |-> IF e = 2 THEN "ENV_TYPE_FS" ELSE "ENV_TYPE_USER"]
MCGoodPgs == {"null", "aligned"}
MCAllPgs == {"null", "aligned", "unaligned"}
====
