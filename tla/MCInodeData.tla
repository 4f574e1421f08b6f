---------------------------- MODULE MCInodeData ----------------------------
(* Constants for checking InodeData with TLC. *)
EXTENDS InodeData

MCInodes == {1, 2}
====
