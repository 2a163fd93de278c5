---------------------------- MODULE MCTaskQueue ----------------------------
(***************************************************************************)
(* A small instance of the directory journal: records of different sizes,  *)
(* a chunk smaller than the largest of them.                               *)
(***************************************************************************)
EXTENDS TaskQueue

MCSizeOf(t) == CASE t = "root" -> 2 [] t = "a" -> 2 [] t = "b" -> 3 [] t = "c" -> 4 [] OTHER -> 5

=============================================================================
