----------------------------- MODULE MCScanner -----------------------------
(***************************************************************************)
(* A small scan: a root read in two parts, the first of them naming a      *)
(* subfolder.                                                              *)
(***************************************************************************)
EXTENDS Scanner

MCParts(f) == IF f = "root" THEN <<{"a"}, {}>> ELSE <<{}>>

=============================================================================
