--------------------------- MODULE MCSessionSweep ---------------------------
(***************************************************************************)
(* A small instance of sessions and sweeps for TLC.                        *)
(***************************************************************************)
EXTENDS SessionSweep

MCDirs == {"left", "a"}
MCLeftovers == {"left"}
MCWorking == {"runs", "index"}

=============================================================================
