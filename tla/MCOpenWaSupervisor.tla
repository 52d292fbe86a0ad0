------------------------- MODULE MCOpenWaSupervisor -------------------------
(* Small instances of OpenWaSupervisor for TLC.                            *)
EXTENDS OpenWaSupervisor

CONSTANTS c1, c2, c3, r1, r2
=============================================================================
