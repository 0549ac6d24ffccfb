------------------------ MODULE MCProgrammableClock ------------------------
(* Instances of ProgrammableClock for TLC. *)
EXTENDS ProgrammableClock

CONSTANTS crystal, line

MCRate == {crystal, line}
MCPeriod == [rt \in MCRate |-> IF rt = crystal THEN 1 ELSE 2]

(* Nothing is said of a run in which the guest met a tick.                 *)
CleanOnly == clean
=============================================================================
