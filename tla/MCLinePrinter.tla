--------------------------- MODULE MCLinePrinter ---------------------------
(* Instances of LinePrinter for TLC. *)
EXTENDS LinePrinter

(* The invariants say nothing of a run in which two tasks have met, so a   *)
(* run is followed up to that point, or to the end of a requeue.           *)
CleanOnly == clean \/ PuttingBack
=============================================================================
