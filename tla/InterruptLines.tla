--------------------------- MODULE InterruptLines ---------------------------
(***************************************************************************)
(* Bus request lines and the order in which the processor serves them.  A  *)
(* line stands for one (level, vector) pair that a device of the emulator  *)
(* queues, e.g. (6, 0100) of the KW11-L.                                   *)
(***************************************************************************)
EXTENDS Naturals

CONSTANTS
  Line,     (* the request lines                                           *)
  Level,    (* Level[l]: bus request level of line l                       *)
  Vec       (* Vec[l]: trap vector of line l                               *)

ASSUME LineAssumption ==
  /\ Level \in [Line -> 1 .. 7]
  /\ Vec \in [Line -> Nat]
  /\ \A l, m \in Line : Level[l] = Level[m] /\ Vec[l] = Vec[m] => l = m

Priority == 0 .. 7

(* The requests of q that a processor at priority p accepts. *)
Above(q, p) == {l \in q : Level[l] > p}

(* Highest level first, within a level lowest vector first. *)
Before(l, m) ==
  \/ Level[l] > Level[m]
  \/ Level[l] = Level[m] /\ Vec[l] <= Vec[m]

IsFirst(l, q, p) ==
  /\ l \in Above(q, p)
  /\ \A m \in Above(q, p) : Before(l, m)
=============================================================================
