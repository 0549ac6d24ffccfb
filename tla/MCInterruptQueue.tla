-------------------------- MODULE MCInterruptQueue --------------------------
(***************************************************************************)
(* Instances of InterruptQueue for TLC: KL11 receiver (4, 060), line       *)
(* printer (4, 0200), RL02 (5, 0160) and KW11-L (6, 0100).                 *)
(***************************************************************************)
EXTENDS InterruptQueue

MCLevel == [l \in Line |-> CASE l = "KL11" -> 4 [] l = "LP11" -> 4
                             [] l = "RL02" -> 5 [] l = "KW11L" -> 6]
MCVec == [l \in Line |-> CASE l = "KL11" -> 48 [] l = "LP11" -> 128
                           [] l = "RL02" -> 112 [] l = "KW11L" -> 64]
=============================================================================
