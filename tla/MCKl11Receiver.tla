--------------------------- MODULE MCKl11Receiver ---------------------------
(* Instances of Kl11Receiver for TLC. *)
EXTENDS Kl11Receiver

(* Two keys, for the order; an injected byte, for the priority.            *)
MCLimit == [s \in Source |-> CASE s = "keys" -> 2 [] s = "control" -> 1
                               [] s = "telnet" -> 0]

(* Little is claimed after the tasks have crossed.                         *)
NotCrossed == ~crossed
=============================================================================
