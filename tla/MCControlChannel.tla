-------------------------- MODULE MCControlChannel --------------------------
(* Instances of ControlChannel for TLC. *)
EXTENDS ControlChannel

(* Each kind of command, OPEN with what it can name, with and without a    *)
(* reply.                                                                  *)
Sent ==
  [do : {"open"}, mark : {TRUE}, notify : {TRUE}, reply : {TRUE}]
    \cup [do : {"open"}, mark : {FALSE}, notify : {FALSE}, reply : {FALSE}]
    \cup [do : {"ask", "reboot"}, reply : {FALSE}]
    \cup [do : {"close"}, reply : {TRUE}]
    \cup [do : {"hex"}, max : {2}] \cup [do : {"ascii"}]

(* Behaviours in which the tasks use the ring and the receiver in turn.    *)
Alone == ~raced
=============================================================================
