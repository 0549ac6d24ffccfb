---------------------------- MODULE ByteChannel ----------------------------
(***************************************************************************)
(* What a console byte queue promises: at most Capacity bytes are pending; *)
(* a byte is refused only when that many are; the reader receives every    *)
(* accepted byte once and in order, unless it discards a prefix.           *)
(***************************************************************************)
EXTENDS Naturals, Sequences

CONSTANTS Byte, Capacity

VARIABLES
  pending,    (* the accepted bytes the reader has not taken               *)
  out,        (* the bytes the reader took last                            *)
  accepted    (* the outcome of the last attempt to write                  *)

channelVars == <<pending, out, accepted>>

Rest(n) == SubSeq(pending, n + 1, Len(pending))

Put(b) ==
  /\ Len(pending) < Capacity
  /\ pending' = Append(pending, b)
  /\ accepted' = TRUE
  /\ UNCHANGED out

Refuse ==
  /\ Len(pending) = Capacity
  /\ accepted' = FALSE
  /\ UNCHANGED <<pending, out>>

Take(n) ==
  /\ out' = SubSeq(pending, 1, n)
  /\ pending' = Rest(n)
  /\ UNCHANGED accepted

Discard(n) ==
  /\ pending' = Rest(n)
  /\ UNCHANGED <<out, accepted>>

Init == pending = <<>> /\ out = <<>> /\ accepted = TRUE

Next ==
  \/ \E b \in Byte : Put(b)
  \/ Refuse
  \/ \E n \in 1 .. Len(pending) : Take(n) \/ Discard(n)

Spec == Init /\ [][Next]_channelVars
=============================================================================
