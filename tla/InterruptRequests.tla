------------------------- MODULE InterruptRequests -------------------------
(***************************************************************************)
(* What the PDP-11/70 promises a guest about bus requests, independent of  *)
(* how the emulator's tasks share the work: devices raise and withdraw     *)
(* requests, the program sets the processor priority, and the processor    *)
(* accepts the first request above its priority, taking that request's     *)
(* level as its own.                                                       *)
(***************************************************************************)
EXTENDS InterruptLines

VARIABLES
  queued,   (* the lines whose request is pending                          *)
  spl       (* processor priority, PSW bits 7:5                            *)

reqVars == <<queued, spl>>

Raise(l) == queued' = queued \union {l} /\ UNCHANGED spl

Withdraw(l) == queued' = queued \ {l} /\ UNCHANGED spl

(* The RESET instruction cancels every pending request. *)
CancelAll == queued' = {} /\ UNCHANGED spl

SetPriority(p) == spl' = p /\ UNCHANGED queued

Accept(l) ==
  /\ IsFirst(l, queued, spl)
  /\ queued' = queued \ {l}
  /\ spl' = Level[l]

Init == queued = {} /\ spl = 0

Next ==
  \/ \E l \in Line : Raise(l) \/ Withdraw(l) \/ Accept(l)
  \/ CancelAll
  \/ \E p \in Priority : SetPriority(p)

SafeSpec == Init /\ [][Next]_reqVars

(* A request that stays acceptable is accepted. *)
Liveness == WF_reqVars(\E l \in Line : Accept(l))

Spec == SafeSpec /\ Liveness
=============================================================================
