------------------------------ MODULE LineClock ------------------------------
(***************************************************************************)
(* The KW11-L line clock, and how a reset keeps its service out.  Core 0   *)
(* ("clk") calls service_line_clock every millisecond; core 1 ("cpu") runs *)
(* the guest, which writes the clock's CSR and executes RESET, and runs    *)
(* the host's reset() and cold_boot().  Those two are bracketed by         *)
(* begin_reset_transaction and end_reset_transaction: each task announces  *)
(* itself in a flag of its own and looks at the other's.  A release store  *)
(* may reach the other core after a later acquire load of its own, so each *)
(* task has a store buffer of one store.                                   *)
(***************************************************************************)
EXTENDS Naturals, Sequences

VARIABLES
  flag,      (* flag["cpu"]: g_reset_in_progress; flag["clk"]:             *)
             (* g_clock_service_active                                     *)
  buf,       (* buf[t]: a store to flag[t] the other core cannot see yet   *)
  csr,       (* lf_csr: the monitor bit 0200 and interrupt enable 0100     *)
  copy,      (* the CSR as service_line_clock read it                      *)
  requests,  (* how often (6, 0100) is in the interrupt queue              *)
  ran,       (* instructions_executed # 0                                  *)
  base,      (* g_last_clock_instr # 0                                     *)
  due,       (* kInstrPerTick instructions, or 17 ms of WAIT, since then   *)
  wanted,    (* history: the guest asked for interrupts since the reset    *)
  quiet,     (* history: the guest left the clock alone since a reset ended *)
  kept,      (* history: the last reset kept the clock task out            *)
  pc         (* pc[t]: the next access of task t                           *)

vars == <<flag, buf, csr, copy, requests, ran, base, due, wanted, quiet, kept, pc>>

Task == {"cpu", "clk"}
Bit == {"monitor", "enable"}

Goto(t, where) == pc' = [pc EXCEPT ![t] = where]

(* A store to the task's own flag, and the moment it reaches memory. *)
Announce(t, v) ==
  /\ buf[t] = <<>>
  /\ buf' = [buf EXCEPT ![t] = <<v>>]
  /\ UNCHANGED flag

Drain(t) ==
  /\ buf[t] # <<>>
  /\ flag' = [flag EXCEPT ![t] = Head(buf[t])]
  /\ buf' = [buf EXCEPT ![t] = <<>>]
  /\ UNCHANGED <<csr, copy, requests, ran, base, due, wanted, quiet, kept, pc>>

-----------------------------------------------------------------------------
(***************************************************************************)
(* The guest.                                                              *)
(***************************************************************************)
Instruction ==
  /\ pc["cpu"] = "run" /\ ~ran
  /\ ran' = TRUE
  /\ UNCHANGED <<flag, buf, csr, copy, requests, base, due, wanted, quiet, kept, pc>>

TickDue ==
  /\ pc["cpu"] = "run" /\ ran /\ base /\ ~due
  /\ due' = TRUE
  /\ UNCHANGED <<flag, buf, csr, copy, requests, ran, base, wanted, quiet, kept, pc>>

(* A write to 177546: kw11_l::write_word, under the CSR's lock. *)
GuestWrite(bits) ==
  /\ pc["cpu"] = "run"
  /\ csr' = bits
  /\ wanted' = ("enable" \in bits)
  /\ quiet' = FALSE
  /\ UNCHANGED <<flag, buf, copy, requests, ran, base, due, kept, pc>>

Accept ==
  /\ pc["cpu"] = "run" /\ requests > 0
  /\ requests' = requests - 1
  /\ UNCHANGED <<flag, buf, csr, copy, ran, base, due, wanted, quiet, kept, pc>>

-----------------------------------------------------------------------------
(***************************************************************************)
(* Host reset: reset() and cold_boot().                                    *)
(***************************************************************************)
BeginReset ==
  /\ pc["cpu"] = "run"
  /\ Announce("cpu", TRUE)
  /\ Goto("cpu", "drain")
  /\ UNCHANGED <<csr, copy, requests, ran, base, due, wanted, quiet, kept>>

(* No announcement is on its way when the reset looks at the clock's flag. *)
Settled == \A t \in Task : buf[t] = <<>>

(* Mutant: the reset does not wait for the pass that is under way. *)
AwaitClockNot ==
  /\ pc["cpu"] = "drain"
  /\ kept' = Settled /\ quiet' = FALSE
  /\ Goto("cpu", "baseline")
  /\ UNCHANGED <<flag, buf, csr, copy, requests, ran, base, due, wanted>>

(* The wait for g_clock_service_active ... *)
AwaitClock ==
  /\ pc["cpu"] = "drain" /\ ~flag["clk"]
  /\ kept' = Settled /\ quiet' = FALSE
  /\ Goto("cpu", "baseline")
  /\ UNCHANGED <<flag, buf, csr, copy, requests, ran, base, due, wanted>>

(* ... which gives up after a second, and the reset goes on. *)
AwaitGivesUp ==
  /\ pc["cpu"] = "drain" /\ flag["clk"]
  /\ kept' = FALSE
  /\ Goto("cpu", "baseline")
  /\ UNCHANGED <<flag, buf, csr, copy, requests, ran, base, due, wanted, quiet>>

(* clear_run_state_for_boot *)
ClearBaseline ==
  /\ pc["cpu"] = "baseline"
  /\ base' = FALSE
  /\ due' = FALSE
  /\ Goto("cpu", "unqueue")
  /\ UNCHANGED <<flag, buf, csr, copy, requests, ran, wanted, quiet, kept>>

-----------------------------------------------------------------------------
(***************************************************************************)
(* The part a host reset shares with the RESET instruction: kw11_l::reset  *)
(* withdraws the request and then writes the CSR, and the queue is cleared *)
(* last.                                                                   *)
(***************************************************************************)
GuestInit ==
  /\ pc["cpu"] = "run"
  /\ kept' = FALSE
  /\ Goto("cpu", "unqueueRESET")
  /\ UNCHANGED <<flag, buf, csr, copy, requests, ran, base, due, wanted, quiet>>

ResetUnqueue ==
  /\ pc["cpu"] \in {"unqueue", "unqueueRESET"}
  /\ requests' = 0
  /\ Goto("cpu", IF pc["cpu"] = "unqueue" THEN "csr" ELSE "csrRESET")
  /\ UNCHANGED <<flag, buf, csr, copy, ran, base, due, wanted, quiet, kept>>

ResetCsr ==
  /\ pc["cpu"] \in {"csr", "csrRESET"}
  /\ csr' = {"monitor"}
  /\ wanted' = FALSE
  /\ Goto("cpu", IF pc["cpu"] = "csr" THEN "queue" ELSE "queueRESET")
  /\ UNCHANGED <<flag, buf, copy, requests, ran, base, due, quiet, kept>>

(* cpu::reset also zeroes the instruction count; a baseline that were    *)
(* still set would then lie ahead of it and the next tick be due at once. *)
ResetQueue ==
  /\ pc["cpu"] = "queue"
  /\ requests' = 0
  /\ ran' = FALSE
  /\ due' = base
  /\ quiet' = TRUE
  /\ Goto("cpu", "end")
  /\ UNCHANGED <<flag, buf, csr, copy, base, wanted, kept>>

GuestResetQueue ==
  /\ pc["cpu"] = "queueRESET"
  /\ requests' = 0
  /\ quiet' = TRUE
  /\ Goto("cpu", "run")
  /\ UNCHANGED <<flag, buf, csr, copy, ran, base, due, wanted, kept>>

EndReset ==
  /\ pc["cpu"] = "end"
  /\ Announce("cpu", FALSE)
  /\ Goto("cpu", "run")
  /\ UNCHANGED <<csr, copy, requests, ran, base, due, wanted, quiet, kept>>

-----------------------------------------------------------------------------
(***************************************************************************)
(* service_line_clock.  The flag of the reset is looked at before and      *)
(* after the pass announces itself.                                        *)
(***************************************************************************)
(* Mutant: the pass announces itself whether or not a reset is under way. *)
TestResetSkipped ==
  /\ pc["clk"] = "sleep"
  /\ Goto("clk", "announce")
  /\ UNCHANGED <<flag, buf, csr, copy, requests, ran, base, due, wanted, quiet, kept>>

TestReset ==
  /\ pc["clk"] = "sleep"
  /\ ~flag["cpu"]
  /\ Goto("clk", "announce")
  /\ UNCHANGED <<flag, buf, csr, copy, requests, ran, base, due, wanted, quiet, kept>>

AnnouncePass ==
  /\ pc["clk"] = "announce"
  /\ Announce("clk", TRUE)
  /\ Goto("clk", "retest")
  /\ UNCHANGED <<csr, copy, requests, ran, base, due, wanted, quiet, kept>>

(* Mutant: the flag of the reset is not looked at again. *)
RetestResetSkipped ==
  /\ pc["clk"] = "retest"
  /\ Goto("clk", "tick")
  /\ UNCHANGED <<flag, buf, csr, copy, requests, ran, base, due, wanted, quiet, kept>>

RetestReset ==
  /\ pc["clk"] = "retest"
  /\ Goto("clk", IF flag["cpu"] THEN "finish" ELSE "tick")
  /\ UNCHANGED <<flag, buf, csr, copy, requests, ran, base, due, wanted, quiet, kept>>

(* The devices served before the clock leave its state alone. *)
TakeBaseline ==
  /\ pc["clk"] = "tick" /\ ~base
  /\ base' = ran
  /\ due' = FALSE
  /\ Goto("clk", "finish")
  /\ UNCHANGED <<flag, buf, csr, copy, requests, ran, wanted, quiet, kept>>

TestDue ==
  /\ pc["clk"] = "tick" /\ base
  /\ Goto("clk", IF due THEN "read" ELSE "finish")
  /\ base' = IF due THEN ran ELSE base
  /\ due' = FALSE
  /\ UNCHANGED <<flag, buf, csr, copy, requests, ran, wanted, quiet, kept>>

(* The monitor bit is set by a read and a write that lock one at a time. *)
ReadCsr ==
  /\ pc["clk"] = "read"
  /\ copy' = csr
  /\ Goto("clk", "write")
  /\ UNCHANGED <<flag, buf, csr, requests, ran, base, due, wanted, quiet, kept>>

WriteCsr ==
  /\ pc["clk"] = "write"
  /\ csr' = copy \union {"monitor"}
  /\ Goto("clk", IF "enable" \in copy THEN "request" ELSE "finish")
  /\ UNCHANGED <<flag, buf, copy, requests, ran, base, due, wanted, quiet, kept>>

(* Mutant: a tick is an event, queued again while one is still queued. *)
RequestAgain ==
  /\ pc["clk"] = "request"
  /\ requests' = requests + 1
  /\ Goto("clk", "finish")
  /\ UNCHANGED <<flag, buf, csr, copy, ran, base, due, wanted, quiet, kept>>

(* Mutant: the test for a queued request is inverted. *)
RequestInverted ==
  /\ pc["clk"] = "request"
  /\ requests' = IF requests = 1 THEN 1 ELSE 0
  /\ Goto("clk", "finish")
  /\ UNCHANGED <<flag, buf, csr, copy, ran, base, due, wanted, quiet, kept>>

(* has_queued_interrupt, then queue_interrupt: the request is a level. *)
Request ==
  /\ pc["clk"] = "request"
  /\ requests' = 1
  /\ Goto("clk", "finish")
  /\ UNCHANGED <<flag, buf, csr, copy, ran, base, due, wanted, quiet, kept>>

FinishPass ==
  /\ pc["clk"] = "finish"
  /\ Announce("clk", FALSE)
  /\ Goto("clk", "sleep")
  /\ UNCHANGED <<csr, copy, requests, ran, base, due, wanted, quiet, kept>>

-----------------------------------------------------------------------------
(* The machine as setup() leaves it after the first reset. *)
Init ==
  /\ flag = [t \in Task |-> FALSE]
  /\ buf = [t \in Task |-> <<>>]
  /\ csr = {"monitor"} /\ copy = {} /\ requests = 0
  /\ ran = FALSE /\ base = FALSE /\ due = FALSE
  /\ wanted = FALSE /\ quiet = TRUE /\ kept = TRUE
  /\ pc = [t \in Task |-> IF t = "cpu" THEN "run" ELSE "sleep"]

Guest ==
  \/ Instruction \/ TickDue \/ Accept \/ GuestInit
  \/ \E bits \in SUBSET Bit : GuestWrite(bits)

Reset ==
  \/ AwaitClock \/ ClearBaseline \/ ResetUnqueue \/ ResetCsr
  \/ ResetQueue \/ GuestResetQueue \/ EndReset

Clock ==
  \/ TestReset \/ AnnouncePass \/ RetestReset \/ TakeBaseline \/ TestDue
  \/ ReadCsr \/ WriteCsr \/ Request \/ FinishPass

Next ==
  \/ Guest \/ BeginReset \/ AwaitGivesUp \/ Reset \/ Clock
  \/ \E t \in Task : Drain(t)

SafeSpec == Init /\ [][Next]_vars

(***************************************************************************)
(* The clock task and a reset that has begun keep going, and a running     *)
(* guest executes instructions; nobody has to write the CSR, to accept a   *)
(* request or to reset.                                                    *)
(***************************************************************************)
Fairness ==
  /\ WF_vars(Clock) /\ WF_vars(Reset)
  /\ WF_vars(Instruction) /\ WF_vars(TickDue)
  /\ \A t \in Task : WF_vars(Drain(t))

Spec == SafeSpec /\ Fairness

-----------------------------------------------------------------------------
(***************************************************************************)
(* Properties.                                                             *)
(***************************************************************************)
TypeOK ==
  /\ flag \in [Task -> BOOLEAN]
  /\ buf \in [Task -> {<<>>, <<TRUE>>, <<FALSE>>}]
  /\ csr \subseteq Bit /\ copy \subseteq Bit
  /\ requests \in 0 .. 1
  /\ ran \in BOOLEAN /\ base \in BOOLEAN /\ due \in BOOLEAN
  /\ wanted \in BOOLEAN /\ quiet \in BOOLEAN /\ kept \in BOOLEAN
  /\ pc["cpu"] \in {"run", "drain", "baseline", "unqueue", "csr", "queue",
                    "end", "unqueueRESET", "csrRESET", "queueRESET"}
  /\ pc["clk"] \in {"sleep", "announce", "retest", "tick", "read", "write",
                    "request", "finish"}

(***************************************************************************)
(* A host reset excludes the clock service: while reset() or cold_boot()   *)
(* clears the machine no pass is touching a device, the CSR or the queue,  *)
(* unless the wait gave up or a flag was still on its way.                 *)
(***************************************************************************)
ResetExclusive ==
  kept /\ pc["cpu"] \in {"baseline", "unqueue", "csr", "queue", "end"} =>
    pc["clk"] \notin {"tick", "read", "write", "request"}

(***************************************************************************)
(* After such a reset the clock is quiet until the program it boots asks   *)
(* for interrupts: no enable bit and no request survive from the program   *)
(* that ran before, however the reset cut into a pass of the clock task.   *)
(***************************************************************************)
ResetQuiet == kept /\ quiet => "enable" \notin csr /\ requests = 0

(***************************************************************************)
(* The interrupt is gated by the enable bit: none is queued unless the     *)
(* program asked for interrupts and has not revoked it.  The code does not *)
(* keep this (README, 3): a tick stores back the enable bit it has read.   *)
(***************************************************************************)
EnableGates == [][requests' > requests => wanted]_vars

(***************************************************************************)
(* A program that leaves interrupts enabled gets one: ticks are not lost   *)
(* to the baseline, to a reset or to the handshake.                        *)
(***************************************************************************)
EnabledTicks == "enable" \in csr ~> requests > 0 \/ "enable" \notin csr

(***************************************************************************)
(* A reset ends: the clock task cannot keep the handshake busy for ever,   *)
(* even if the wait never gives up.                                        *)
(***************************************************************************)
ResetEnds == pc["cpu"] = "drain" ~> pc["cpu"] = "run"
=============================================================================
