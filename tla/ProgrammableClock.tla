-------------------------- MODULE ProgrammableClock --------------------------
(***************************************************************************)
(* The KW11-P.  The guest's instructions only advance an instruction       *)
(* counter; the device owes the counts of the instructions it has not seen *)
(* yet and pays them in one go, by division, when the guest touches a      *)
(* register (on core 1) and when the line clock task ticks (on core 0).    *)
(*                                                                         *)
(* A tick is two steps, its loads and its stores; an access by the guest   *)
(* is one, taken at its stores.  The history `clean` becomes FALSE when    *)
(* the two overlap, and when a byte write merges a register that the same  *)
(* write then brings up to date.                                           *)
(***************************************************************************)
EXTENDS Naturals

CONSTANTS
  Modulus,    (* values of the 16-bit registers: 2^16 in the code          *)
  Rate,       (* the selectable inputs                                     *)
  Period,     (* period_instr: instructions per count, by input            *)
  MaxOwed     (* bound: instructions between two updates                   *)

ASSUME ClockAssumption ==
  /\ Modulus \in Nat \ {0, 1}
  /\ Rate # {}
  /\ Period \in [Rate -> Nat \ {0}]
  /\ MaxOwed \in Nat

VARIABLES
  reg,      (* csr, csb, cntr and irq_pending                              *)
  rest,     (* remainder_instr                                             *)
  owed,     (* guest_instr_now() - last_instr                              *)
  tick,     (* the next step of the line clock task's pass                 *)
  copy,     (* the tick's copies of the registers and of what it pays      *)
  clean     (* history                                                     *)

vars == <<reg, rest, owed, tick, copy, clean>>

Value == 0 .. Modulus - 1

(* CSR_WRMASK, without FIX, which is not kept apart from one count.        *)
Control == [go : BOOLEAN, ie : BOOLEAN, repeat : BOOLEAN, up : BOOLEAN,
            rate : Rate]
Register == [control : Control, err : BOOLEAN, done : BOOLEAN,
             irq : BOOLEAN, csb : Value, cntr : Value]
State == [reg : Register, rest : Nat]

Off(rt) == [go |-> FALSE, ie |-> FALSE, repeat |-> FALSE, up |-> FALSE,
            rate |-> rt]
Blank(rt) == [control |-> Off(rt), err |-> FALSE, done |-> FALSE,
              irq |-> FALSE, csb |-> 0, cntr |-> 0]
NoCopy(rt) == [reg |-> Blank(rt), rest |-> 0, owed |-> 0]

-----------------------------------------------------------------------------
(***************************************************************************)
(* update_clock, as an operator on the registers and the remainder.        *)
(***************************************************************************)
Acknowledged(r) == [r EXCEPT !.err = FALSE, !.done = FALSE, !.irq = FALSE]

StepsToExpiry(r, value) ==
  LET n == IF r.control.up THEN Modulus - value ELSE value
  IN  IF n = 0 THEN Modulus ELSE n

(* Mutant: the sum is not cut to the counter's width. *)
AdvanceWide(r, n) ==
  [r EXCEPT !.cntr = @ + (IF r.control.up THEN n ELSE Modulus - n)]

AdvanceWithoutExpiry(r, n) ==
  [r EXCEPT !.cntr = (@ + (IF r.control.up THEN n ELSE Modulus - n)) % Modulus]

(* Mutant: several expirations at once are recorded as one. *)
RecordOne(r, n) ==
  [r EXCEPT !.err = @ \/ r.done, !.done = TRUE, !.irq = @ \/ r.control.ie]

RecordExpirations(r, n) ==
  [r EXCEPT !.err = @ \/ r.done \/ n > 1, !.done = TRUE,
            !.irq = @ \/ r.control.ie]

(* One pass through zero, in single mode: the counter stops.               *)
ExpireOnce(r) ==
  [RecordExpirations([r EXCEPT !.cntr = 0], 1)
     EXCEPT !.csb = 0, !.control.go = FALSE]

(* Repeat mode: n counts are left after the first expiry.                  *)
ExpireRepeatedly(r, n) ==
  LET loaded == [r EXCEPT !.cntr = r.csb]
      cycle == StepsToExpiry(loaded, r.csb)
  IN  RecordExpirations(AdvanceWithoutExpiry(loaded, n % cycle),
                        1 + n \div cycle)

(* n counts, n > 0, of a running clock; `left` is the remainder.           *)
AdvanceSteps(r, n, left) ==
  LET first == StepsToExpiry(r, r.cntr)
  IN  CASE n < first ->
             [reg |-> AdvanceWithoutExpiry(r, n), rest |-> left]
        [] n >= first /\ ~r.control.repeat ->
             [reg |-> ExpireOnce(r), rest |-> 0]
        [] n >= first /\ r.control.repeat ->
             [reg |-> ExpireRepeatedly(r, n - first), rest |-> left]

(* Mutant: what is left of a period is dropped. *)
UpdatedDropsRest(r, left, elapsed) ==
  LET steps == elapsed \div Period[r.control.rate]
  IN  IF ~r.control.go \/ steps = 0 THEN [reg |-> r, rest |-> 0]
      ELSE AdvanceSteps(r, steps, 0)

Updated(r, left, elapsed) ==
  LET period == Period[r.control.rate]
      steps == (left + elapsed) \div period
      keep == (left + elapsed) % period
  IN  CASE ~r.control.go -> [reg |-> r, rest |-> 0]
        [] r.control.go /\ steps = 0 -> [reg |-> r, rest |-> keep]
        [] r.control.go /\ steps > 0 -> AdvanceSteps(r, steps, keep)

-----------------------------------------------------------------------------
(***************************************************************************)
(* The guest, on core 1.                                                   *)
(***************************************************************************)
(* A tick has read what it will pay. *)
Unpaid == owed + (IF tick = "store" THEN copy.owed ELSE 0)
Now == Updated(reg, rest, owed)
Set(s) == reg' = s.reg /\ rest' = s.rest
(* An access between the loads and the stores of a tick meets it.          *)
Access(harmless) ==
  /\ owed' = 0
  /\ clean' = (clean /\ harmless /\ tick # "store")
  /\ UNCHANGED <<tick, copy>>

Instruction ==
  /\ Unpaid < MaxOwed
  /\ owed' = owed + 1
  /\ UNCHANGED <<reg, rest, tick, copy, clean>>

(* Reading the control register acknowledges the expiry.                   *)
ReadCSR ==
  /\ Set([Now EXCEPT !.reg = Acknowledged(@)])
  /\ Access(TRUE)

(* Reading the counter or the buffer, and writing the counter, which the   *)
(* code ignores.                                                           *)
ReadCounter == Set(Now) /\ Access(TRUE)

(* manual_tick. *)
ManualTick(r) ==
  LET n == AdvanceWithoutExpiry(r, 1)
      loaded == IF r.control.repeat THEN [n EXCEPT !.cntr = n.csb]
                ELSE [n EXCEPT !.csb = 0]
  IN  IF n.cntr # 0 THEN n ELSE RecordExpirations(loaded, 1)

StoreCSR(w, fix) ==
  LET s == Now
      r == [s.reg EXCEPT !.control = w, !.err = FALSE, !.done = FALSE,
                         !.irq = FALSE]
      same == s.reg.control.go /\ s.reg.control.rate = w.rate
  IN  Set(CASE w.go /\ same -> [reg |-> r, rest |-> s.rest]
            [] w.go /\ ~same -> [reg |-> [r EXCEPT !.cntr = r.csb],
                                 rest |-> 0]
            [] ~w.go -> [reg |-> IF fix THEN ManualTick(r) ELSE r,
                         rest |-> 0])

WriteCSR(w, fix) == StoreCSR(w, fix) /\ Access(TRUE)

(* A byte write of the high half, which has no writable bit, writes the    *)
(* low half back as it was before the update.                              *)
WriteCSRHigh ==
  /\ StoreCSR(reg.control, FALSE)
  /\ Access(Now.reg.control = reg.control)

(* A byte write stores some mixture of v and the buffer: another v.        *)
WriteCSB(v) ==
  /\ Set([reg |-> [Acknowledged(Now.reg) EXCEPT !.csb = v, !.cntr = v],
          rest |-> 0])
  /\ Access(TRUE)

(* RESET by the guest or the host; the host's waits for the task's pass.   *)
Reset(rt) ==
  /\ Set([reg |-> Blank(rt), rest |-> 0])
  /\ Access(TRUE)

-----------------------------------------------------------------------------
(***************************************************************************)
(* The line clock task, on core 0.                                         *)
(***************************************************************************)
TickLoad ==
  /\ tick = "idle"
  /\ copy' = [reg |-> reg, rest |-> rest, owed |-> owed]
  /\ owed' = 0
  /\ tick' = "store"
  /\ UNCHANGED <<reg, rest, clean>>

(* If the guest came between, either the copies or what it stored may be   *)
(* what the tick adds to.                                                  *)
TickStore ==
  /\ tick = "store"
  /\ \E s \in {[reg |-> copy.reg, rest |-> copy.rest],
               [reg |-> reg, rest |-> rest]} :
       Set(Updated(s.reg, s.rest, copy.owed))
  /\ copy' = NoCopy(reg.control.rate)
  /\ tick' = "take"
  /\ UNCHANGED <<owed, clean>>

(* take_interrupt; what follows queues (6, 0104) at the CPU.               *)
TakeInterrupt ==
  /\ tick = "take"
  /\ reg' = [reg EXCEPT !.irq = FALSE]
  /\ tick' = "idle"
  /\ UNCHANGED <<rest, owed, copy, clean>>

-----------------------------------------------------------------------------
Init ==
  \E rt \in Rate :
    /\ reg = Blank(rt)
    /\ rest = 0
    /\ owed = 0
    /\ tick = "idle"
    /\ copy = NoCopy(rt)
    /\ clean = TRUE

Next ==
  \/ Instruction
  \/ ReadCSR
  \/ ReadCounter
  \/ \E w \in Control : \E fix \in {FALSE, ~w.go} : WriteCSR(w, fix)
  \/ WriteCSRHigh
  \/ \E v \in Value : WriteCSB(v)
  \/ \E rt \in Rate : Reset(rt)
  \/ TickLoad
  \/ TickStore
  \/ TakeInterrupt

Spec == Init /\ [][Next]_vars

-----------------------------------------------------------------------------
(* Every register holds a value of its width, whatever the guest and the   *)
(* tick do to each other (update_clock, write_word).                       *)
TypeOK ==
  /\ reg \in Register
  /\ rest \in Nat
  /\ owed \in 0 .. MaxOwed
  /\ tick \in {"idle", "store", "take"}
  /\ copy.reg \in Register /\ copy.rest \in Nat /\ copy.owed \in 0 .. MaxOwed
  /\ clean \in BOOLEAN

(* What the clock would show if what it owes were paid now.                *)
Shown ==
  LET s == Updated(reg, rest, Unpaid)
  IN  [control |-> s.reg.control, err |-> s.reg.err, done |-> s.reg.done,
       irq |-> s.reg.irq, csb |-> s.reg.csb, cntr |-> s.reg.cntr,
       phase |-> s.rest]

Promise == INSTANCE CountingClock WITH clock <- Shown

(* Paying late and by division is not noticed: every register, and the     *)
(* request for an interrupt, is what a counter that moves at the end of    *)
(* each period would hold, however many expirations are paid at once       *)
(* (advance_steps, record_expirations).                                    *)
Counts == Promise!Init /\ [][clean' => Promise!Next]_<<Shown, clean>>
=============================================================================
