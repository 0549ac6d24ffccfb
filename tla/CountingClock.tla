---------------------------- MODULE CountingClock ----------------------------
(***************************************************************************)
(* What the KW11-P promises the guest: a counter that moves by one each    *)
(* time the selected rate's period of guest instructions has gone by, and  *)
(* that expires when it reaches zero.  Nothing is deferred here: the count *)
(* happens at the instruction that ends the period.                        *)
(***************************************************************************)
EXTENDS Naturals

CONSTANTS
  Modulus,    (* the counter and its buffer hold 0 .. Modulus - 1          *)
  Rate,       (* the inputs the counter can be clocked from                *)
  Period      (* instructions per count, by rate                           *)

VARIABLE clock

Value == 0 .. Modulus - 1

Stopped(rt) == [go |-> FALSE, ie |-> FALSE, repeat |-> FALSE, up |-> FALSE,
                rate |-> rt]

Cleared(rt) ==
  [control |-> Stopped(rt), err |-> FALSE, done |-> FALSE, irq |-> FALSE,
   csb |-> 0, cntr |-> 0, phase |-> 0]

Forgotten(c) == [c EXCEPT !.err = FALSE, !.done = FALSE, !.irq = FALSE]

(* Reaching zero is an error when the last expiry was not acknowledged. *)
Expire(c) ==
  [c EXCEPT !.err = @ \/ c.done, !.done = TRUE, !.irq = @ \/ c.control.ie,
            !.csb = IF c.control.repeat THEN @ ELSE 0,
            !.cntr = IF c.control.repeat THEN c.csb ELSE 0,
            !.control.go = @ /\ c.control.repeat]

Count(c) ==
  LET next == (c.cntr + (IF c.control.up THEN 1 ELSE Modulus - 1)) % Modulus
      moved == [c EXCEPT !.cntr = next, !.phase = 0]
  IN  IF next = 0 THEN Expire(moved) ELSE moved

AfterInstruction(c) ==
  IF ~c.control.go THEN c
  ELSE IF c.phase + 1 = Period[c.control.rate] THEN Count(c)
  ELSE [c EXCEPT !.phase = @ + 1]

(* Starting, or another rate, loads the counter; FIX is a count by hand.   *)
AfterControl(c, w, fix) ==
  LET kept == [Forgotten(c) EXCEPT !.control = w]
      same == c.control.go /\ c.control.rate = w.rate
  IN  CASE w.go /\ same -> kept
        [] w.go /\ ~same -> [kept EXCEPT !.cntr = c.csb, !.phase = 0]
        [] ~w.go /\ fix -> [Count(kept) EXCEPT !.phase = 0]
        [] ~w.go /\ ~fix -> [kept EXCEPT !.phase = 0]

AfterLoad(c, v) ==
  [Forgotten(c) EXCEPT !.csb = v, !.cntr = v, !.phase = 0]

(* From c to d: an instruction, a write of the control register (which     *)
(* leaves what was written), a write of the buffer, a read of the control  *)
(* register, an interrupt delivered, a reset.                              *)
Step(c, d) ==
  \/ d = AfterInstruction(c)
  \/ \E fix \in BOOLEAN : d = AfterControl(c, d.control, fix)
  \/ \E v \in Value : d = AfterLoad(c, v)
  \/ d = Forgotten(c)
  \/ c.irq /\ d = [c EXCEPT !.irq = FALSE]
  \/ \E rt \in Rate : d = Cleared(rt)

Init == \E rt \in Rate : clock = Cleared(rt)
Next == Step(clock, clock')
==============================================================================
