--------------------------- MODULE InterruptQueue ---------------------------
(***************************************************************************)
(* The CPU's queue of bus requests as two tasks share it: core 1 runs the  *)
(* guest ("cpu"), core 0 runs the 1 ms line clock task ("clk").            *)
(*                                                                         *)
(* queued_interrupts is protected by the mutex qi_lock.  step_impl does    *)
(* not take that lock for every instruction: it looks at the atomic hint   *)
(* any_queued_interrupts, clears it, and only then scans the queue.  The   *)
(* hint must therefore never be FALSE while a request is pending, unless a *)
(* task has already committed itself to look.  There is one step per       *)
(* access to the hint, to the queue under its lock, to the priority and to *)
(* the WAIT flag, so that the two tasks interleave between them.           *)
(***************************************************************************)
EXTENDS InterruptLines

CONSTANTS
  CpuLine,      (* lines core 1 queues: register writes, deferred service  *)
  ClkLine,      (* lines core 0 queues: KL11, KW11-L, KW11-P, LP11, DEUNA  *)
  PolledLine,   (* queued only when not queued already (KW11-L tick)       *)
  ForcedLine,   (* queue_interrupt is followed by a call of                *)
                (* execute_any_pending_interrupt (LP11, DEUNA, RL02)       *)
  NoLine        (* not a line                                              *)

ASSUME TaskLineAssumption ==
  /\ CpuLine \subseteq Line
  /\ ClkLine \subseteq Line
  /\ PolledLine \subseteq ClkLine
  /\ ForcedLine \subseteq Line
  /\ NoLine \notin Line

VARIABLES
  queued,   (* queued_interrupts: the lines whose request is pending       *)
  spl,      (* processor priority, PSW bits 7:5                             *)
  any,      (* any_queued_interrupts                                       *)
  lock,     (* holder of qi_lock, or "free"                                *)
  waiting,  (* the guest executed WAIT and no request has ended it         *)
  delayed,  (* delayed_trap has a value (yellow or red stack zone)         *)
  fresh,    (* history: a handler was vectored to and has not run yet      *)
  swept,    (* history: a RESET cleared the hint of a request or a trap    *)
  line,     (* line[t]: argument of the queue_interrupt call of task t     *)
  level,    (* level[t]: current_level in execute_any_pending_interrupt    *)
  pc        (* pc[t]: the next access of task t                            *)

vars ==
  <<queued, spl, any, lock, waiting, delayed, fresh, swept, line, level, pc>>

Task == {"cpu", "clk"}

Goto(t, where) == pc' = [pc EXCEPT ![t] = where]

Acquire(t) == lock = "free" /\ lock' = t
Release == lock' = "free"
(* qi_lock is taken and given back within the step. *)
Locked == lock = "free" /\ UNCHANGED lock

(* Where a task goes on after a call made by an instruction or a device. *)
Home(t) == IF t = "cpu" THEN "service" ELSE "idle"

-----------------------------------------------------------------------------
(***************************************************************************)
(* queue_interrupt, unqueue_interrupt, has_queued_interrupt.  The CPU      *)
(* calls them from an instruction that accesses a device register          *)
(* ("execute") and from deferred device service ("service"), the clock     *)
(* task between two devices ("idle").  A polled line is looked up first.   *)
(***************************************************************************)
MayQueue(t, l) ==
  \/ t = "cpu" /\ l \in CpuLine /\ pc[t] \in {"execute", "service"}
  \/ t = "clk" /\ l \in ClkLine \ PolledLine /\ pc[t] = "idle"
  \/ t = "clk" /\ pc[t] = "polled" /\ l = line[t]

(* The insertion, under the lock ... *)
QueueInsert(t, l) ==
  /\ MayQueue(t, l)
  /\ Acquire(t)
  /\ queued' = queued \union {l}
  /\ line' = [line EXCEPT ![t] = l]
  /\ Goto(t, "hint")
  /\ UNCHANGED <<spl, any, waiting, delayed, fresh, level, swept>>

(* ... and the hint, which is read without the lock. *)
QueueHint(t) ==
  /\ pc[t] = "hint"
  /\ any' = TRUE
  /\ Release
  /\ line' = [line EXCEPT ![t] = NoLine]
  /\ Goto(t, IF line[t] \in ForcedLine THEN "forced" ELSE Home(t))
  /\ UNCHANGED <<queued, spl, waiting, delayed, fresh, level, swept>>

Unqueue(t, l) ==
  /\ \/ t = "cpu" /\ l \in CpuLine /\ pc[t] \in {"execute", "service"}
     \/ t = "clk" /\ l \in ClkLine /\ pc[t] = "idle"
  /\ Locked
  /\ queued' = queued \ {l}
  /\ Goto(t, Home(t))
  /\ UNCHANGED <<spl, any, waiting, delayed, fresh, line, level, swept>>

HasQueued(l) ==
  /\ pc["clk"] = "idle"
  /\ l \in PolledLine \ queued
  /\ Locked
  /\ line' = [line EXCEPT !["clk"] = l]
  /\ Goto("clk", "polled")
  /\ UNCHANGED <<queued, spl, any, waiting, delayed, fresh, level, swept>>

-----------------------------------------------------------------------------
(***************************************************************************)
(* execute_any_pending_interrupt: called by step_impl ("dispatch"), by     *)
(* WAIT and by the devices that force delivery ("forced").  current_level  *)
(* is read once the lock is held; the scan re-arms the hint when it finds  *)
(* any request, masked or not, and traps to at most one.  Pushing PSW and  *)
(* PC may enter the yellow stack zone.                                     *)
(***************************************************************************)
ExecBegin(t) ==
  /\ pc[t] \in {"dispatch", "forced"}
  /\ Acquire(t)
  /\ level' = [level EXCEPT ![t] = spl]
  /\ Goto(t, IF pc[t] = "dispatch" THEN "scan" ELSE "forcedScan")
  /\ UNCHANGED <<queued, spl, any, waiting, delayed, fresh, line, swept>>

(* Mutant: the scan does not re-arm the hint for what it leaves behind. *)
ExecReturnForgets(t) ==
  /\ Release
  /\ level' = [level EXCEPT ![t] = 0]
  /\ Goto(t, IF pc[t] = "scan" THEN "fetch" ELSE Home(t))
  /\ UNCHANGED <<any, line, swept>>

ExecReturn(t) ==
  /\ Release
  /\ any' = (any \/ queued # {})
  /\ level' = [level EXCEPT ![t] = 0]
  /\ Goto(t, IF pc[t] = "scan" THEN "fetch" ELSE Home(t))
  /\ UNCHANGED <<line, swept>>

ExecNone(t) ==
  /\ pc[t] \in {"scan", "forcedScan"}
  /\ Above(queued, level[t]) = {}
  /\ ExecReturn(t)
  /\ UNCHANGED <<queued, spl, waiting, delayed, fresh>>

(* Mutant: a request at the processor's own level is taken. *)
ExecDeliverAtLevel(t, l) ==
  /\ pc[t] \in {"scan", "forcedScan"}
  /\ l \in queued /\ Level[l] >= level[t]
  /\ queued' = queued \ {l}
  /\ spl' = Level[l]
  /\ waiting' = FALSE
  /\ fresh' = TRUE
  /\ delayed' \in {delayed, TRUE}
  /\ ExecReturn(t)

(* Mutant: any acceptable request of the scan is taken, not the first. *)
ExecDeliverUnordered(t, l) ==
  /\ pc[t] \in {"scan", "forcedScan"}
  /\ l \in Above(queued, level[t])
  /\ queued' = queued \ {l}
  /\ spl' = Level[l]
  /\ waiting' = FALSE
  /\ fresh' = TRUE
  /\ delayed' \in {delayed, TRUE}
  /\ ExecReturn(t)

(* Mutant: vectoring leaves the WAIT flag as it is. *)
ExecDeliverAsleep(t, l) ==
  /\ pc[t] \in {"scan", "forcedScan"}
  /\ IsFirst(l, queued, level[t])
  /\ queued' = queued \ {l}
  /\ spl' = Level[l]
  /\ fresh' = TRUE
  /\ delayed' \in {delayed, TRUE}
  /\ ExecReturn(t)
  /\ UNCHANGED waiting

ExecDeliver(t, l) ==
  /\ pc[t] \in {"scan", "forcedScan"}
  /\ IsFirst(l, queued, level[t])
  /\ queued' = queued \ {l}
  /\ spl' = Level[l]
  /\ waiting' = FALSE
  /\ fresh' = TRUE
  /\ delayed' \in {delayed, TRUE}
  /\ ExecReturn(t)

-----------------------------------------------------------------------------
(***************************************************************************)
(* step_impl up to the instruction fetch.                                  *)
(***************************************************************************)
StepRunning ==
  /\ pc["cpu"] = "step"
  /\ ~waiting
  /\ Goto("cpu", "test")
  /\ UNCHANGED <<queued, spl, any, lock, waiting, delayed, fresh,
                 line, level, swept>>

(* Mutant: a waiting CPU goes on waiting whatever is queued. *)
StepWaitingDeaf ==
  /\ pc["cpu"] = "step"
  /\ waiting
  /\ Locked
  /\ Goto("cpu", "service")
  /\ UNCHANGED <<queued, spl, any, waiting, delayed, fresh,
                 line, level, swept>>

(* A waiting CPU looks under the lock and goes back to the run loop. *)
StepWaiting ==
  /\ pc["cpu"] = "step"
  /\ waiting
  /\ Locked
  /\ waiting' = (Above(queued, spl) = {})
  /\ Goto("cpu", IF Above(queued, spl) = {} THEN "service" ELSE "test")
  /\ UNCHANGED <<queued, spl, any, delayed, fresh, line, level, swept>>

TestAndClearHint ==
  /\ pc["cpu"] = "test"
  /\ any' = FALSE
  /\ Goto("cpu", IF any THEN "delayed" ELSE "fetch")
  /\ UNCHANGED <<queued, spl, lock, waiting, delayed, fresh,
                 line, level, swept>>

(* A delayed trap raises the priority to 7; its own pushes may set the     *)
(* hint again, but delayed_trap is reset after them.                       *)
DelayedTrap ==
  /\ pc["cpu"] = "delayed"
  /\ Goto("cpu", "dispatch")
  /\ delayed' = FALSE
  /\ IF delayed
       THEN spl' = 7 /\ fresh' = TRUE /\ any' \in {any, TRUE}
       ELSE UNCHANGED <<spl, fresh, any>>
  /\ UNCHANGED <<queued, lock, waiting, line, level, swept>>

Fetch ==
  /\ pc["cpu"] = "fetch"
  /\ fresh' = FALSE
  /\ Goto("cpu", "execute")
  /\ UNCHANGED <<queued, spl, any, lock, waiting, delayed, line, level, swept>>

-----------------------------------------------------------------------------
(***************************************************************************)
(* The instructions that touch this state.                                 *)
(***************************************************************************)
OtherInstruction ==
  /\ pc["cpu"] = "execute"
  /\ Goto("cpu", "service")
  /\ UNCHANGED <<queued, spl, any, lock, waiting, delayed, fresh,
                 line, level, swept>>

(* Mutant: the priority field is not masked to three bits. *)
SetPSWUnmasked(p) ==
  /\ pc["cpu"] = "execute"
  /\ spl' = p + 8
  /\ Goto("cpu", "service")
  /\ UNCHANGED <<queued, any, lock, waiting, delayed, fresh,
                 line, level, swept>>

(* setPSW, setPSW_spl: SPL, MTPS, RTI, RTT, writes to the PSW, traps. *)
SetPSW(p) ==
  /\ pc["cpu"] = "execute"
  /\ spl' = p
  /\ Goto("cpu", IF p < spl THEN "wake" ELSE "service")
  /\ UNCHANGED <<queued, any, lock, waiting, delayed, fresh,
                 line, level, swept>>

(* Mutant: the stack limit check does not set the hint. *)
StackLimitSilent ==
  /\ pc["cpu"] = "execute"
  /\ delayed' = TRUE
  /\ Goto("cpu", "service")
  /\ UNCHANGED <<queued, spl, any, lock, waiting, fresh, line, level, swept>>

(* push_stack, check_stack_limit_write in the yellow or red zone. *)
StackLimit ==
  /\ pc["cpu"] = "execute"
  /\ delayed' = TRUE
  /\ Goto("cpu", "wake")
  /\ UNCHANGED <<queued, spl, any, lock, waiting, fresh, line, level, swept>>

Wake ==
  /\ pc["cpu"] = "wake"
  /\ any' = TRUE
  /\ Goto("cpu", "service")
  /\ UNCHANGED <<queued, spl, lock, waiting, delayed, fresh,
                 line, level, swept>>

(* WAIT looks under the lock; only then does it set the flag. *)
Wait ==
  /\ pc["cpu"] = "execute"
  /\ Locked
  /\ Goto("cpu", IF Above(queued, spl) = {} THEN "idle" ELSE "forced")
  /\ UNCHANGED <<queued, spl, any, waiting, delayed, fresh,
                 line, level, swept>>

WaitIdle ==
  /\ pc["cpu"] = "idle"
  /\ waiting' = TRUE
  /\ Goto("cpu", "service")
  /\ UNCHANGED <<queued, spl, any, lock, delayed, fresh, line, level, swept>>

(* RESET: init_interrupt_queue clears queue and hint without the lock; the *)
(* clock task may queue a request in between.                              *)
ResetQueue ==
  /\ pc["cpu"] = "execute"
  /\ queued' = {}
  /\ Goto("cpu", "reset")
  /\ UNCHANGED <<spl, any, lock, waiting, delayed, fresh, line, level, swept>>

ResetHint ==
  /\ pc["cpu"] = "reset"
  /\ any' = FALSE
  /\ swept' = (swept \/ queued # {} \/ delayed)
  /\ Goto("cpu", "service")
  /\ UNCHANGED <<queued, spl, lock, waiting, delayed, fresh, line, level>>

(* The run loop has served its devices and calls step_impl. *)
ServiceDone ==
  /\ pc["cpu"] = "service"
  /\ Goto("cpu", "step")
  /\ UNCHANGED <<queued, spl, any, lock, waiting, delayed, fresh,
                 line, level, swept>>

-----------------------------------------------------------------------------
(* cpu::cpu and cpu::reset: an empty queue, PSW 0, not waiting. *)
Init ==
  /\ queued = {} /\ any = FALSE /\ lock = "free"
  /\ spl = 0 /\ waiting = FALSE /\ delayed = FALSE
  /\ fresh = FALSE /\ swept = FALSE
  /\ line = [t \in Task |-> NoLine]
  /\ level = [t \in Task |-> 0]
  /\ pc = [t \in Task |-> IF t = "cpu" THEN "service" ELSE "idle"]

Exec(t) == ExecBegin(t) \/ ExecNone(t) \/ \E l \in Line : ExecDeliver(t, l)

Clock ==
  \/ \E l \in Line : QueueInsert("clk", l) \/ Unqueue("clk", l) \/ HasQueued(l)
  \/ QueueHint("clk")
  \/ Exec("clk")

Instruction ==
  \/ OtherInstruction \/ StackLimit \/ Wait \/ ResetQueue
  \/ \E p \in Priority : SetPSW(p)

CPU ==
  \/ StepRunning \/ StepWaiting \/ TestAndClearHint \/ DelayedTrap \/ Fetch
  \/ Instruction \/ Wake \/ WaitIdle \/ ResetHint \/ ServiceDone
  \/ \E l \in Line : QueueInsert("cpu", l) \/ Unqueue("cpu", l)
  \/ QueueHint("cpu")
  \/ Exec("cpu")

Next == CPU \/ Clock

SafeSpec == Init /\ [][Next]_vars

(***************************************************************************)
(* The run loop keeps stepping and serves its devices a bounded number of  *)
(* times in between; the clock task sleeps between its passes and never    *)
(* while it holds qi_lock, so a task that waits for the lock gets it.      *)
(***************************************************************************)
Fairness ==
  /\ WF_vars(StepRunning \/ TestAndClearHint \/ DelayedTrap \/ Fetch)
  /\ WF_vars(Instruction \/ Wake \/ WaitIdle \/ ResetHint)
  /\ SF_vars(ServiceDone)
  /\ SF_vars(StepWaiting)
  /\ \A t \in Task : WF_vars(QueueHint(t)) /\ SF_vars(Exec(t))

Spec == SafeSpec /\ Fairness

-----------------------------------------------------------------------------
(***************************************************************************)
(* Properties.                                                             *)
(***************************************************************************)
TypeOK ==
  /\ queued \subseteq Line
  /\ spl \in Priority
  /\ any \in BOOLEAN /\ waiting \in BOOLEAN
  /\ delayed \in BOOLEAN /\ fresh \in BOOLEAN /\ swept \in BOOLEAN
  /\ lock \in Task \union {"free"}
  /\ line \in [Task -> Line \union {NoLine}]
  /\ level \in [Task -> Priority]
  /\ pc \in [Task -> {"idle", "polled", "hint", "forced", "forcedScan", "scan",
                     "service", "step", "test", "delayed", "dispatch", "fetch",
                     "execute", "wake", "reset"}]

(***************************************************************************)
(* No wakeup is lost: while a request is pending, masked or not, the hint  *)
(* is set, or the CPU has consumed it and is on its way to the scan, or    *)
(* the task that inserted the request is about to set it.  Only a RESET    *)
(* that clears the hint after a request of the other task breaks this.     *)
(***************************************************************************)
NoLostWakeup ==
  ~swept /\ queued # {} =>
    \/ any
    \/ pc["cpu"] \in {"delayed", "dispatch", "scan"}
    \/ \E t \in Task : pc[t] = "hint"

(***************************************************************************)
(* A stack limit trap is not lost either: until it is taken the hint that  *)
(* makes step_impl look at delayed_trap is set or about to be, RESET apart.*)
(***************************************************************************)
StackTrapNotLost ==
  ~swept /\ delayed => any \/ pc["cpu"] \in {"delayed", "wake"}

(***************************************************************************)
(* A CPU that was vectored to a handler is not idle: WAIT has ended before *)
(* the first instruction of the handler is due.                            *)
(***************************************************************************)
HandlerNotIdle == fresh => ~waiting

(***************************************************************************)
(* Masking: a request is accepted only when its level exceeds the          *)
(* priority the processor has at that moment.                              *)
(***************************************************************************)
Masking ==
  [][\A t \in Task, l \in Line : ExecDeliver(t, l) => Level[l] > spl]_vars

(***************************************************************************)
(* Whatever the two tasks do, the guest sees the architecture's interrupt  *)
(* system: requests accepted in order, above its priority, and none        *)
(* forgotten unless a RESET has swept its hint away.                       *)
(***************************************************************************)
Architecture == INSTANCE InterruptRequests
ImplementsRequests ==
  /\ Architecture!SafeSpec
  /\ ([]~swept) => Architecture!Liveness

(***************************************************************************)
(* The guest sleeps in WAIT only while no request can be accepted.         *)
(***************************************************************************)
WaitEnds ==
  waiting /\ Above(queued, spl) # {} ~> ~waiting \/ Above(queued, spl) = {}

(***************************************************************************)
(* A request above the processor priority is granted: it does not stay     *)
(* pending while the priority lets it through.  The code does not keep     *)
(* this (README, 3): RESET clears the hint of a request queued meanwhile.  *)
(***************************************************************************)
RequestGranted ==
  \A l \in Line : l \in Above(queued, spl) ~> l \notin Above(queued, spl)
=============================================================================
