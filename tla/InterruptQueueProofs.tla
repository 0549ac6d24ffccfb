------------------------ MODULE InterruptQueueProofs ------------------------
(***************************************************************************)
(* Proofs about InterruptQueue, for every set of lines and every           *)
(* assignment of levels, vectors and tasks to them.                        *)
(***************************************************************************)
EXTENDS InterruptQueue, TLAPS

(* A bus request level is a processor priority. *)
LEMMA LevelPriority == ASSUME NEW l \in Line PROVE Level[l] \in Priority
BY LineAssumption DEF Priority

(* The least and the greatest processor priority. *)
LEMMA ExtremePriority == 0 \in Priority /\ 7 \in Priority
BY DEF Priority

(***************************************************************************)
(* Type correctness.                                                       *)
(***************************************************************************)
THEOREM TypeCorrect == SafeSpec => []TypeOK
<1>1. Init => TypeOK
  BY ExtremePriority DEF Init, TypeOK, Task
<1>2. TypeOK /\ [Next]_vars => TypeOK'
  <2> SUFFICES ASSUME TypeOK, [Next]_vars PROVE TypeOK'
    OBVIOUS
  <2> USE DEF TypeOK, Task, Goto
  <2>1. ASSUME NEW t \in Task, NEW l \in Line, QueueInsert(t, l) PROVE TypeOK'
    BY <2>1 DEF QueueInsert, MayQueue, Acquire
  <2>2. ASSUME NEW t \in Task, QueueHint(t) PROVE TypeOK'
    BY <2>2 DEF QueueHint, Release, Home
  <2>3. ASSUME NEW t \in Task, NEW l \in Line, Unqueue(t, l) PROVE TypeOK'
    BY <2>3 DEF Unqueue, Locked, Home
  <2>4. ASSUME NEW l \in Line, HasQueued(l) PROVE TypeOK'
    BY <2>4 DEF HasQueued, Locked
  <2>5. ASSUME NEW t \in Task, Exec(t) PROVE TypeOK'
    <3>1. CASE ExecBegin(t)
      BY <3>1 DEF ExecBegin, Acquire
    <3>2. CASE ExecNone(t)
      BY <3>2, ExtremePriority DEF ExecNone, ExecReturn, Release, Home
    <3>3. ASSUME NEW l \in Line, ExecDeliver(t, l) PROVE TypeOK'
      BY <3>3, LevelPriority, ExtremePriority
         DEF ExecDeliver, ExecReturn, Release, Home
    <3>4. QED
      BY <2>5, <3>1, <3>2, <3>3 DEF Exec
  <2>6. CASE StepRunning \/ StepWaiting \/ TestAndClearHint \/ Fetch
    BY <2>6 DEF StepRunning, StepWaiting, TestAndClearHint, Fetch, Locked
  <2>7. CASE DelayedTrap
    BY <2>7, ExtremePriority DEF DelayedTrap
  <2>8. CASE Instruction
    <3>1. CASE OtherInstruction
      BY <3>1 DEF OtherInstruction
    <3>2. CASE StackLimit
      BY <3>2 DEF StackLimit
    <3>3. CASE Wait
      BY <3>3 DEF Wait, Locked
    <3>4. CASE ResetQueue
      BY <3>4 DEF ResetQueue
    <3>5. ASSUME NEW p \in Priority, SetPSW(p) PROVE TypeOK'
      BY <3>5 DEF SetPSW
    <3> QED
      BY <2>8, <3>1, <3>2, <3>3, <3>4, <3>5 DEF Instruction
  <2>9. CASE Wake \/ WaitIdle \/ ResetHint \/ ServiceDone
    BY <2>9 DEF Wake, WaitIdle, ResetHint, ServiceDone
  <2>10. CASE UNCHANGED vars
    BY <2>10 DEF vars
  <2>11. QED
    BY <2>1, <2>2, <2>3, <2>4, <2>5, <2>6, <2>7, <2>8, <2>9, <2>10
       DEF Next, CPU, Clock
<1>3. QED
  BY <1>1, <1>2, PTL DEF SafeSpec

-----------------------------------------------------------------------------
(***************************************************************************)
(* No wakeup is lost.  NoLostWakeup is inductive.                          *)
(***************************************************************************)
LEMMA WakeupStep ==
  ASSUME TypeOK, NoLostWakeup, [Next]_vars
  PROVE  NoLostWakeup'
<1> USE DEF NoLostWakeup, TypeOK, Task, Goto, Home
<1>1. ASSUME NEW t \in Task, NEW l \in Line, QueueInsert(t, l)
      PROVE  NoLostWakeup'
  <2>1. pc'[t] = "hint"
    BY <1>1 DEF QueueInsert
  <2>2. QED
    BY <2>1
<1>2. ASSUME NEW t \in Task, QueueHint(t) PROVE NoLostWakeup'
  BY <1>2 DEF QueueHint
<1>3. ASSUME NEW t \in Task, NEW l \in Line, Unqueue(t, l) PROVE NoLostWakeup'
  <2>1. pc[t] \in {"idle", "execute", "service"}
    BY <1>3 DEF Unqueue
  <2>2. \A u \in Task : pc[u] = "hint" => pc'[u] = "hint"
    BY <1>3, <2>1 DEF Unqueue
  <2>3. pc["cpu"] \in {"delayed", "dispatch", "scan"} => pc'["cpu"] = pc["cpu"]
    BY <1>3, <2>1 DEF Unqueue
  <2>4. queued' # {} => queued # {}
    BY <1>3 DEF Unqueue
  <2>5. QED
    BY <1>3, <2>2, <2>3, <2>4 DEF Unqueue
<1>4. ASSUME NEW l \in Line, HasQueued(l) PROVE NoLostWakeup'
  BY <1>4 DEF HasQueued
<1>5. ASSUME NEW t \in Task, Exec(t) PROVE NoLostWakeup'
  <2>1. CASE ExecBegin(t)
    BY <1>5, <2>1 DEF ExecBegin
  <2>2. CASE ExecNone(t)
    BY <1>5, <2>2 DEF ExecNone, ExecReturn
  <2>3. CASE \E l \in Line : ExecDeliver(t, l)
    BY <1>5, <2>3 DEF ExecDeliver, ExecReturn, IsFirst, Above
  <2>4. QED
    BY <1>5, <2>1, <2>2, <2>3 DEF Exec
<1>6. CASE TestAndClearHint
  BY <1>6 DEF TestAndClearHint
<1>7. CASE StepRunning \/ StepWaiting \/ DelayedTrap \/ Fetch
  BY <1>7 DEF StepRunning, StepWaiting, DelayedTrap, Fetch
<1>8. CASE Instruction
  <2>1. CASE OtherInstruction
    BY <2>1 DEF OtherInstruction
  <2>2. CASE StackLimit
    BY <2>2 DEF StackLimit
  <2>3. CASE Wait
    BY <2>3 DEF Wait
  <2>4. CASE ResetQueue
    BY <2>4 DEF ResetQueue
  <2>5. ASSUME NEW p \in Priority, SetPSW(p) PROVE NoLostWakeup'
    BY <2>5 DEF SetPSW
  <2> QED
    BY <1>8, <2>1, <2>2, <2>3, <2>4, <2>5 DEF Instruction
<1>9. CASE Wake \/ WaitIdle \/ ServiceDone
  BY <1>9 DEF Wake, WaitIdle, ServiceDone
<1>10. CASE ResetHint
  BY <1>10 DEF ResetHint
<1>11. CASE UNCHANGED vars
  BY <1>11 DEF vars
<1>12. QED
  BY <1>1, <1>2, <1>3, <1>4, <1>5, <1>6, <1>7, <1>8, <1>9, <1>10, <1>11
     DEF Next, CPU, Clock

(***************************************************************************)
(* While a request is pending the CPU will look at the queue, unless a     *)
(* RESET has cleared the hint of a request that the clock task queued      *)
(* during it.                                                              *)
(***************************************************************************)
THEOREM WakeupNeverLost == SafeSpec => []NoLostWakeup
<1>1. Init => NoLostWakeup
  BY DEF Init, NoLostWakeup, Task
<1>2. TypeOK /\ NoLostWakeup /\ [Next]_vars => NoLostWakeup'
  BY WakeupStep
<1>3. QED
  BY <1>1, <1>2, TypeCorrect, PTL DEF SafeSpec

-----------------------------------------------------------------------------
(***************************************************************************)
(* A stack limit trap is not lost, as long as no RESET clears the hint     *)
(* while delayed_trap is set.  StackTrapNotLost is inductive, too.         *)
(***************************************************************************)
LEMMA StackTrapStep ==
  ASSUME TypeOK, StackTrapNotLost, [Next]_vars
  PROVE  StackTrapNotLost'
<1> USE DEF StackTrapNotLost, TypeOK, Task, Goto, Home
<1>1. ASSUME NEW t \in Task, NEW l \in Line, QueueInsert(t, l) \/ Unqueue(t, l)
      PROVE  StackTrapNotLost'
  BY <1>1 DEF QueueInsert, Unqueue, MayQueue
<1>2. ASSUME NEW l \in Line, HasQueued(l) PROVE StackTrapNotLost'
  BY <1>2 DEF HasQueued
<1>3. ASSUME NEW t \in Task, QueueHint(t) PROVE StackTrapNotLost'
  BY <1>3 DEF QueueHint
<1>4. ASSUME NEW t \in Task, Exec(t) PROVE StackTrapNotLost'
  <2>1. CASE ExecBegin(t)
    BY <2>1 DEF ExecBegin
  <2>2. CASE ExecNone(t)
    BY <2>2 DEF ExecNone, ExecReturn
  <2>3. CASE \E l \in Line : ExecDeliver(t, l)
    BY <2>3 DEF ExecDeliver, ExecReturn, IsFirst, Above
  <2>4. QED
    BY <1>4, <2>1, <2>2, <2>3 DEF Exec
<1>5. CASE StepRunning \/ StepWaiting \/ TestAndClearHint \/ DelayedTrap \/ Fetch
  BY <1>5 DEF StepRunning, StepWaiting, TestAndClearHint, DelayedTrap, Fetch
<1>6. CASE Instruction
  <2>1. CASE OtherInstruction
    BY <2>1 DEF OtherInstruction
  <2>2. CASE StackLimit
    BY <2>2 DEF StackLimit
  <2>3. CASE Wait
    BY <2>3 DEF Wait
  <2>4. CASE ResetQueue
    BY <2>4 DEF ResetQueue
  <2>5. ASSUME NEW p \in Priority, SetPSW(p) PROVE StackTrapNotLost'
    BY <2>5 DEF SetPSW
  <2> QED
    BY <1>6, <2>1, <2>2, <2>3, <2>4, <2>5 DEF Instruction
<1>7. CASE Wake \/ WaitIdle \/ ResetHint \/ ServiceDone
  BY <1>7 DEF Wake, WaitIdle, ResetHint, ServiceDone
<1>8. CASE UNCHANGED vars
  BY <1>8 DEF vars
<1>9. QED
  BY <1>1, <1>2, <1>3, <1>4, <1>5, <1>6, <1>7, <1>8 DEF Next, CPU, Clock

(* A pending yellow or red stack trap keeps its hint until a RESET. *)
THEOREM StackTrapNeverLost == SafeSpec => []StackTrapNotLost
<1>1. Init => StackTrapNotLost
  BY DEF Init, StackTrapNotLost, Task
<1>2. TypeOK /\ StackTrapNotLost /\ [Next]_vars => StackTrapNotLost'
  BY StackTrapStep
<1>3. QED
  BY <1>1, <1>2, TypeCorrect, PTL DEF SafeSpec

-----------------------------------------------------------------------------
(***************************************************************************)
(* What the clock task breaks when it delivers interrupts itself.  If it   *)
(* queues no line that forces delivery, it never gets to the scan; then    *)
(* the level the CPU scans with is the current priority, and the WAIT flag *)
(* is set only by the instruction that finds nothing to deliver.           *)
(***************************************************************************)
ClockForcesNothing == ClkLine \cap ForcedLine = {}

ClockInv ==
  /\ pc["clk"] \in {"idle", "polled", "hint"}
  /\ pc["clk"] \in {"polled", "hint"} => line["clk"] \in ClkLine

LevelInv == pc["cpu"] \in {"scan", "forcedScan"} => level["cpu"] = spl

SleepInv ==
  /\ waiting => pc["cpu"] \in {"service", "step", "hint", "forced", "forcedScan"}
  /\ fresh => ~waiting /\ pc["cpu"] \notin {"execute", "idle"}

LEMMA ClockStep ==
  ASSUME TypeOK, ClockInv, ClockForcesNothing, [Next]_vars
  PROVE  ClockInv'
<1> USE TaskLineAssumption
    DEF ClockInv, ClockForcesNothing, TypeOK, Task, Goto, Home
<1>1. ASSUME NEW t \in Task, NEW l \in Line, QueueInsert(t, l) \/ Unqueue(t, l)
      PROVE  ClockInv'
  <2>1. CASE t = "cpu"
    BY <1>1, <2>1 DEF QueueInsert, Unqueue
  <2>2. CASE t = "clk"
    BY <1>1, <2>2 DEF QueueInsert, Unqueue, MayQueue
  <2>3. QED
    BY <2>1, <2>2
<1>2. ASSUME NEW l \in Line, HasQueued(l) PROVE ClockInv'
  BY <1>2 DEF HasQueued
<1>3. ASSUME NEW t \in Task, QueueHint(t) PROVE ClockInv'
  <2>1. CASE t = "cpu"
    BY <1>3, <2>1 DEF QueueHint
  <2>2. CASE t = "clk"
    BY <1>3, <2>2 DEF QueueHint
  <2>3. QED
    BY <2>1, <2>2
<1>4. ASSUME NEW t \in Task, Exec(t) PROVE ClockInv'
  <2>1. t = "cpu"
    BY <1>4 DEF Exec, ExecBegin, ExecNone, ExecDeliver
  <2>2. QED
    BY <1>4, <2>1 DEF Exec, ExecBegin, ExecNone, ExecDeliver, ExecReturn
<1>5. CASE StepRunning \/ StepWaiting \/ TestAndClearHint \/ DelayedTrap \/ Fetch
  BY <1>5 DEF StepRunning, StepWaiting, TestAndClearHint, DelayedTrap, Fetch
<1>6. CASE Instruction
  <2>1. CASE OtherInstruction
    BY <2>1 DEF OtherInstruction
  <2>2. CASE StackLimit
    BY <2>2 DEF StackLimit
  <2>3. CASE Wait
    BY <2>3 DEF Wait
  <2>4. CASE ResetQueue
    BY <2>4 DEF ResetQueue
  <2>5. ASSUME NEW p \in Priority, SetPSW(p) PROVE ClockInv'
    BY <2>5 DEF SetPSW
  <2> QED
    BY <1>6, <2>1, <2>2, <2>3, <2>4, <2>5 DEF Instruction
<1>7. CASE Wake \/ WaitIdle \/ ResetHint \/ ServiceDone
  BY <1>7 DEF Wake, WaitIdle, ResetHint, ServiceDone
<1>8. CASE UNCHANGED vars
  BY <1>8 DEF vars
<1>9. QED
  BY <1>1, <1>2, <1>3, <1>4, <1>5, <1>6, <1>7, <1>8 DEF Next, CPU, Clock

LEMMA LevelSleepStep ==
  ASSUME TypeOK, ClockInv, LevelInv, SleepInv, [Next]_vars
  PROVE  LevelInv' /\ SleepInv'
<1> USE DEF ClockInv, LevelInv, SleepInv, TypeOK, Task, Goto, Home
<1>1. ASSUME NEW t \in Task, NEW l \in Line, QueueInsert(t, l) \/ Unqueue(t, l)
      PROVE  LevelInv' /\ SleepInv'
  BY <1>1 DEF QueueInsert, Unqueue, MayQueue
<1>2. ASSUME NEW l \in Line, HasQueued(l) PROVE LevelInv' /\ SleepInv'
  BY <1>2 DEF HasQueued
<1>3. ASSUME NEW t \in Task, QueueHint(t) PROVE LevelInv' /\ SleepInv'
  BY <1>3 DEF QueueHint
<1>4. ASSUME NEW t \in Task, Exec(t) PROVE LevelInv' /\ SleepInv'
  <2>1. t = "cpu"
    BY <1>4 DEF Exec, ExecBegin, ExecNone, ExecDeliver
  <2>2. CASE ExecBegin(t)
    BY <2>1, <2>2 DEF ExecBegin
  <2>3. CASE ExecNone(t)
    BY <2>1, <2>3 DEF ExecNone, ExecReturn
  <2>4. CASE \E l \in Line : ExecDeliver(t, l)
    BY <2>1, <2>4 DEF ExecDeliver, ExecReturn
  <2>5. QED
    BY <1>4, <2>2, <2>3, <2>4 DEF Exec
<1>5. CASE StepRunning \/ StepWaiting \/ TestAndClearHint \/ Fetch
  BY <1>5 DEF StepRunning, StepWaiting, TestAndClearHint, Fetch
<1>6. CASE DelayedTrap
  BY <1>6 DEF DelayedTrap
<1>7. CASE Instruction
  <2>1. CASE OtherInstruction
    BY <2>1 DEF OtherInstruction
  <2>2. CASE StackLimit
    BY <2>2 DEF StackLimit
  <2>3. CASE Wait
    BY <2>3 DEF Wait
  <2>4. CASE ResetQueue
    BY <2>4 DEF ResetQueue
  <2>5. ASSUME NEW p \in Priority, SetPSW(p) PROVE LevelInv' /\ SleepInv'
    BY <2>5 DEF SetPSW
  <2> QED
    BY <1>7, <2>1, <2>2, <2>3, <2>4, <2>5 DEF Instruction
<1>8. CASE Wake \/ WaitIdle \/ ResetHint \/ ServiceDone
  BY <1>8 DEF Wake, WaitIdle, ResetHint, ServiceDone
<1>9. CASE UNCHANGED vars
  BY <1>9 DEF vars
<1>10. QED
  BY <1>1, <1>2, <1>3, <1>4, <1>5, <1>6, <1>7, <1>8, <1>9 DEF Next, CPU, Clock

LEMMA ClockLeavesDelivery ==
  ASSUME ClockForcesNothing
  PROVE  SafeSpec => [](TypeOK /\ ClockInv /\ LevelInv /\ SleepInv)
<1>1. Init => ClockInv /\ LevelInv /\ SleepInv
  BY DEF Init, ClockInv, LevelInv, SleepInv, Task
<1>2. TypeOK /\ ClockInv /\ LevelInv /\ SleepInv /\ [Next]_vars
        => ClockInv' /\ LevelInv' /\ SleepInv'
  BY ClockStep, LevelSleepStep
<1>3. QED
  BY <1>1, <1>2, TypeCorrect, PTL DEF SafeSpec

(***************************************************************************)
(* A handler starts on a CPU that is not waiting ...                       *)
(***************************************************************************)
THEOREM HandlerRuns ==
  ASSUME ClockForcesNothing
  PROVE  SafeSpec => []HandlerNotIdle
<1>1. SleepInv => HandlerNotIdle
  BY DEF SleepInv, HandlerNotIdle
<1>2. QED
  BY <1>1, ClockLeavesDelivery, PTL

(***************************************************************************)
(* ... every request was accepted above the priority of that moment ...    *)
(***************************************************************************)
THEOREM MaskingHolds ==
  ASSUME ClockForcesNothing
  PROVE  SafeSpec => Masking
<1>1. TypeOK /\ ClockInv /\ LevelInv
        => \A t \in Task, l \in Line : ExecDeliver(t, l) => Level[l] > spl
  <2> SUFFICES ASSUME ClockInv, LevelInv,
                      NEW t \in Task, NEW l \in Line, ExecDeliver(t, l)
               PROVE  Level[l] > spl
    OBVIOUS
  <2>1. t = "cpu"
    BY DEF ExecDeliver, ClockInv, Task
  <2>2. QED
    BY <2>1 DEF ExecDeliver, IsFirst, Above, LevelInv
<1>2. TypeOK /\ ClockInv /\ LevelInv
        => [\A t \in Task, l \in Line : ExecDeliver(t, l) => Level[l] > spl]_vars
  BY <1>1
<1>3. QED
  BY <1>2, ClockLeavesDelivery, PTL DEF Masking, SafeSpec

-----------------------------------------------------------------------------
(***************************************************************************)
(* ... and the two tasks together implement the architecture's interrupt   *)
(* system: each of their steps raises, withdraws, cancels or accepts       *)
(* requests, sets the priority, or is invisible to the guest.              *)
(***************************************************************************)
LEMMA StepImplements ==
  ASSUME TypeOK, ClockInv, LevelInv, [Next]_vars
  PROVE  [Architecture!Next]_<<queued, spl>>
<1> USE DEF Architecture!Next, Architecture!Raise, Architecture!Withdraw,
            Architecture!SetPriority
<1>1. ASSUME NEW t \in Task, NEW l \in Line, QueueInsert(t, l) \/ Unqueue(t, l)
      PROVE  Architecture!Next
  BY <1>1 DEF QueueInsert, Unqueue
<1>2. ASSUME NEW t \in Task, NEW l \in Line, ExecDeliver(t, l)
      PROVE  Architecture!Next
  <2>1. t = "cpu"
    BY <1>2 DEF ExecDeliver, ClockInv, Task
  <2>2. Architecture!Accept(l)
    BY <1>2, <2>1 DEF ExecDeliver, LevelInv, Architecture!Accept,
                      Architecture!IsFirst, Architecture!Above,
                      Architecture!Before, IsFirst, Above, Before
  <2>3. QED
    BY <2>2
<1>3. CASE ResetQueue
  BY <1>3 DEF ResetQueue, Architecture!CancelAll
<1>4. ASSUME NEW p \in Priority, SetPSW(p)
      PROVE  Architecture!Next
  BY <1>4 DEF SetPSW, Architecture!Priority, Priority
<1>5. CASE DelayedTrap
  BY <1>5, ExtremePriority DEF DelayedTrap, Architecture!Priority, Priority
<1>6. ASSUME \/ \E t \in Task : QueueHint(t) \/ ExecBegin(t) \/ ExecNone(t)
             \/ \E l \in Line : HasQueued(l)
             \/ StepRunning \/ StepWaiting \/ TestAndClearHint \/ Fetch
             \/ OtherInstruction \/ StackLimit \/ Wait
             \/ Wake \/ WaitIdle \/ ResetHint \/ ServiceDone
             \/ UNCHANGED vars
      PROVE  UNCHANGED <<queued, spl>>
  BY <1>6 DEF QueueHint, ExecBegin, ExecNone, HasQueued, StepRunning,
              StepWaiting, TestAndClearHint, Fetch, OtherInstruction,
              StackLimit, Wait, Wake, WaitIdle, ResetHint, ServiceDone, vars
<1>7. QED
  BY <1>1, <1>2, <1>3, <1>4, <1>5, <1>6
     DEF Next, CPU, Clock, Exec, Instruction, Task

THEOREM Implementation ==
  ASSUME ClockForcesNothing
  PROVE  SafeSpec => Architecture!SafeSpec
<1>1. Init => Architecture!Init
  BY DEF Init, Architecture!Init
<1>2. TypeOK /\ ClockInv /\ LevelInv /\ [Next]_vars
        => [Architecture!Next]_<<queued, spl>>
  BY StepImplements
<1>3. QED
  BY <1>1, <1>2, ClockLeavesDelivery, PTL
     DEF SafeSpec, Architecture!SafeSpec, Architecture!reqVars
=============================================================================
