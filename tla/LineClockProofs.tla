--------------------------- MODULE LineClockProofs ---------------------------
(***************************************************************************)
(* Proofs about LineClock: what a reset that settled with the clock task   *)
(* may rely on.                                                            *)
(***************************************************************************)
EXTENDS LineClock, TLAPS

(***************************************************************************)
(* Type correctness, in the parts TypeOK has.                              *)
(***************************************************************************)
CpuPlace == {"run", "drain", "baseline", "unqueue", "csr", "queue", "end",
             "unqueueRESET", "csrRESET", "queueRESET"}
ClkPlace == {"sleep", "announce", "retest", "tick", "read", "write",
             "request", "finish"}

Stores ==
  /\ flag \in [Task -> BOOLEAN]
  /\ buf \in [Task -> {<<>>, <<TRUE>>, <<FALSE>>}]
Registers == csr \subseteq Bit /\ copy \subseteq Bit /\ requests \in 0 .. 1
Facts ==
  /\ ran \in BOOLEAN /\ base \in BOOLEAN /\ due \in BOOLEAN
  /\ wanted \in BOOLEAN /\ quiet \in BOOLEAN /\ kept \in BOOLEAN
Places ==
  /\ pc \in [Task -> CpuPlace \cup ClkPlace]
  /\ pc["cpu"] \in CpuPlace /\ pc["clk"] \in ClkPlace

Types == Stores /\ Registers /\ Facts /\ Places

LEMMA TypesOK == Types => TypeOK
BY DEF Types, Stores, Registers, Facts, Places, TypeOK, CpuPlace, ClkPlace

LEMMA StoresStep == ASSUME Stores, [Next]_vars PROVE Stores'
<1> USE DEF Stores, Task
<1>1. CASE Instruction \/ TickDue \/ Accept \/ GuestInit
  BY <1>1 DEF Instruction, TickDue, Accept, GuestInit
<1>2. ASSUME NEW bits \in SUBSET Bit, GuestWrite(bits) PROVE Stores'
  BY <1>2 DEF GuestWrite
<1>3. CASE BeginReset \/ EndReset
  BY <1>3 DEF BeginReset, EndReset, Announce
<1>4. CASE AwaitGivesUp \/ AwaitClock \/ ClearBaseline
  BY <1>4 DEF AwaitGivesUp, AwaitClock, ClearBaseline
<1>5. CASE ResetUnqueue \/ ResetCsr \/ ResetQueue \/ GuestResetQueue
  BY <1>5 DEF ResetUnqueue, ResetCsr, ResetQueue, GuestResetQueue
<1>6. CASE AnnouncePass \/ FinishPass
  BY <1>6 DEF AnnouncePass, FinishPass, Announce
<1>7. CASE TestReset \/ RetestReset \/ TakeBaseline \/ TestDue
  BY <1>7 DEF TestReset, RetestReset, TakeBaseline, TestDue
<1>8. CASE ReadCsr \/ WriteCsr \/ Request
  BY <1>8 DEF ReadCsr, WriteCsr, Request
<1>9. ASSUME NEW t \in Task, Drain(t) PROVE Stores'
  <2>1. PICK v \in BOOLEAN : buf[t] = <<v>>
    BY <1>9 DEF Drain
  <2>2. Head(buf[t]) = v
    BY <2>1
  <2> QED
    BY <1>9, <2>1, <2>2 DEF Drain
<1>10. CASE UNCHANGED vars
  BY <1>10 DEF vars
<1> QED
  BY <1>1, <1>2, <1>3, <1>4, <1>5, <1>6, <1>7, <1>8, <1>9, <1>10
     DEF Next, Guest, Reset, Clock

LEMMA RegistersStep == ASSUME Registers, [Next]_vars PROVE Registers'
<1> USE DEF Registers, Bit
<1>1. CASE Instruction
  BY <1>1 DEF Instruction
<1>2. CASE TickDue
  BY <1>2 DEF TickDue
<1>3. CASE Accept
  BY <1>3 DEF Accept
<1>4. CASE GuestInit
  BY <1>4 DEF GuestInit
<1>5. ASSUME NEW bits \in SUBSET Bit, GuestWrite(bits) PROVE Registers'
  BY <1>5 DEF GuestWrite
<1>6. CASE BeginReset
  BY <1>6 DEF BeginReset, Announce
<1>7. CASE EndReset
  BY <1>7 DEF EndReset, Announce
<1>8. CASE AwaitGivesUp
  BY <1>8 DEF AwaitGivesUp
<1>9. CASE AwaitClock
  BY <1>9 DEF AwaitClock
<1>10. CASE ClearBaseline
  BY <1>10 DEF ClearBaseline
<1>11. CASE ResetUnqueue
  BY <1>11 DEF ResetUnqueue
<1>12. CASE ResetCsr
  BY <1>12 DEF ResetCsr
<1>13. CASE ResetQueue
  BY <1>13 DEF ResetQueue
<1>14. CASE GuestResetQueue
  BY <1>14 DEF GuestResetQueue
<1>15. CASE AnnouncePass
  BY <1>15 DEF AnnouncePass, Announce
<1>16. CASE FinishPass
  BY <1>16 DEF FinishPass, Announce
<1>17. CASE TestReset
  BY <1>17 DEF TestReset
<1>18. CASE RetestReset
  BY <1>18 DEF RetestReset
<1>19. CASE TakeBaseline
  BY <1>19 DEF TakeBaseline
<1>20. CASE TestDue
  BY <1>20 DEF TestDue
<1>21. CASE ReadCsr
  BY <1>21 DEF ReadCsr
<1>22. CASE WriteCsr
  BY <1>22 DEF WriteCsr
<1>23. CASE Request
  BY <1>23 DEF Request
<1>24. ASSUME NEW t \in Task, Drain(t) PROVE Registers'
  BY <1>24 DEF Drain
<1>25. CASE UNCHANGED vars
  BY <1>25 DEF vars
<1> QED
  BY <1>1, <1>2, <1>3, <1>4, <1>5, <1>6, <1>7, <1>8, <1>9, <1>10, <1>11,
     <1>12, <1>13, <1>14, <1>15, <1>16, <1>17, <1>18, <1>19, <1>20, <1>21,
     <1>22, <1>23, <1>24, <1>25
     DEF Next, Guest, Reset, Clock

LEMMA FactsStep == ASSUME Facts, [Next]_vars PROVE Facts'
<1> USE DEF Facts
<1>1. CASE Instruction
  BY <1>1 DEF Instruction
<1>2. CASE TickDue
  BY <1>2 DEF TickDue
<1>3. CASE Accept
  BY <1>3 DEF Accept
<1>4. CASE GuestInit
  BY <1>4 DEF GuestInit
<1>5. ASSUME NEW bits \in SUBSET Bit, GuestWrite(bits) PROVE Facts'
  <2>1. wanted' \in BOOLEAN
    BY <1>5 DEF GuestWrite
  <2> QED
    BY <1>5, <2>1 DEF GuestWrite
<1>6. CASE BeginReset
  BY <1>6 DEF BeginReset, Announce
<1>7. CASE EndReset
  BY <1>7 DEF EndReset, Announce
<1>8. CASE AwaitGivesUp
  BY <1>8 DEF AwaitGivesUp
<1>9. CASE AwaitClock
  <2>1. kept' \in BOOLEAN
    BY <1>9 DEF AwaitClock, Settled
  <2> QED
    BY <1>9, <2>1 DEF AwaitClock
<1>10. CASE ClearBaseline
  BY <1>10 DEF ClearBaseline
<1>11. CASE ResetUnqueue
  BY <1>11 DEF ResetUnqueue
<1>12. CASE ResetCsr
  BY <1>12 DEF ResetCsr
<1>13. CASE ResetQueue
  BY <1>13 DEF ResetQueue
<1>14. CASE GuestResetQueue
  BY <1>14 DEF GuestResetQueue
<1>15. CASE AnnouncePass
  BY <1>15 DEF AnnouncePass, Announce
<1>16. CASE FinishPass
  BY <1>16 DEF FinishPass, Announce
<1>17. CASE TestReset
  BY <1>17 DEF TestReset
<1>18. CASE RetestReset
  BY <1>18 DEF RetestReset
<1>19. CASE TakeBaseline
  BY <1>19 DEF TakeBaseline
<1>20. CASE TestDue
  BY <1>20 DEF TestDue
<1>21. CASE ReadCsr
  BY <1>21 DEF ReadCsr
<1>22. CASE WriteCsr
  BY <1>22 DEF WriteCsr
<1>23. CASE Request
  BY <1>23 DEF Request
<1>24. ASSUME NEW t \in Task, Drain(t) PROVE Facts'
  BY <1>24 DEF Drain
<1>25. CASE UNCHANGED vars
  BY <1>25 DEF vars
<1> QED
  BY <1>1, <1>2, <1>3, <1>4, <1>5, <1>6, <1>7, <1>8, <1>9, <1>10, <1>11,
     <1>12, <1>13, <1>14, <1>15, <1>16, <1>17, <1>18, <1>19, <1>20, <1>21,
     <1>22, <1>23, <1>24, <1>25
     DEF Next, Guest, Reset, Clock

LEMMA PlacesStep == ASSUME Places, [Next]_vars PROVE Places'
<1> USE DEF Places, Task, CpuPlace, ClkPlace, Goto
<1>1. CASE Instruction \/ TickDue \/ Accept \/ GuestInit
  BY <1>1 DEF Instruction, TickDue, Accept, GuestInit
<1>2. ASSUME NEW bits \in SUBSET Bit, GuestWrite(bits) PROVE Places'
  BY <1>2 DEF GuestWrite
<1>3. CASE BeginReset \/ EndReset
  BY <1>3 DEF BeginReset, EndReset, Announce
<1>4. CASE AwaitGivesUp \/ AwaitClock \/ ClearBaseline
  BY <1>4 DEF AwaitGivesUp, AwaitClock, ClearBaseline
<1>5. CASE ResetUnqueue \/ ResetCsr \/ ResetQueue \/ GuestResetQueue
  BY <1>5 DEF ResetUnqueue, ResetCsr, ResetQueue, GuestResetQueue
<1>6. CASE AnnouncePass \/ FinishPass
  BY <1>6 DEF AnnouncePass, FinishPass, Announce
<1>7. CASE TestReset \/ RetestReset \/ TakeBaseline \/ TestDue
  BY <1>7 DEF TestReset, RetestReset, TakeBaseline, TestDue
<1>8. CASE ReadCsr \/ WriteCsr \/ Request
  BY <1>8 DEF ReadCsr, WriteCsr, Request
<1>9. ASSUME NEW t \in Task, Drain(t) PROVE Places'
  BY <1>9 DEF Drain
<1>10. CASE UNCHANGED vars
  BY <1>10 DEF vars
<1> QED
  BY <1>1, <1>2, <1>3, <1>4, <1>5, <1>6, <1>7, <1>8, <1>9, <1>10
     DEF Next, Guest, Reset, Clock

-----------------------------------------------------------------------------
(***************************************************************************)
(* The handshake.  What a task has announced last, whether or not the      *)
(* other one can see it, is where the task is.  A reset that has found     *)
(* both stores done keeps the clock task at the tests that turn it away.   *)
(***************************************************************************)
Announced(t) == IF buf[t] = <<>> THEN flag[t] ELSE buf[t] = <<TRUE>>

InReset == pc["cpu"] \in {"drain", "baseline", "unqueue", "csr", "queue", "end"}
Clearing == pc["cpu"] \in {"baseline", "unqueue", "csr", "queue", "end"}
InPass == pc["clk"] \notin {"sleep", "announce"}

Handshake ==
  /\ Announced("cpu") <=> InReset
  /\ Announced("clk") <=> InPass
  /\ kept /\ Clearing =>
       /\ buf["cpu"] = <<>>
       /\ pc["clk"] \in {"sleep", "announce", "retest", "finish"}

(* Neither the CSR nor the tick's copy of it has the old enable bit, and   *)
(* no tick is about to queue a request.  RESET by the guest does not count *)
(* as a reset that kept the clock task out.                                *)
Silence ==
  /\ pc["cpu"] \in {"unqueueRESET", "csrRESET", "queueRESET"} => ~kept
  /\ kept /\ pc["cpu"] = "queue" => "enable" \notin csr
  /\ kept /\ Clearing /\ pc["cpu"] # "end" => ~quiet
  /\ kept /\ quiet =>
       /\ "enable" \notin csr /\ requests = 0
       /\ pc["clk"] # "request"
       /\ pc["clk"] = "write" => "enable" \notin copy

Inv == Types /\ Handshake /\ Silence

LEMMA InvInit == Init => Inv
<1> SUFFICES ASSUME Init PROVE Inv
  OBVIOUS
<1> USE DEF Init, Task, Bit, CpuPlace, ClkPlace
<1>1. Stores
  BY DEF Stores
<1>2. Registers
  BY DEF Registers
<1>3. Facts
  BY DEF Facts
<1>4. Places
  BY DEF Places
<1>5. Handshake
  BY DEF Handshake, Announced, InReset, InPass, Clearing
<1>6. Silence
  BY DEF Silence, Clearing
<1> QED
  BY <1>1, <1>2, <1>3, <1>4, <1>5, <1>6 DEF Inv, Types

LEMMA TypesStep == ASSUME Types, [Next]_vars PROVE Types'
BY StoresStep, RegistersStep, FactsStep, PlacesStep DEF Types

LEMMA HeadOfOne == ASSUME NEW b PROVE Head(<<b>>) = b
OBVIOUS

LEMMA HandshakeStep ==
  ASSUME Stores, Facts, Places, Handshake, [Next]_vars
  PROVE  Handshake'
<1> USE DEF Handshake, Announced, InReset, InPass, Clearing, Goto,
          Stores, Facts, Places, Task, CpuPlace, ClkPlace
<1>1. CASE Instruction
  BY <1>1 DEF Instruction
<1>2. CASE TickDue
  BY <1>2 DEF TickDue
<1>3. CASE Accept
  BY <1>3 DEF Accept
<1>4. CASE GuestInit
  BY <1>4 DEF GuestInit
<1>5. ASSUME NEW bits \in SUBSET Bit, GuestWrite(bits) PROVE Handshake'
  BY <1>5 DEF GuestWrite
<1>6. CASE BeginReset
  BY <1>6 DEF BeginReset, Announce
<1>7. CASE EndReset
  BY <1>7 DEF EndReset, Announce
<1>8. CASE AwaitGivesUp
  BY <1>8 DEF AwaitGivesUp
<1>9. CASE AwaitClock
  BY <1>9 DEF AwaitClock, Settled
<1>10. CASE ClearBaseline
  BY <1>10 DEF ClearBaseline
<1>11. CASE ResetUnqueue
  BY <1>11 DEF ResetUnqueue
<1>12. CASE ResetCsr
  BY <1>12 DEF ResetCsr
<1>13. CASE ResetQueue
  BY <1>13 DEF ResetQueue
<1>14. CASE GuestResetQueue
  BY <1>14 DEF GuestResetQueue
<1>15. CASE AnnouncePass
  BY <1>15 DEF AnnouncePass, Announce
<1>16. CASE FinishPass
  BY <1>16 DEF FinishPass, Announce
<1>17. CASE TestReset
  BY <1>17 DEF TestReset
<1>18. CASE RetestReset
  BY <1>18 DEF RetestReset
<1>19. CASE TakeBaseline
  BY <1>19 DEF TakeBaseline
<1>20. CASE TestDue
  BY <1>20 DEF TestDue
<1>21. CASE ReadCsr
  BY <1>21 DEF ReadCsr
<1>22. CASE WriteCsr
  BY <1>22 DEF WriteCsr
<1>23. CASE Request
  BY <1>23 DEF Request
<1>24. ASSUME NEW t \in Task, Drain(t) PROVE Handshake'
  <2>1. PICK v \in BOOLEAN : buf[t] = <<v>>
    BY <1>24 DEF Drain
  <2>2. Head(buf[t]) = v
    BY <2>1
  <2>3. /\ flag' = [flag EXCEPT ![t] = v]
        /\ buf' = [buf EXCEPT ![t] = <<>>]
        /\ pc' = pc /\ kept' = kept
    BY <1>24, <2>2 DEF Drain
  <2>4. v <=> buf[t] = <<TRUE>>
    <3>1. CASE v
      BY <2>1, <3>1
    <3>2. CASE ~v
      <4>1. Head(<<TRUE>>) = TRUE
        BY HeadOfOne, Zenon
      <4>2. buf[t] # <<TRUE>>
        BY <2>2, <3>2, <4>1, Zenon
      <4> QED
        BY <3>2, <4>2
    <3> QED
      BY <3>1, <3>2
  <2>5. buf[t] # <<>>
    BY <1>24 DEF Drain
  <2>6. \A u \in Task : Announced(u)' <=> Announced(u)
    BY <2>3, <2>4, <2>5
  <2> QED
    BY <2>3, <2>6
<1>25. CASE UNCHANGED vars
  BY <1>25 DEF vars
<1> QED
  BY <1>1, <1>2, <1>3, <1>4, <1>5, <1>6, <1>7, <1>8, <1>9, <1>10, <1>11,
     <1>12, <1>13, <1>14, <1>15, <1>16, <1>17, <1>18, <1>19, <1>20, <1>21,
     <1>22, <1>23, <1>24, <1>25
     DEF Next, Guest, Reset, Clock

LEMMA SilenceStep ==
  ASSUME Registers, Facts, Places, Handshake, Silence, [Next]_vars
  PROVE  Silence'
<1> USE DEF Handshake, Silence, Clearing, Goto, Places, Task, Facts,
          Registers
<1>1. CASE Instruction
  BY <1>1 DEF Instruction
<1>2. CASE TickDue
  BY <1>2 DEF TickDue
<1>3. CASE Accept
  BY <1>3 DEF Accept
<1>4. CASE GuestInit
  BY <1>4 DEF GuestInit
<1>5. ASSUME NEW bits \in SUBSET Bit, GuestWrite(bits) PROVE Silence'
  BY <1>5 DEF GuestWrite
<1>6. CASE BeginReset
  BY <1>6 DEF BeginReset, Announce
<1>7. CASE EndReset
  BY <1>7 DEF EndReset, Announce
<1>8. CASE AwaitGivesUp
  BY <1>8 DEF AwaitGivesUp
<1>9. CASE AwaitClock
  BY <1>9 DEF AwaitClock
<1>10. CASE ClearBaseline
  BY <1>10 DEF ClearBaseline
<1>11. CASE ResetUnqueue
  BY <1>11 DEF ResetUnqueue
<1>12. CASE ResetCsr
  BY <1>12 DEF ResetCsr
<1>13. CASE ResetQueue
  BY <1>13 DEF ResetQueue
<1>14. CASE GuestResetQueue
  BY <1>14 DEF GuestResetQueue
<1>15. CASE AnnouncePass
  BY <1>15 DEF AnnouncePass, Announce
<1>16. CASE FinishPass
  BY <1>16 DEF FinishPass, Announce
<1>17. CASE TestReset
  BY <1>17 DEF TestReset
<1>18. CASE RetestReset
  BY <1>18 DEF RetestReset
<1>19. CASE TakeBaseline
  BY <1>19 DEF TakeBaseline
<1>20. CASE TestDue
  BY <1>20 DEF TestDue
<1>21. CASE ReadCsr
  BY <1>21 DEF ReadCsr
<1>22. CASE WriteCsr
  BY <1>22 DEF WriteCsr
<1>23. CASE Request
  BY <1>23 DEF Request
<1>24. ASSUME NEW t \in Task, Drain(t) PROVE Silence'
  BY <1>24 DEF Drain
<1>25. CASE UNCHANGED vars
  BY <1>25 DEF vars
<1> QED
  BY <1>1, <1>2, <1>3, <1>4, <1>5, <1>6, <1>7, <1>8, <1>9, <1>10, <1>11,
     <1>12, <1>13, <1>14, <1>15, <1>16, <1>17, <1>18, <1>19, <1>20, <1>21,
     <1>22, <1>23, <1>24, <1>25
     DEF Next, Guest, Reset, Clock

-----------------------------------------------------------------------------
(***************************************************************************)
(* The theorems.                                                           *)
(***************************************************************************)
LEMMA Invariance == SafeSpec => []Inv
<1>1. Inv /\ [Next]_vars => Inv'
  BY TypesStep, HandshakeStep, SilenceStep DEF Inv, Types
<1> QED
  BY <1>1, InvInit, PTL DEF SafeSpec

(* The clock's registers, the flags and the store buffers keep their types *)
(* (kw11_l, begin_reset_transaction).                                      *)
THEOREM ClockTypes == SafeSpec => []TypeOK
<1>1. Inv => TypeOK
  BY TypesOK DEF Inv
<1> QED
  BY <1>1, Invariance, PTL

(***************************************************************************)
(* While a reset that settled clears the machine, no pass of the clock     *)
(* task touches a device, the CSR or the queue (begin_reset_transaction).  *)
(***************************************************************************)
THEOREM ResetKeepsClockOut == SafeSpec => []ResetExclusive
<1>1. Inv => ResetExclusive
  BY DEF Inv, Handshake, Clearing, ResetExclusive
<1> QED
  BY <1>1, Invariance, PTL

(***************************************************************************)
(* After it the clock is silent until the program that was booted writes   *)
(* its CSR (kw11_l::reset, service_line_clock).                            *)
(***************************************************************************)
THEOREM ResetSilencesClock == SafeSpec => []ResetQuiet
<1>1. Inv => ResetQuiet
  BY DEF Inv, Silence, ResetQuiet
<1> QED
  BY <1>1, Invariance, PTL
==============================================================================
