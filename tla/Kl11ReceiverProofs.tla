------------------------- MODULE Kl11ReceiverProofs -------------------------
(***************************************************************************)
(* Proofs about Kl11Receiver with both tasks, for any number of bytes from *)
(* each source and any number of RESETs and RDR ENBs.                      *)
(***************************************************************************)
EXTENDS Kl11Receiver, TLAPS

Place == {"home", "load", "loadQueued", "pop", "popped", "loadTKB",
          "loadDone", "forget", "update", "queue", "unqueue", "store",
          "reset"}

Csr == [done : BOOLEAN, ie : BOOLEAN]

(* The variables of the receiver, with what TypeOK leaves open.            *)
Registers ==
  /\ done \in BOOLEAN /\ ie \in BOOLEAN /\ asserted \in BOOLEAN
  /\ queued \in BOOLEAN /\ isr \in BOOLEAN /\ fresh \in BOOLEAN
  /\ owed \in BOOLEAN /\ telnet \in BOOLEAN /\ busy \in BOOLEAN
  /\ drops \in 0 .. GuestDrops
  /\ crossed \in BOOLEAN /\ met \in BOOLEAN /\ (crossed => met)
Places ==
  /\ pc \in [Task -> Place] /\ pc["clk"] \notin {"store", "reset"}
  /\ next \in [Task -> {"home", "load", "reset"}] /\ next["clk"] = "home"
  /\ csr \in [Task -> Csr]

(* What is popped has arrived, and DONE is only shown of a byte in TKB,    *)
(* however the tasks cross.                                                *)
Bytes ==
  /\ arrived \in [Source -> Nat] /\ popped \in [Source -> Nat]
  /\ \A s \in Source : popped[s] <= arrived[s] /\ arrived[s] <= Limit[s]
  /\ tkb \in Byte \cup {NoByte}
  /\ byte \in [Task -> Byte \cup {NoByte}]
  /\ taken \in Seq(Byte)
  /\ done => tkb \in Byte
  /\ \A t \in Task :
       /\ csr[t].done => tkb \in Byte
       /\ pc[t] \in {"popped", "loadTKB"} => byte[t] \in Byte
       /\ pc[t] = "popped" => byte[t].n <= arrived[byte[t].src]

Types == Registers /\ Places /\ Bytes

(***************************************************************************)
(* Until the tasks cross, one of them at a time is between its read of TKS *)
(* and its store.  DONE, or the value that is about to be stored, says     *)
(* whether TKB holds an unread byte, and a load begins only when neither   *)
(* does.                                                                   *)
(***************************************************************************)
Loading(t) == pc[t] \in {"loadQueued", "pop", "popped", "loadTKB"}

Unread ==
  ~crossed =>
    /\ ~(Deciding("cpu") /\ Deciding("clk"))
    /\ \A t \in Task :
         /\ Loading(t) => ~done /\ ~fresh
         /\ pc[t] = "loadDone" => ~done
         /\ pc[t] \in {"loadDone", "store"} => (fresh <=> csr[t].done)
    /\ (\A t \in Task : ~Deciding(t)) => (fresh <=> done)

(* The byte on its way, and the unread one, come after all that were read. *)
After(b) ==
  \A i \in 1 .. Len(taken) : taken[i].src = b.src => taken[i].n < b.n

Order ==
  ~crossed =>
    /\ \A i, j \in 1 .. Len(taken) :
         i < j /\ taken[i].src = taken[j].src => taken[i].n < taken[j].n
    /\ \A i \in 1 .. Len(taken) : taken[i].n <= popped[taken[i].src]
    /\ \A t \in Task :
         LET b == byte[t]
         IN  /\ pc[t] = "popped" => b.n = popped[b.src] + 1
             /\ pc[t] = "loadTKB" => b.n = popped[b.src] /\ After(b)
    /\ fresh => tkb \in Byte /\ tkb.n <= popped[tkb.src] /\ After(tkb)

(***************************************************************************)
(* The request, until the tasks meet: one of them at a time is busy with   *)
(* it.  What asserted says of DONE and IE at each point of its bookkeeping *)
(* and what is owed and queued there; the clock task never withdraws.      *)
(***************************************************************************)
Due == done /\ ie

Bookkeeping(t) ==
  /\ pc[t] \in {"pop", "popped", "loadTKB", "loadDone"} => ~queued
  /\ pc[t] = "store" => next[t] \in {"home", "load"}
  /\ pc[t] \in {"update", "queue"} => next[t] \in {"home", "load"}
  /\ pc[t] = "forget" => next[t] \in {"home", "reset"}
  /\ pc[t] = "forget" /\ next[t] = "home" => ~queued /\ (owed <=> Due)
  /\ pc[t] = "forget" /\ next[t] = "reset" => ~Due
  /\ pc[t] = "update" =>
       /\ Due /\ ~asserted => owed
       /\ Due /\ asserted => (queued <=> owed)
       /\ ~Due /\ ~asserted => ~queued
  /\ pc[t] = "queue" => owed /\ asserted
  /\ pc[t] = "unqueue" => ~Due /\ ~asserted
  /\ pc[t] = "reset" => ~queued /\ ~Due /\ ~asserted

Edge ==
  ~met =>
    /\ ~(Inside("cpu") /\ Inside("clk"))
    /\ owed => Due
    /\ \A t \in Task : Bookkeeping(t)
    /\ pc["clk"] \in {"update", "queue"} => ~queued
    /\ pc["clk"] = "update" => ~asserted
    /\ pc["clk"] # "unqueue"
    /\ (\A t \in Task :
          pc[t] \notin {"forget", "update", "queue", "unqueue", "reset"}) =>
         (queued <=> owed) /\ (asserted <=> Due)

Inv == Types /\ Unread /\ Order /\ Edge

Limited == GuestDrops \in Nat /\ \A s \in Source : Limit[s] \in Nat

LEMMA EnterTypes ==
  ASSUME NEW t \in Task, Enter(t), Registers
  PROVE  crossed' \in BOOLEAN /\ met' \in BOOLEAN /\ (crossed' => met')
BY DEF Enter, Registers, Deciding, Inside, Other, Task

LEMMA RegistersStep ==
  ASSUME Limited, Registers, Places, [Next]_vars
  PROVE  Registers'
<1> USE DEF Registers, Places, Csr, NoCsr, Deciding, Inside, Limited,
          meetings, inputVars, cpuVars, localVars, Goto, Task
<1>1. ASSUME NEW t \in Task, LoadTest(t) PROVE Registers'
  <2>1. CASE done
    BY <1>1, <2>1 DEF LoadTest
  <2>2. CASE ~done
    <3>1. crossed' \in BOOLEAN /\ met' \in BOOLEAN /\ (crossed' => met')
      BY <1>1, <2>2, EnterTypes DEF LoadTest
    <3> QED
      BY <1>1, <2>2, <3>1 DEF LoadTest
  <2> QED
    BY <2>1, <2>2
<1>2. ASSUME NEW t \in Task, LoadQueued(t) PROVE Registers'
  BY <1>2 DEF LoadQueued
<1>3. ASSUME NEW t \in Task, PopNothing(t) PROVE Registers'
  BY <1>3 DEF PopNothing
<1>4. ASSUME NEW t \in Task, PopRead(t) PROVE Registers'
  BY <1>4 DEF PopRead, Waiting, FirstOf
<1>5. ASSUME NEW t \in Task, PopStore(t) PROVE Registers'
  BY <1>5 DEF PopStore
<1>6. ASSUME NEW t \in Task, LoadTKB(t) PROVE Registers'
  BY <1>6 DEF LoadTKB
<1>7. ASSUME NEW t \in Task, LoadDone(t) PROVE Registers'
  BY <1>7 DEF LoadDone, SetTKS
<1>8. ASSUME NEW t \in Task, Forget(t) PROVE Registers'
  BY <1>8 DEF Forget
<1>9. ASSUME NEW t \in Task, UpdateTest(t) PROVE Registers'
  BY <1>9 DEF UpdateTest
<1>10. ASSUME NEW t \in Task, UpdateQueue(t) PROVE Registers'
  BY <1>10 DEF UpdateQueue
<1>11. ASSUME NEW t \in Task, Service(t) PROVE Registers'
  BY <1>11 DEF Service, Called
<1>12. ASSUME NEW t \in Task, ServeNoInput(t) PROVE Registers'
  BY <1>12 DEF ServeNoInput, Called
<1>13. CASE ReadTKS
  BY <1>13 DEF ReadTKS
<1>14. CASE ReadTKB
  BY <1>14 DEF ReadTKB, Enter, Other
<1>15. CASE StoreTKS
  BY <1>15 DEF StoreTKS, SetTKS
<1>16. CASE WriteTPB
  BY <1>16 DEF WriteTPB
<1>17. CASE Accept
  BY <1>17 DEF Accept
<1>18. CASE ResetTty
  <2>1. crossed' \in BOOLEAN /\ met' \in BOOLEAN /\ (crossed' => met')
    BY <1>18, EnterTypes DEF ResetTty
  <2>2. drops' \in 0 .. GuestDrops
    BY <1>18 DEF ResetTty, Limited
  <2> QED
    BY <1>18, <2>1, <2>2 DEF ResetTty, SetTKS
<1>19. CASE ResetQueue
  BY <1>19 DEF ResetQueue
<1>20. ASSUME NEW e \in BOOLEAN, NEW rdr \in BOOLEAN, WriteTKS(e, rdr)
       PROVE  Registers'
  BY <1>20 DEF WriteTKS, Enter, Other
<1>21. ASSUME NEW s \in Source, Arrive(s) PROVE Registers'
  BY <1>21 DEF Arrive
<1>22. CASE UNCHANGED vars
  BY <1>22 DEF vars
<1> QED
  BY <1>1, <1>2, <1>3, <1>4, <1>5, <1>6, <1>7, <1>8, <1>9, <1>10, <1>11,
     <1>12, <1>13, <1>14, <1>15, <1>16, <1>17, <1>18, <1>19, <1>20, <1>21,
     <1>22
     DEF Next, Guest, Continue, Load, Update

LEMMA PlacesStep ==
  ASSUME Limited, Registers, Places, [Next]_vars
  PROVE  Places'
<1> USE DEF Registers, Places, Place, Csr, NoCsr, meetings, inputVars,
          cpuVars, localVars, Goto, Task
<1>1. ASSUME NEW t \in Task, LoadTest(t) PROVE Places'
  BY <1>1 DEF LoadTest, Enter, Other
<1>2. ASSUME NEW t \in Task, LoadQueued(t) PROVE Places'
  BY <1>2 DEF LoadQueued
<1>3. ASSUME NEW t \in Task, PopNothing(t) PROVE Places'
  BY <1>3 DEF PopNothing
<1>4. ASSUME NEW t \in Task, PopRead(t) PROVE Places'
  BY <1>4 DEF PopRead, Waiting, FirstOf
<1>5. ASSUME NEW t \in Task, PopStore(t) PROVE Places'
  BY <1>5 DEF PopStore
<1>6. ASSUME NEW t \in Task, LoadTKB(t) PROVE Places'
  BY <1>6 DEF LoadTKB
<1>7. ASSUME NEW t \in Task, LoadDone(t) PROVE Places'
  BY <1>7 DEF LoadDone, SetTKS
<1>8. ASSUME NEW t \in Task, Forget(t) PROVE Places'
  BY <1>8 DEF Forget
<1>9. ASSUME NEW t \in Task, UpdateTest(t) PROVE Places'
  BY <1>9 DEF UpdateTest
<1>10. ASSUME NEW t \in Task, UpdateQueue(t) PROVE Places'
  BY <1>10 DEF UpdateQueue
<1>11. ASSUME NEW t \in Task, Service(t) PROVE Places'
  BY <1>11 DEF Service, Called
<1>12. ASSUME NEW t \in Task, ServeNoInput(t) PROVE Places'
  BY <1>12 DEF ServeNoInput, Called
<1>13. CASE ReadTKS
  BY <1>13 DEF ReadTKS
<1>14. CASE ReadTKB
  BY <1>14 DEF ReadTKB, Enter, Other
<1>15. CASE StoreTKS
  BY <1>15 DEF StoreTKS, SetTKS
<1>16. CASE WriteTPB
  BY <1>16 DEF WriteTPB
<1>17. CASE Accept
  BY <1>17 DEF Accept
<1>18. CASE ResetTty
  BY <1>18 DEF ResetTty, SetTKS, Enter, Other
<1>19. CASE ResetQueue
  BY <1>19 DEF ResetQueue
<1>20. ASSUME NEW e \in BOOLEAN, NEW rdr \in BOOLEAN, WriteTKS(e, rdr)
       PROVE  Places'
  BY <1>20 DEF WriteTKS, Enter, Other
<1>21. ASSUME NEW s \in Source, Arrive(s) PROVE Places'
  BY <1>21 DEF Arrive
<1>22. CASE UNCHANGED vars
  BY <1>22 DEF vars
<1> QED
  BY <1>1, <1>2, <1>3, <1>4, <1>5, <1>6, <1>7, <1>8, <1>9, <1>10, <1>11,
     <1>12, <1>13, <1>14, <1>15, <1>16, <1>17, <1>18, <1>19, <1>20, <1>21,
     <1>22
     DEF Next, Guest, Continue, Load, Update

LEMMA UnreadStep ==
  ASSUME Limited, Registers, Places, Unread, [Next]_vars
  PROVE  Unread'
<1> USE DEF Registers, Places, Unread, Loading, Deciding, Csr, NoCsr,
          meetings, inputVars, cpuVars, localVars, Goto, Task
<1>1. ASSUME NEW t \in Task, LoadTest(t) PROVE Unread'
  BY <1>1 DEF LoadTest, Enter, Other
<1>2. ASSUME NEW t \in Task, LoadQueued(t) PROVE Unread'
  BY <1>2 DEF LoadQueued
<1>3. ASSUME NEW t \in Task, PopNothing(t) PROVE Unread'
  BY <1>3 DEF PopNothing
<1>4. ASSUME NEW t \in Task, PopRead(t) PROVE Unread'
  BY <1>4 DEF PopRead, Waiting, FirstOf
<1>5. ASSUME NEW t \in Task, PopStore(t) PROVE Unread'
  BY <1>5 DEF PopStore
<1>6. ASSUME NEW t \in Task, LoadTKB(t) PROVE Unread'
  BY <1>6 DEF LoadTKB
<1>7. ASSUME NEW t \in Task, LoadDone(t) PROVE Unread'
  BY <1>7 DEF LoadDone, SetTKS
<1>8. ASSUME NEW t \in Task, Forget(t) PROVE Unread'
  BY <1>8 DEF Forget
<1>9. ASSUME NEW t \in Task, UpdateTest(t) PROVE Unread'
  BY <1>9 DEF UpdateTest
<1>10. ASSUME NEW t \in Task, UpdateQueue(t) PROVE Unread'
  BY <1>10 DEF UpdateQueue
<1>11. ASSUME NEW t \in Task, Service(t) PROVE Unread'
  BY <1>11 DEF Service, Called
<1>12. ASSUME NEW t \in Task, ServeNoInput(t) PROVE Unread'
  BY <1>12 DEF ServeNoInput, Called
<1>13. CASE ReadTKS
  BY <1>13 DEF ReadTKS
<1>14. CASE ReadTKB
  BY <1>14 DEF ReadTKB, Enter, Other
<1>15. CASE StoreTKS
  BY <1>15 DEF StoreTKS, SetTKS
<1>16. CASE WriteTPB
  BY <1>16 DEF WriteTPB
<1>17. CASE Accept
  BY <1>17 DEF Accept
<1>18. CASE ResetTty
  BY <1>18 DEF ResetTty, SetTKS, Enter, Other
<1>19. CASE ResetQueue
  BY <1>19 DEF ResetQueue
<1>20. ASSUME NEW e \in BOOLEAN, NEW rdr \in BOOLEAN, WriteTKS(e, rdr)
       PROVE  Unread'
  BY <1>20 DEF WriteTKS, Enter, Other
<1>21. ASSUME NEW s \in Source, Arrive(s) PROVE Unread'
  BY <1>21 DEF Arrive
<1>22. CASE UNCHANGED vars
  BY <1>22 DEF vars
<1> QED
  BY <1>1, <1>2, <1>3, <1>4, <1>5, <1>6, <1>7, <1>8, <1>9, <1>10, <1>11,
     <1>12, <1>13, <1>14, <1>15, <1>16, <1>17, <1>18, <1>19, <1>20, <1>21,
     <1>22
     DEF Next, Guest, Continue, Load, Update

LEMMA EdgeStep ==
  ASSUME Limited, Registers, Places, Unread, Edge, [Next]_vars
  PROVE  Edge'
<1> USE DEF Registers, Places, Unread, Loading, Deciding, Edge,
          Bookkeeping, Inside, Due, Csr, NoCsr, meetings, inputVars,
          cpuVars, localVars, Goto, Task
<1>1. ASSUME NEW t \in Task, LoadTest(t) PROVE Edge'
  <2>1. CASE done
    BY <1>1, <2>1 DEF LoadTest
  <2>2. CASE ~done
    BY <1>1, <2>2 DEF LoadTest, Enter, Other
  <2> QED
    BY <2>1, <2>2
<1>2. ASSUME NEW t \in Task, LoadQueued(t) PROVE Edge'
  BY <1>2 DEF LoadQueued
<1>3. ASSUME NEW t \in Task, PopNothing(t) PROVE Edge'
  BY <1>3 DEF PopNothing
<1>4. ASSUME NEW t \in Task, PopRead(t) PROVE Edge'
  BY <1>4 DEF PopRead, Waiting, FirstOf
<1>5. ASSUME NEW t \in Task, PopStore(t) PROVE Edge'
  BY <1>5 DEF PopStore
<1>6. ASSUME NEW t \in Task, LoadTKB(t) PROVE Edge'
  BY <1>6 DEF LoadTKB
<1>7. ASSUME NEW t \in Task, LoadDone(t) PROVE Edge'
  BY <1>7 DEF LoadDone, SetTKS
<1>8. ASSUME NEW t \in Task, Forget(t) PROVE Edge'
  BY <1>8 DEF Forget
<1>9. ASSUME NEW t \in Task, UpdateTest(t) PROVE Edge'
  BY <1>9 DEF UpdateTest
<1>10. ASSUME NEW t \in Task, UpdateQueue(t) PROVE Edge'
  BY <1>10 DEF UpdateQueue
<1>11. ASSUME NEW t \in Task, Service(t) PROVE Edge'
  BY <1>11 DEF Service, Called
<1>12. ASSUME NEW t \in Task, ServeNoInput(t) PROVE Edge'
  BY <1>12 DEF ServeNoInput, Called
<1>13. CASE ReadTKS
  BY <1>13 DEF ReadTKS
<1>14. CASE ReadTKB
  BY <1>14 DEF ReadTKB, Enter, Other
<1>15. CASE StoreTKS
  BY <1>15 DEF StoreTKS, SetTKS
<1>16. CASE WriteTPB
  BY <1>16 DEF WriteTPB
<1>17. CASE Accept
  BY <1>17 DEF Accept
<1>18. CASE ResetTty
  BY <1>18 DEF ResetTty, SetTKS, Enter, Other
<1>19. CASE ResetQueue
  BY <1>19 DEF ResetQueue
<1>20. ASSUME NEW e \in BOOLEAN, NEW rdr \in BOOLEAN, WriteTKS(e, rdr)
       PROVE  Edge'
  BY <1>20 DEF WriteTKS, Enter, Other
<1>21. ASSUME NEW s \in Source, Arrive(s) PROVE Edge'
  BY <1>21 DEF Arrive
<1>22. CASE UNCHANGED vars
  BY <1>22 DEF vars
<1> QED
  BY <1>1, <1>2, <1>3, <1>4, <1>5, <1>6, <1>7, <1>8, <1>9, <1>10, <1>11,
     <1>12, <1>13, <1>14, <1>15, <1>16, <1>17, <1>18, <1>19, <1>20, <1>21,
     <1>22
     DEF Next, Guest, Continue, Load, Update

LEMMA FirstWaits == ASSUME Waiting # {} PROVE FirstOf(Waiting) \in Waiting
BY DEF FirstOf, Waiting, Source

\* A sequence in order stays in order when a byte after all of its source is
\* appended: stated of the numbers alone, for the guest's reads of TKB.
LEMMA OrderExtended ==
  ASSUME NEW n \in Nat, NEW f, NEW g, NEW e,
         \A i \in 1 .. n : g[i] = f[i],
         g[n + 1] = e,
         \A i, j \in 1 .. n :
           i < j /\ f[i].src = f[j].src => f[i].n < f[j].n,
         \A i \in 1 .. n : f[i].src = e.src => f[i].n < e.n
  PROVE  \A i, j \in 1 .. n + 1 :
           i < j /\ g[i].src = g[j].src => g[i].n < g[j].n
<1> SUFFICES ASSUME NEW i \in 1 .. n + 1, NEW j \in 1 .. n + 1,
                    i < j, g[i].src = g[j].src
             PROVE  g[i].n < g[j].n
  OBVIOUS
<1>1. i \in 1 .. n /\ (j \in 1 .. n \/ j = n + 1)
  OBVIOUS
<1> QED
  BY <1>1

LEMMA BytesStep ==
  ASSUME Limited, Types, [Next]_vars
  PROVE  Bytes'
<1> USE DEF Types, Registers, Places, Bytes, Csr, NoCsr, meetings,
          inputVars, cpuVars, localVars, Goto, Task
<1>1. ASSUME NEW t \in Task, LoadTest(t) PROVE Bytes'
  BY <1>1 DEF LoadTest, Enter, Other
<1>2. ASSUME NEW t \in Task, LoadQueued(t) PROVE Bytes'
  BY <1>2 DEF LoadQueued
<1>3. ASSUME NEW t \in Task, PopNothing(t) PROVE Bytes'
  BY <1>3 DEF PopNothing
<1>4. ASSUME NEW t \in Task, PopRead(t) PROVE Bytes'
  <2>1. FirstOf(Waiting) \in Waiting
    BY <1>4, FirstWaits DEF PopRead
  <2>2. /\ FirstOf(Waiting) \in Source
        /\ popped[FirstOf(Waiting)] + 1 <= arrived[FirstOf(Waiting)]
    BY <2>1 DEF Waiting
  <2>3. [src |-> FirstOf(Waiting), n |-> popped[FirstOf(Waiting)] + 1] \in Byte
    BY <2>2 DEF Byte
  <2> QED
    BY <1>4, <2>2, <2>3 DEF PopRead
<1>5. ASSUME NEW t \in Task, PopStore(t) PROVE Bytes'
  <2>1. byte[t] \in Byte /\ byte[t].n <= arrived[byte[t].src]
    BY <1>5 DEF PopStore
  <2>2. byte[t].src \in Source /\ byte[t].n \in Nat
    BY <2>1 DEF Byte
  <2> QED
    BY <1>5, <2>1, <2>2 DEF PopStore
<1>6. ASSUME NEW t \in Task, LoadTKB(t) PROVE Bytes'
  BY <1>6 DEF LoadTKB
<1>7. ASSUME NEW t \in Task, LoadDone(t) PROVE Bytes'
  BY <1>7 DEF LoadDone, SetTKS
<1>8. ASSUME NEW t \in Task, Forget(t) PROVE Bytes'
  BY <1>8 DEF Forget
<1>9. ASSUME NEW t \in Task, UpdateTest(t) PROVE Bytes'
  BY <1>9 DEF UpdateTest
<1>10. ASSUME NEW t \in Task, UpdateQueue(t) PROVE Bytes'
  BY <1>10 DEF UpdateQueue
<1>11. ASSUME NEW t \in Task, Service(t) PROVE Bytes'
  BY <1>11 DEF Service, Called
<1>12. ASSUME NEW t \in Task, ServeNoInput(t) PROVE Bytes'
  BY <1>12 DEF ServeNoInput, Called
<1>13. CASE ReadTKS
  BY <1>13 DEF ReadTKS
<1>14. CASE ReadTKB
  <2>1. tkb \in Byte
    BY <1>14 DEF ReadTKB
  <2>2. taken' \in Seq(Byte)
    BY <1>14, <2>1 DEF ReadTKB
  <2> QED
    BY <1>14, <2>2 DEF ReadTKB
<1>15. CASE StoreTKS
  BY <1>15 DEF StoreTKS, SetTKS
<1>16. CASE WriteTPB
  BY <1>16 DEF WriteTPB
<1>17. CASE Accept
  BY <1>17 DEF Accept
<1>18. CASE ResetTty
  BY <1>18 DEF ResetTty, SetTKS, Enter, Other
<1>19. CASE ResetQueue
  BY <1>19 DEF ResetQueue
<1>20. ASSUME NEW e \in BOOLEAN, NEW rdr \in BOOLEAN, WriteTKS(e, rdr)
       PROVE  Bytes'
  BY <1>20 DEF WriteTKS, Enter, Other
<1>21. ASSUME NEW s \in Source, Arrive(s) PROVE Bytes'
  <2>1. /\ arrived' = [arrived EXCEPT ![s] = arrived[s] + 1]
        /\ arrived[s] \in Nat /\ arrived[s] + 1 <= Limit[s]
        /\ UNCHANGED <<popped, tkb, byte, taken, done, csr, pc>>
    BY <1>21 DEF Arrive, Limited
  <2>2. /\ arrived' \in [Source -> Nat]
        /\ \A u \in Source :
             arrived[u] <= arrived'[u] /\ arrived'[u] <= Limit[u]
    BY <2>1
  <2>3. \A u \in Source : popped[u] <= arrived'[u]
    BY <2>1, <2>2
  <2>4. ASSUME NEW t \in Task, pc[t] = "popped"
        PROVE  byte[t].n <= arrived'[byte[t].src]
    <3>1. /\ byte[t].n \in Nat /\ byte[t].src \in Source
          /\ byte[t].n <= arrived[byte[t].src]
      BY <2>4 DEF Byte
    <3> QED
      BY <2>1, <2>2, <3>1
  <2> QED
    BY <2>1, <2>2, <2>3, <2>4
<1>22. CASE UNCHANGED vars
  BY <1>22 DEF vars
<1> QED
  BY <1>1, <1>2, <1>3, <1>4, <1>5, <1>6, <1>7, <1>8, <1>9, <1>10, <1>11,
     <1>12, <1>13, <1>14, <1>15, <1>16, <1>17, <1>18, <1>19, <1>20, <1>21,
     <1>22
     DEF Next, Guest, Continue, Load, Update

LEMMA OrderStep ==
  ASSUME Limited, Types, Unread, Order, [Next]_vars
  PROVE  Order'
<1> USE DEF Types, Registers, Places, Bytes, Order, After, meetings,
          inputVars, cpuVars, localVars, Goto, Task
<1>1. ASSUME NEW t \in Task, LoadTest(t) PROVE Order'
  BY <1>1 DEF LoadTest, Enter, Other
<1>2. ASSUME NEW t \in Task, LoadQueued(t) PROVE Order'
  BY <1>2 DEF LoadQueued
<1>3. ASSUME NEW t \in Task, PopNothing(t) PROVE Order'
  BY <1>3 DEF PopNothing
<1>4. ASSUME NEW t \in Task, PopRead(t) PROVE Order'
  <2>1. FirstOf(Waiting) \in Source
    BY <1>4, FirstWaits DEF PopRead, Waiting
  <2> DEFINE b == [src |-> FirstOf(Waiting),
                   n |-> popped[FirstOf(Waiting)] + 1]
  <2>2. byte'[t] = b /\ b.src \in Source
    BY <1>4, <2>1 DEF PopRead
  <2> QED
    BY <1>4, <2>1, <2>2 DEF PopRead
<1>5. ASSUME NEW t \in Task, PopStore(t) PROVE Order'
  <2> SUFFICES ASSUME ~crossed PROVE Order'
    BY <1>5 DEF PopStore
  <2>1. /\ byte[t] \in Byte /\ byte[t].src \in Source
        /\ byte[t].n = popped[byte[t].src] + 1
    BY <1>5 DEF PopStore, Byte
  <2>2. popped' = [popped EXCEPT ![byte[t].src] = byte[t].n]
    BY <1>5 DEF PopStore
  <2>3. /\ ~fresh' /\ UNCHANGED <<taken, byte, crossed>>
        /\ pc' = [pc EXCEPT ![t] = "loadTKB"]
        /\ pc'[Other(t)] \notin {"popped", "loadTKB"}
    BY <1>5 DEF PopStore, Unread, Loading, Deciding, Other
  <2>4. \A i \in 1 .. Len(taken) : taken[i] \in Byte
    OBVIOUS
  <2>5. \A i \in 1 .. Len(taken) :
          /\ taken[i].src \in Source /\ taken[i].n \in Nat
          /\ taken[i].n <= popped[taken[i].src]
    BY <2>4 DEF Byte
  <2>6. popped \in [Source -> Nat]
    OBVIOUS
  <2>7. \A i \in 1 .. Len(taken) : taken[i].n <= popped'[taken[i].src]
    BY ONLY <2>1, <2>2, <2>5, <2>6
  <2>8. After(byte[t])
    BY ONLY <2>1, <2>5, <2>6 DEF After
  <2> QED
    BY <2>1, <2>2, <2>3, <2>7, <2>8 DEF Other
<1>6. ASSUME NEW t \in Task, LoadTKB(t) PROVE Order'
  <2> SUFFICES ASSUME ~crossed PROVE Order'
    BY <1>6 DEF LoadTKB
  <2>1. /\ byte[t] \in Byte /\ After(byte[t])
        /\ byte[t].n = popped[byte[t].src]
    BY <1>6 DEF LoadTKB
  <2>2. /\ tkb' = byte[t] /\ UNCHANGED <<taken, popped, arrived, crossed>>
        /\ pc' = [pc EXCEPT ![t] = "loadDone"]
        /\ pc'[Other(t)] \notin {"popped", "loadTKB"}
    BY <1>6 DEF LoadTKB, Unread, Deciding, Other
  <2>3. byte[t].src \in Source /\ byte[t].n \in Nat
    BY <2>1 DEF Byte
  <2>4. tkb' \in Byte /\ tkb'.n <= popped'[tkb'.src]
    BY <2>1, <2>2, <2>3
  <2>5. After(tkb)'
    BY <2>1, <2>2
  <2> QED
    BY <2>2, <2>4, <2>5 DEF Other
<1>7. ASSUME NEW t \in Task, LoadDone(t) PROVE Order'
  BY <1>7 DEF LoadDone, SetTKS
<1>8. ASSUME NEW t \in Task, Forget(t) PROVE Order'
  BY <1>8 DEF Forget
<1>9. ASSUME NEW t \in Task, UpdateTest(t) PROVE Order'
  BY <1>9 DEF UpdateTest
<1>10. ASSUME NEW t \in Task, UpdateQueue(t) PROVE Order'
  BY <1>10 DEF UpdateQueue
<1>11. ASSUME NEW t \in Task, Service(t) PROVE Order'
  BY <1>11 DEF Service, Called
<1>12. ASSUME NEW t \in Task, ServeNoInput(t) PROVE Order'
  BY <1>12 DEF ServeNoInput, Called
<1>13. CASE ReadTKS
  BY <1>13 DEF ReadTKS
<1>14. CASE ReadTKB
  <2> SUFFICES ASSUME ~crossed' PROVE Order'
    OBVIOUS
  <2>0. ~crossed /\ ~Deciding("clk")
    BY <1>14 DEF ReadTKB, Enter, Other
  <2>1. /\ tkb \in Byte /\ tkb.n <= popped[tkb.src]
        /\ \A i \in 1 .. Len(taken) :
             taken[i].src = tkb.src => taken[i].n < tkb.n
    BY <1>14, <2>0 DEF ReadTKB, Unread, Deciding
  <2>2. /\ taken' = Append(taken, tkb) /\ ~fresh' /\ popped' = popped
        /\ pc' = [pc EXCEPT !["cpu"] = "store"]
        /\ pc'["clk"] \notin {"popped", "loadTKB"}
    BY <1>14, <2>0 DEF ReadTKB, Deciding
  <2>3. /\ Len(taken) \in Nat /\ Len(taken') = Len(taken) + 1
        /\ \A i \in 1 .. Len(taken) : taken'[i] = taken[i]
        /\ taken'[Len(taken) + 1] = tkb
    BY <2>1, <2>2
  <2>4. \A i, j \in 1 .. Len(taken') :
          i < j /\ taken'[i].src = taken'[j].src => taken'[i].n < taken'[j].n
    <3>1. \A i, j \in 1 .. Len(taken) :
            i < j /\ taken[i].src = taken[j].src => taken[i].n < taken[j].n
      BY <2>0
    <3>2. \A i, j \in 1 .. Len(taken) + 1 :
            i < j /\ taken'[i].src = taken'[j].src => taken'[i].n < taken'[j].n
      <4> HIDE DEF Types, Registers, Places, Bytes, Order, After
      <4> QED
        BY ONLY <2>1, <2>3, <3>1, OrderExtended, ZenonT(60)
    <3> QED
      BY ONLY <2>3, <3>2
  <2>5. \A i \in 1 .. Len(taken') : taken'[i].n <= popped'[taken'[i].src]
    <3>1. \A i \in 1 .. Len(taken) : taken[i].n <= popped[taken[i].src]
      BY <2>0
    <3>2. \A i \in 1 .. Len(taken) + 1 :
            i \in 1 .. Len(taken) \/ i = Len(taken) + 1
      BY <2>3
    <3> QED
      BY ONLY <2>1, <2>2, <2>3, <3>1, <3>2
  <2> QED
    BY <2>2, <2>4, <2>5
<1>15. CASE StoreTKS
  BY <1>15 DEF StoreTKS, SetTKS
<1>16. CASE WriteTPB
  BY <1>16 DEF WriteTPB
<1>17. CASE Accept
  BY <1>17 DEF Accept
<1>18. CASE ResetTty
  BY <1>18 DEF ResetTty, SetTKS, Enter, Other
<1>19. CASE ResetQueue
  BY <1>19 DEF ResetQueue
<1>20. ASSUME NEW e \in BOOLEAN, NEW rdr \in BOOLEAN, WriteTKS(e, rdr)
       PROVE  Order'
  BY <1>20 DEF WriteTKS, Enter, Other
<1>21. ASSUME NEW s \in Source, Arrive(s) PROVE Order'
  BY <1>21 DEF Arrive
<1>22. CASE UNCHANGED vars
  BY <1>22 DEF vars
<1> QED
  BY <1>1, <1>2, <1>3, <1>4, <1>5, <1>6, <1>7, <1>8, <1>9, <1>10, <1>11,
     <1>12, <1>13, <1>14, <1>15, <1>16, <1>17, <1>18, <1>19, <1>20, <1>21,
     <1>22
     DEF Next, Guest, Continue, Load, Update

-----------------------------------------------------------------------------
(***************************************************************************)
(* The theorems.                                                           *)
(***************************************************************************)
LEMMA InvInit == ASSUME Limited PROVE Init => Inv
<1> SUFFICES ASSUME Init PROVE Inv
  OBVIOUS
<1> USE DEF Init, Task
<1>1. Registers
  <2>1. drops \in 0 .. GuestDrops
    BY DEF Limited
  <2> QED
    BY <2>1 DEF Registers
<1>2. Places
  BY DEF Places, Place, Csr, NoCsr
<1>3. Bytes
  BY DEF Bytes, Limited, NoCsr
<1>4. Unread /\ Order
  BY DEF Unread, Loading, Deciding, Order
<1>5. Edge
  BY DEF Edge, Bookkeeping, Inside, Due
<1> QED
  BY <1>1, <1>2, <1>3, <1>4, <1>5 DEF Inv, Types

LEMMA InvStep == ASSUME Limited, Inv, [Next]_vars PROVE Inv'
BY RegistersStep, PlacesStep, BytesStep, UnreadStep, OrderStep, EdgeStep
   DEF Inv, Types

LEMMA Invariance == SafeSpec => []Inv
<1>1. Limited
  BY ReceiverAssumption DEF Limited
<1>2. Init => Inv
  BY <1>1, InvInit
<1>3. Inv /\ [Next]_vars => Inv'
  BY <1>1, InvStep
<1> QED
  BY <1>2, <1>3, PTL DEF SafeSpec

(* Registers and counters keep their types, and no queue is read past its  *)
(* end, however the two tasks meet (pop_host_input).                       *)
THEOREM ReceiverTypes == SafeSpec => []TypeOK
<1>1. Inv => TypeOK
  BY DEF Inv, Types, Registers, Bytes, Places, Csr, TypeOK
<1> QED
  BY <1>1, Invariance, PTL

(***************************************************************************)
(* The guest reads the bytes of each source in order and none twice, until *)
(* a task reads TKS between the other's read and store (notify_rx,         *)
(* pop_host_input).                                                        *)
(***************************************************************************)
THEOREM InputInOrder == SafeSpec => []InOrder
<1>1. Inv => InOrder
  BY DEF Inv, Order, InOrder
<1> QED
  BY <1>1, Invariance, PTL

(***************************************************************************)
(* Each rise of DONE and IE is owed one interrupt, which is queued just as *)
(* long as it is owed, until the tasks meet (update_rx_interrupt).         *)
(***************************************************************************)
THEOREM OneRequestPerEdge == SafeSpec => []RequestIsEdge
<1>1. Inv => RequestIsEdge
  BY DEF Inv, Edge, Bookkeeping, RequestIsEdge, Quiet, Task
<1> QED
  BY <1>1, Invariance, PTL

(***************************************************************************)
(* A byte the guest has not read is only overwritten when a task has read  *)
(* TKS between the other's read and store (notify_rx).                     *)
(***************************************************************************)
THEOREM UnreadKept == SafeSpec => UnreadStays
<1>1. Inv /\ [Next]_vars => [fresh /\ fresh' => crossed' \/ UNCHANGED tkb]_vars
  <2> SUFFICES ASSUME Inv, Next, fresh, tkb' # tkb PROVE crossed'
    BY DEF vars
  <2>1. PICK t \in Task : LoadTKB(t)
    BY DEF Next, Continue, Load, Update, Guest, LoadTest, LoadQueued,
       PopNothing, PopRead, PopStore, LoadDone, Forget, UpdateTest,
       UpdateQueue, Service, ServeNoInput, Called, ReadTKS, ReadTKB, StoreTKS,
       WriteTPB, Accept, ResetTty, ResetQueue, WriteTKS, Arrive
  <2> QED
    BY <2>1 DEF Inv, Unread, Loading, LoadTKB, meetings
<1> QED
  BY <1>1, Invariance, PTL DEF SafeSpec, UnreadStays
=============================================================================
