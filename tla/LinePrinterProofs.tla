-------------------------- MODULE LinePrinterProofs --------------------------
(***************************************************************************)
(* Proofs about LinePrinter, for every size of the ring and of the         *)
(* consumer's chunks, every text and every number of resets: types, that   *)
(* nothing hangs, and that what is printed is captured.                    *)
(***************************************************************************)
EXTENDS LinePrinter, Integers, SequenceTheorems, WellFoundedInduction, TLAPS

Byte == Text \union {Nul}
Csr == [done : BOOLEAN, ie : BOOLEAN]
Cursor == 0 .. Size - 1

CpuPlace == {"run", "enable", "disable", "bus", "push", "publish", "full",
             "stash", "arm", "clear", "cleared", "mark"}
ClkPlace == {"idle", "push", "publish", "full", "done", "zero", "request",
             "queue"}
LpPlace == {"sleep", "opened", "drain", "pop", "consume", "write", "push",
            "publish", "full"}

Places ==
  /\ pc \in [Task -> CpuPlace \union ClkPlace \union LpPlace]
  /\ pc["cpu"] \in CpuPlace /\ pc["clk"] \in ClkPlace /\ pc["lp"] \in LpPlace

Registers ==
  /\ lps \in Csr /\ until \in {"none", "running", "due"}
  /\ irq \in BOOLEAN /\ queued \in BOOLEAN
  /\ stash \in [full : BOOLEAN, char : Byte] /\ char \in Byte
  /\ stamped \in BOOLEAN /\ rotate \in BOOLEAN
  /\ seen \in [Task -> Csr]
  /\ opened \in BOOLEAN /\ clean \in BOOLEAN

Ring ==
  /\ head \in Cursor /\ tail \in Cursor
  /\ buf \in [Cursor -> Byte]
  /\ slot \in [Task -> Cursor]

(* A reset in progress is still to be counted.                             *)
Sessions ==
  /\ session \in 1 .. MaxSessions
  /\ pc["cpu"] \in {"clear", "cleared"} => session < MaxSessions
  /\ total \in 0 .. MaxPrints /\ printed \in Seq(Text)

(* What the consumer holds, and where it may hold nothing: a requeue never *)
(* takes a byte from an empty chunk.                                       *)
Chunks ==
  /\ files \in Seq(Seq(Byte)) /\ current \in 0 .. Len(files)
  /\ chunk \in Seq(Byte) /\ want \in 0 .. Chunk /\ run \in 0 .. Chunk
  /\ Len(chunk) <= Chunk
  /\ pc["lp"] \in {"sleep", "opened", "drain"} => chunk = <<>>
  /\ pc["lp"] \in {"pop", "consume", "write"} => Len(chunk) <= want
  /\ pc["lp"] \in {"consume", "write", "push", "publish", "full"}
       => chunk # <<>>
  /\ pc["lp"] # "sleep" => current # 0

Types == Places /\ Registers /\ Ring /\ Sessions /\ Chunks

(***************************************************************************)
(* Who will set DONE.  A completion time may be left over only while the   *)
(* tick that has set DONE is about to clear it.                            *)
(***************************************************************************)
Pushing == pc["cpu"] \in {"push", "publish", "full", "stash", "arm"}
Retrying == pc["clk"] \in {"push", "publish", "full"}
NoneLeft == until = "none" \/ pc["clk"] = "zero"

Owed ==
  clean =>
    /\ stash.full \/ Pushing => ~lps.done /\ NoneLeft
    /\ lps.done => NoneLeft
    /\ ~lps.done => Pushing \/ stash.full \/ until # "none"
    /\ pc["clk"] = "done" => ~lps.done /\ ~Pushing /\ ~stash.full

Stashed ==
  clean =>
    /\ pc["cpu"] = "stash" => stash.full /\ ~Retrying
    /\ stash.full /\ pc["cpu"] # "stash" => ~Pushing
    /\ Retrying => stash.full

(***************************************************************************)
(* Who will write the rest.  A reset forgets the time of the last push     *)
(* over an empty ring, with nothing on its way into it.                    *)
(***************************************************************************)
Stamped ==
  clean =>
    /\ head # tail => stamped
    /\ chunk # <<>> /\ opened => stamped
    /\ pc["lp"] = "consume" => stamped
    /\ pc["cpu"] \in {"clear", "cleared", "mark"} => ~stash.full /\ ~Retrying
    /\ pc["cpu"] = "mark" =>
         head = tail /\ pc["lp"] # "consume" /\ (chunk # <<>> => ~opened)

Inv == Types /\ Owed /\ Stashed /\ Stamped

-----------------------------------------------------------------------------
(***************************************************************************)
(* The ring's arithmetic, and sequences.                                   *)
(***************************************************************************)
LEMMA Sizes == /\ Size \in Nat /\ Size >= 2 /\ Chunk \in Nat /\ Chunk >= 1
               /\ MaxPrints \in Nat /\ MaxSessions \in Nat /\ MaxSessions >= 1
BY PrinterAssumption

LEMMA AfterType == ASSUME NEW i \in Nat, NEW n \in Nat PROVE After(i, n) \in Cursor
<1>1. i + n \in Nat
  OBVIOUS
<1> QED
  BY <1>1, Sizes DEF After, Cursor

LEMMA Distance ==
  ASSUME NEW h \in Cursor, NEW t \in Cursor
  PROVE  /\ (h + Size - t) % Size \in Cursor
         /\ (h + Size - t) % Size = 0 <=> h = t
<1> DEFINE x == h + Size - t
<1>1. x \in Nat /\ x < 2 * Size /\ x > 0 /\ Size \in Nat /\ Size > 0
  BY Sizes DEF Cursor
<1>2. x % Size = IF x < Size THEN x ELSE x - Size
  BY <1>1
<1> QED
  BY <1>1, <1>2 DEF Cursor

LEMMA CountType == ASSUME Ring PROVE Count \in Cursor /\ (Count = 0 <=> head = tail)
BY Distance DEF Ring, Count

LEMMA Few ==
  ASSUME Ring, NEW n \in Nat
  PROVE  Slots(tail, n) \in Seq(Byte) /\ Len(Slots(tail, n)) = n
<1>1. \A k \in 1 .. n : buf[After(tail, k - 1)] \in Byte
  <2> TAKE k \in 1 .. n
  <2>1. k - 1 \in Nat /\ tail \in Nat
    BY Sizes DEF Ring, Cursor
  <2>2. After(tail, k - 1) \in Cursor
    BY <2>1, AfterType
  <2> QED
    BY <2>2 DEF Ring
<1> QED
  BY <1>1 DEF Slots

LEMMA FileGrows ==
  ASSUME NEW f \in Seq(Seq(Byte)), NEW i \in 1 .. Len(f), NEW s \in Seq(Byte),
         NEW g, g = [f EXCEPT ![i] = @ \o s]
  PROVE  g \in Seq(Seq(Byte)) /\ Len(g) = Len(f)
<1>1. f[i] \o s \in Seq(Byte)
  OBVIOUS
<1> QED
  BY <1>1

(* The first of a set of numbers.                                          *)
LEMMA FirstExists ==
  ASSUME NEW S \in SUBSET Nat, S # {}
  PROVE  \E f \in S : \A g \in S : f <= g
<1> DEFINE R == OpToRel(<, Nat)
<1>1. IsWellFoundedOn(R, Nat)
  BY NatLessThanWellFounded
<1>2. \A x, y \in Nat : <<y, x>> \in R <=> y < x
  BY DEF OpToRel
<1> HIDE DEF R
<1>3. PICK f \in S : \A g \in S : ~ (<<g, f>> \in R)
  BY <1>1, WFMin
<1>4. \A g \in S : f <= g
  <2> TAKE g \in S
  <2>1. f \in Nat /\ g \in Nat /\ ~ (g < f)
    BY <1>2, <1>3
  <2> QED
    BY <2>1
<1> QED
  BY <1>4

LEMMA PickedType ==
  ASSUME files \in Seq(Seq(Byte))
  PROVE  Picked \in 1 .. Len(files) + 1
<1>1. EmptyFiles \in SUBSET Nat /\ EmptyFiles \subseteq 1 .. Len(files)
  BY DEF EmptyFiles
<1>2. CASE EmptyFiles = {}
  <2>1. Picked = Len(files) + 1 /\ Len(files) \in Nat
    BY <1>2 DEF Picked
  <2> QED
    BY <2>1
<1>3. CASE EmptyFiles # {}
  <2>1. \E f \in EmptyFiles : \A g \in EmptyFiles : f <= g
    BY <1>1, <1>3, FirstExists
  <2>2. Picked \in EmptyFiles
    BY <1>3, <2>1 DEF Picked
  <2>3. Len(files) \in Nat
    OBVIOUS
  <2> QED
    BY <1>1, <2>2, <2>3
<1> QED
  BY <1>2, <1>3

(* A picked file is empty, whether it was there or not.                    *)
LEMMA PickedEmpty ==
  ASSUME files \in Seq(Seq(Byte)), NEW f,
         f = IF Picked > Len(files) THEN Append(files, <<>>) ELSE files
  PROVE  f[Picked] = <<>> /\ Picked # 0
<1>1. Picked \in 1 .. Len(files) + 1 /\ Len(files) \in Nat
  BY PickedType
<1>2. CASE EmptyFiles = {}
  <2>1. Picked = Len(files) + 1
    BY <1>2 DEF Picked
  <2>2. f = Append(files, <<>>)
    BY <1>1, <2>1
  <2>3. Append(files, <<>>)[Len(files) + 1] = <<>>
    OBVIOUS
  <2> QED
    BY <1>1, <2>1, <2>2, <2>3
<1>3. CASE EmptyFiles # {}
  <2>1. EmptyFiles \in SUBSET Nat
    BY DEF EmptyFiles
  <2>2. \E g \in EmptyFiles : \A h \in EmptyFiles : g <= h
    BY <1>3, <2>1, FirstExists
  <2>3. Picked \in EmptyFiles
    BY <1>3, <2>2 DEF Picked
  <2>4. files[Picked] = <<>> /\ Picked \in 1 .. Len(files)
    BY <2>3 DEF EmptyFiles
  <2> QED
    BY <1>1, <2>4
<1> QED
  BY <1>2, <1>3

-----------------------------------------------------------------------------
(***************************************************************************)
(* Types.                                                                  *)
(***************************************************************************)
LEMMA InitTypes == Init => Types
<1> SUFFICES ASSUME Init PROVE Types
  OBVIOUS
<1>1. Places
  BY DEF Init, Places, Task, CpuPlace, ClkPlace, LpPlace
<1>2. Registers
  BY DEF Init, Registers, Csr, Idle, Busy, Byte, Task
<1>3. Ring
  BY Sizes DEF Init, Ring, Cursor, Byte
<1>4. Sessions
  BY Sizes DEF Init, Sessions
<1>5. Chunks
  BY Sizes DEF Init, Chunks
<1> QED
  BY <1>1, <1>2, <1>3, <1>4, <1>5 DEF Types

LEMMA PlacesStep == ASSUME Types, [Next]_vars PROVE Places'
<1> USE DEF Types, Places, Task, CpuPlace, ClkPlace, LpPlace, Goto
<1>1. CASE GuestWrites
  BY <1>1 DEF GuestWrites, WriteLPS, PrintByte
<1>2. CASE Access
  BY <1>2 DEF Access, StoreLPS, BusWrite, PushTest, PublishPrint, ArmNul,
              StashFlag, StashChar, ClearLoad, ClearStore, BeginSession
<1>3. CASE Execute \/ AcceptInterrupt \/ ResetDevice
  BY <1>3 DEF Execute, AcceptInterrupt, ResetDevice
<1>4. CASE Clock
  BY <1>4 DEF Clock, TickRetry, PushTest, RetryFull, PublishRetry, TickDue,
              CompleteDone, CompleteUntil, CompleteRequest, TakeInterrupt,
              QueueInterrupt
<1>5. CASE \/ OpenNoCard \/ OpenSessionFile \/ RotateDone \/ NoRotate
           \/ DrainChunk \/ DrainRest \/ DrainNothing
  BY <1>5 DEF OpenNoCard, OpenSessionFile, RotateDone, NoRotate, DrainChunk,
              DrainRest, DrainNothing
<1>6. CASE Pop
  BY <1>6 DEF Pop
<1>7. CASE Consume \/ PushTest("lp")
  BY <1>7 DEF Consume, PushTest
<1>8. CASE WriteChunk
  BY <1>8 DEF WriteChunk
<1>9. CASE WriteFails
  BY <1>9 DEF WriteFails
<1>10. CASE Requeue
  BY <1>10 DEF Requeue
<1>11. CASE RequeueEnds
  BY <1>11 DEF RequeueEnds
<1>12. CASE UNCHANGED vars
  BY <1>12 DEF vars
<1> QED
  BY <1>1, <1>2, <1>3, <1>4, <1>5, <1>6, <1>7, <1>8, <1>9, <1>10, <1>11,
     <1>12 DEF Next, Guest, Consumer

LEMMA RegistersStep == ASSUME Types, [Next]_vars PROVE Registers'
<1> USE DEF Types, Registers, Csr, Task, Busy, Idle, Meets, device, ring,
            capture, history
<1>1. CASE GuestWrites
  <2>1. CASE \E ie \in BOOLEAN : WriteLPS(ie)
    BY <2>1 DEF WriteLPS
  <2>2. CASE \E c \in {Nul, total + 1} : total < MaxPrints /\ PrintByte(c)
    <3>1. PICK c \in {Nul, total + 1} : total < MaxPrints /\ PrintByte(c)
      BY <2>2
    <3>2. c \in Byte
      BY <3>1, Sizes DEF Sessions, Byte, Text
    <3> QED
      BY <3>1, <3>2 DEF PrintByte
  <2> QED
    BY <1>1, <2>1, <2>2 DEF GuestWrites
<1> HIDE DEF Csr
<1>s. /\ \A c \in Csr : c.done \in BOOLEAN /\ c.ie \in BOOLEAN
      /\ \A c \in Csr : \A b \in BOOLEAN : [c EXCEPT !.ie = b] \in Csr
      /\ \A c \in Csr : [c EXCEPT !.done = TRUE] \in Csr
      /\ [done |-> FALSE, ie |-> FALSE] \in Csr
      /\ [done |-> TRUE, ie |-> FALSE] \in Csr
  BY DEF Csr
<1>b. Nul \in Byte
  BY DEF Byte
<1>2. CASE StoreLPS
  BY <1>2, <1>s DEF StoreLPS
<1>3. CASE \/ BusWrite \/ PushTest("cpu") \/ PublishPrint \/ ArmNul
           \/ StashFlag \/ StashChar \/ ClearLoad \/ ClearStore
           \/ BeginSession
  BY <1>3, <1>s, <1>b
     DEF BusWrite, PushTest, PublishPrint, Publish, ArmNul, StashFlag,
         StashChar, ClearLoad, ClearStore, BeginSession
<1>4. CASE Execute \/ AcceptInterrupt
  BY <1>4 DEF Execute, AcceptInterrupt
<1>r. CASE ResetDevice
  <2>1. stash' \in [full : BOOLEAN, char : Byte] /\ lps' \in Csr
    BY <1>r, <1>s, <1>b DEF ResetDevice
  <2> QED
    BY <1>r, <2>1 DEF ResetDevice
<1>5. CASE TickRetry \/ PushTest("clk") \/ RetryFull \/ CompleteUntil
  BY <1>5 DEF TickRetry, PushTest, RetryFull, CompleteUntil
<1>p. CASE PublishRetry
  BY <1>p DEF PublishRetry, Publish
<1>t. CASE TickDue
  BY <1>t DEF TickDue
<1>d. CASE CompleteDone
  <2>1. seen["clk"] \in Csr /\ lps' = [seen["clk"] EXCEPT !.done = TRUE]
    BY <1>d DEF CompleteDone
  <2>2. lps' \in Csr
    BY <2>1, <1>s
  <2>3. seen' \in [Task -> Csr]
    BY <1>d, <1>s DEF CompleteDone
  <2> QED
    BY <1>d, <2>2, <2>3 DEF CompleteDone
<1>q. CASE CompleteRequest \/ TakeInterrupt \/ QueueInterrupt
  BY <1>q, <1>s DEF CompleteRequest, TakeInterrupt, QueueInterrupt
<1>6. CASE \/ OpenNoCard \/ OpenSessionFile \/ RotateDone \/ NoRotate
           \/ DrainChunk \/ DrainRest \/ DrainNothing
  BY <1>6 DEF OpenNoCard, OpenSessionFile, RotateDone, NoRotate, DrainChunk,
              DrainRest, DrainNothing
<1>7. CASE \/ Pop \/ Consume \/ WriteChunk \/ WriteFails \/ PushTest("lp")
           \/ Requeue \/ RequeueEnds
  BY <1>7 DEF Pop, Consume, WriteChunk, WriteFails, PushTest, Requeue, Publish,
              RequeueEnds
<1>8. CASE UNCHANGED vars
  BY <1>8 DEF vars
<1> QED
  BY <1>1, <1>2, <1>3, <1>4, <1>r, <1>5, <1>p, <1>t, <1>d, <1>q, <1>6, <1>7,
     <1>8 DEF Next, Guest, Access, Clock, Consumer

(* A push stores a byte where it has loaded the head.                      *)
LEMMA PublishRing ==
  ASSUME Ring, NEW t \in Task, NEW b \in Byte, Publish(t, b) PROVE Ring'
<1>1. slot[t] \in Cursor /\ slot[t] \in Nat /\ 0 \in Cursor
  BY Sizes DEF Ring, Cursor
<1>2. After(slot[t], 1) \in Cursor
  BY <1>1, AfterType
<1> QED
  BY <1>1, <1>2 DEF Publish, Ring

LEMMA RingStep == ASSUME Types, [Next]_vars PROVE Ring'
<1>0. /\ Ring /\ char \in Byte /\ stash.char \in Byte /\ 0 \in Cursor
      /\ "cpu" \in Task /\ "clk" \in Task /\ "lp" \in Task
  BY Sizes DEF Types, Registers, Cursor, Task
<1>1. CASE PublishPrint
  BY <1>0, <1>1, PublishRing DEF PublishPrint
<1>2. CASE PublishRetry
  BY <1>0, <1>2, PublishRing DEF PublishRetry
<1>3. CASE Requeue
  <2>1. pc["lp"] = "publish" /\ Publish("lp", Head(chunk))
    BY <1>3 DEF Requeue, Publish
  <2>2. Head(chunk) \in Byte
    BY <2>1 DEF Types, Chunks
  <2> QED
    BY <1>0, <2>1, <2>2, PublishRing
<1>4. CASE Consume
  <2>1. PICK t \in {tail, slot["lp"]} : tail' = After(t, run)
    BY <1>4 DEF Consume
  <2>2. t \in Nat /\ run \in Nat
    BY <1>0, <2>1, Sizes DEF Ring, Cursor, Types, Chunks
  <2>3. tail' \in Cursor
    BY <2>1, <2>2, AfterType
  <2> QED
    BY <1>0, <1>4, <2>3 DEF Consume, Ring
<1> USE DEF Ring, device, ring, capture, history
<1>5. CASE GuestWrites
  BY <1>0, <1>5 DEF GuestWrites, WriteLPS, PrintByte
<1>6. CASE \/ StoreLPS \/ BusWrite \/ ArmNul \/ StashFlag \/ StashChar
           \/ ClearLoad \/ ClearStore \/ BeginSession \/ Execute
           \/ AcceptInterrupt \/ ResetDevice
  BY <1>0, <1>6
     DEF StoreLPS, BusWrite, ArmNul, StashFlag, StashChar, ClearLoad,
         ClearStore, BeginSession, Execute, AcceptInterrupt, ResetDevice
<1>7. CASE \E t \in Task : PushTest(t)
  BY <1>0, <1>7 DEF PushTest
<1>8. CASE \/ TickRetry \/ RetryFull \/ TickDue \/ CompleteDone
           \/ CompleteUntil \/ CompleteRequest \/ TakeInterrupt
           \/ QueueInterrupt
  BY <1>0, <1>8
     DEF TickRetry, RetryFull, TickDue, CompleteDone, CompleteUntil,
         CompleteRequest, TakeInterrupt, QueueInterrupt
<1>9. CASE \/ OpenNoCard \/ OpenSessionFile \/ RotateDone \/ NoRotate
           \/ DrainChunk \/ DrainRest \/ DrainNothing \/ WriteChunk
           \/ WriteFails \/ RequeueEnds
  BY <1>0, <1>9
     DEF OpenNoCard, OpenSessionFile, RotateDone, NoRotate, DrainChunk,
         DrainRest, DrainNothing, WriteChunk, WriteFails, RequeueEnds
<1>10. CASE Pop
  BY <1>0, <1>10 DEF Pop
<1>11. CASE UNCHANGED vars
  BY <1>0, <1>11 DEF vars
<1> QED
  BY <1>0, <1>1, <1>2, <1>3, <1>4, <1>5, <1>6, <1>7, <1>8, <1>9, <1>10, <1>11
     DEF Next, Guest, Access, Clock, Consumer

(* The session is counted when the ring has been emptied.                  *)
LEMMA SessionsStep == ASSUME Types, [Next]_vars PROVE Sessions'
<1> USE Sizes DEF Types, Places, Sessions, Task, Goto, history, vars
<1>1. CASE \E ie \in BOOLEAN : WriteLPS(ie)
  BY <1>1 DEF WriteLPS
<1>2. CASE \E c \in {Nul, total + 1} : total < MaxPrints /\ PrintByte(c)
  <2>1. PICK c \in {Nul, total + 1} : total < MaxPrints /\ PrintByte(c)
    BY <1>2
  <2>2. c # Nul => c \in Text
    BY <2>1 DEF Text
  <2>3. printed' \in Seq(Text) /\ total' \in 0 .. MaxPrints
    BY <2>1, <2>2 DEF PrintByte
  <2>4. session' = session /\ pc'["cpu"] \in {"arm", "push"}
    BY <2>1 DEF PrintByte
  <2> QED
    BY <2>3, <2>4
<1>3. CASE ResetDevice
  BY <1>3 DEF ResetDevice
<1>4. CASE ClearLoad
  BY <1>4 DEF ClearLoad
<1>c. CASE ClearStore
  <2>1. /\ pc'["cpu"] = "mark" /\ session < MaxSessions
        /\ session' = session + 1 /\ total' = total /\ printed' = <<>>
    BY <1>c DEF ClearStore
  <2> QED
    BY <2>1
<1>5. CASE \/ StoreLPS \/ BusWrite \/ PushTest("cpu") \/ PublishPrint
           \/ ArmNul \/ StashFlag \/ StashChar \/ BeginSession \/ Execute
           \/ AcceptInterrupt
  BY <1>5 DEF StoreLPS, BusWrite, PushTest, PublishPrint, ArmNul, StashFlag,
              StashChar, BeginSession, Execute, AcceptInterrupt
<1>6. CASE Clock
  BY <1>6 DEF Clock, TickRetry, PushTest, RetryFull, PublishRetry, TickDue,
              CompleteDone, CompleteUntil, CompleteRequest, TakeInterrupt,
              QueueInterrupt
<1>7. CASE \/ OpenNoCard \/ OpenSessionFile \/ RotateDone \/ NoRotate
           \/ DrainChunk \/ DrainRest \/ DrainNothing
  BY <1>7 DEF OpenNoCard, OpenSessionFile, RotateDone, NoRotate, DrainChunk,
              DrainRest, DrainNothing
<1>8. CASE Pop
  <2>1. pc'["cpu"] = pc["cpu"] /\ session' = session /\ total' = total
        /\ printed' = printed
    BY <1>8 DEF Pop
  <2> QED
    BY <2>1
<1>9. CASE \/ Consume \/ WriteChunk \/ WriteFails \/ PushTest("lp")
           \/ Requeue \/ RequeueEnds
  BY <1>9 DEF Consume, WriteChunk, WriteFails, PushTest, Requeue, RequeueEnds
<1>10. CASE UNCHANGED vars
  BY <1>10
<1> QED
  BY <1>1, <1>2, <1>3, <1>4, <1>c, <1>5, <1>6, <1>7, <1>8, <1>9, <1>10
     DEF Next, Guest, GuestWrites, Access, Consumer

(* What the consumer holds: only its own steps and a session's new file    *)
(* can disturb it.                                                         *)
LEMMA ChunksStep == ASSUME Types, [Next]_vars PROVE Chunks'
<1>a. ASSUME pc'["lp"] = pc["lp"], UNCHANGED <<current, files, chunk, want, run>>
      PROVE  Chunks'
  BY <1>a DEF Types, Chunks
<1>t. /\ Len(files) \in Nat /\ Len(chunk) \in Nat /\ want \in Nat
      /\ Chunk \in Nat /\ Count \in Nat /\ Places /\ Chunks
      /\ \A s \in Seq(Byte) : Len(s) \in Nat
  BY Sizes, CountType DEF Types, Chunks, Cursor
<1>p. \A p \in LpPlace : Goto("lp", p) => pc'["lp"] = p
  BY <1>t DEF Places, Goto, Task
<1>1. CASE Guest \/ Clock \/ UNCHANGED vars
  <2>1. pc'["lp"] = pc["lp"]
    BY <1>1
       DEF Types, Places, Task, Goto, vars, Guest, GuestWrites, WriteLPS,
           PrintByte, Access, StoreLPS, BusWrite, PushTest, PublishPrint,
           ArmNul, StashFlag, StashChar, ClearLoad, ClearStore, BeginSession,
           Execute, AcceptInterrupt, ResetDevice, Clock, TickRetry, RetryFull,
           PublishRetry, TickDue, CompleteDone, CompleteUntil,
           CompleteRequest, TakeInterrupt, QueueInterrupt
  <2>2. UNCHANGED <<current, files, chunk, want, run>>
    BY <1>1
       DEF vars, capture, Guest, GuestWrites, WriteLPS,
           PrintByte, Access, StoreLPS, BusWrite, PushTest, PublishPrint,
           ArmNul, StashFlag, StashChar, ClearLoad, ClearStore, BeginSession,
           Execute, AcceptInterrupt, ResetDevice, Clock, TickRetry, RetryFull,
           PublishRetry, TickDue, CompleteDone, CompleteUntil,
           CompleteRequest, TakeInterrupt, QueueInterrupt
  <2> QED
    BY <1>a, <2>1, <2>2
<1>2. CASE OpenNoCard
  BY <1>t, <1>2 DEF OpenNoCard, Chunks
<1>3. CASE OpenSessionFile
  <2>1. Picked \in 1 .. Len(files) + 1
    BY <1>t, PickedType DEF Chunks
  <2>2. files' \in Seq(Seq(Byte)) /\ current' \in 1 .. Len(files')
    <3>1. CASE Picked > Len(files)
      <4>1. files' = Append(files, <<>>) /\ <<>> \in Seq(Byte)
        BY <1>3, <3>1 DEF OpenSessionFile
      <4> QED
        BY <1>3, <1>t, <2>1, <4>1 DEF OpenSessionFile, Chunks
    <3>2. CASE ~ (Picked > Len(files))
      BY <1>3, <1>t, <2>1, <3>2 DEF OpenSessionFile, Chunks
    <3> QED
      BY <3>1, <3>2
  <2>3. /\ pc["lp"] = "sleep" /\ pc'["lp"] = "opened"
        /\ UNCHANGED <<chunk, want, run>>
    BY <1>3, <1>t DEF OpenSessionFile, Places, Goto, Task
  <2>4. Len(files') \in Nat
    BY <2>2
  <2> QED
    BY <1>t, <2>2, <2>3, <2>4 DEF Chunks
<1>4. CASE RotateDone \/ NoRotate
  <2>1. pc'["lp"] = "drain" /\ pc["lp"] \in {"opened", "sleep"} /\ current # 0
        /\ UNCHANGED <<current, files, chunk, want, run>>
    BY <1>4, <1>t DEF RotateDone, NoRotate, capture, Places, Goto, Task, Chunks
  <2> QED
    BY <1>t, <2>1 DEF Chunks
<1>5. CASE DrainChunk \/ DrainRest
  <2>1. pc["lp"] = "drain" /\ pc'["lp"] = "pop" /\ want' \in 0 .. Chunk
        /\ UNCHANGED <<current, files, chunk, run>>
    BY <1>5, <1>t DEF DrainChunk, DrainRest, capture, Places, Goto, Task
  <2> QED
    BY <1>t, <2>1 DEF Chunks
<1>6. CASE DrainNothing
  <2>1. pc["lp"] = "drain" /\ pc'["lp"] = "sleep"
        /\ UNCHANGED <<current, files, chunk, want, run>>
    BY <1>6, <1>t DEF DrainNothing, capture, Places, Goto, Task
  <2> QED
    BY <1>t, <2>1 DEF Chunks
<1>7. CASE Pop
  <2> DEFINE n == Least(want - Len(chunk), Least(Count, Size - tail))
  <2>1. /\ pc["lp"] = "pop" /\ chunk' = chunk \o Slots(tail, n) /\ run' = n
        /\ Goto("lp", IF n > 0 THEN "consume"
                      ELSE IF chunk # <<>> THEN "write" ELSE "sleep")
        /\ UNCHANGED <<current, files, want>>
    BY <1>7 DEF Pop
  <2>2. Size - tail \in Nat
    BY Sizes DEF Types, Ring, Cursor
  <2>3. n \in Nat /\ n <= want - Len(chunk)
    BY <1>t, <2>1, <2>2 DEF Least, Chunks
  <2>4. Slots(tail, n) \in Seq(Byte) /\ Len(Slots(tail, n)) = n
    BY <2>3, Few DEF Types
  <2> HIDE DEF n
  <2>5. chunk' \in Seq(Byte) /\ Len(chunk') = Len(chunk) + n
    BY <1>t, <2>1, <2>4 DEF Chunks
  <2>6. run' \in 0 .. Chunk /\ Len(chunk') <= want /\ want <= Chunk
    BY <1>t, <2>1, <2>3, <2>5 DEF Chunks
  <2>7. CASE n > 0
    <3>1. pc'["lp"] = "consume" /\ chunk' # <<>>
      BY <1>p, <2>1, <2>3, <2>5, <2>7, <1>t DEF LpPlace
    <3> QED
      BY <1>t, <2>1, <2>5, <2>6, <3>1 DEF Chunks
  <2>8. CASE n = 0 /\ chunk # <<>>
    <3>1. pc'["lp"] = "write" /\ chunk' # <<>>
      BY <1>p, <2>1, <2>5, <2>8, <1>t DEF LpPlace, Chunks
    <3> QED
      BY <1>t, <2>1, <2>5, <2>6, <3>1 DEF Chunks
  <2>9. CASE n = 0 /\ chunk = <<>>
    <3>1. pc'["lp"] = "sleep" /\ chunk' = <<>>
      BY <1>p, <2>1, <2>5, <2>9, <1>t DEF LpPlace, Chunks
    <3> QED
      BY <1>t, <2>1, <2>5, <2>6, <3>1 DEF Chunks
  <2> QED
    BY <2>3, <2>7, <2>8, <2>9
<1>8. CASE Consume
  <2>1. pc["lp"] = "consume" /\ pc'["lp"] \in {"pop", "write"} /\ run' = 0
        /\ UNCHANGED <<current, files, chunk, want>>
    BY <1>8, <1>p DEF Consume, LpPlace
  <2> QED
    BY <1>t, <2>1 DEF Chunks
<1>9. CASE WriteChunk
  <2>1. /\ pc["lp"] = "write" /\ pc'["lp"] \in {"drain", "sleep"}
        /\ chunk' = <<>> /\ want' = 0 /\ UNCHANGED <<current, run>>
        /\ files' = [files EXCEPT ![current] = @ \o chunk]
    BY <1>9, <1>p DEF WriteChunk, LpPlace
  <2>2. current \in 1 .. Len(files)
    BY <1>t, <2>1 DEF Chunks
  <2>3. files' \in Seq(Seq(Byte)) /\ Len(files') = Len(files)
    BY <1>t, <2>1, <2>2, FileGrows DEF Chunks
  <2> QED
    BY <1>t, <2>1, <2>2, <2>3 DEF Chunks
<1>10. CASE WriteFails
  <2>1. /\ pc["lp"] = "write" /\ pc'["lp"] = "push" /\ want' = 0
        /\ UNCHANGED <<current, chunk, run>>
    BY <1>10, <1>p DEF WriteFails, LpPlace
  <2>2. PICK n \in 0 .. Len(chunk) - 1 :
          files' = [files EXCEPT ![current] = @ \o SubSeq(chunk, 1, n)]
    BY <1>10 DEF WriteFails
  <2>3. SubSeq(chunk, 1, n) \in Seq(Byte)
    BY <1>t, <2>2 DEF Chunks
  <2>4. current \in 1 .. Len(files)
    BY <1>t, <2>1 DEF Chunks
  <2>5. files' \in Seq(Seq(Byte)) /\ Len(files') = Len(files)
    BY <1>t, <2>2, <2>3, <2>4, FileGrows DEF Chunks
  <2> QED
    BY <1>t, <2>1, <2>4, <2>5 DEF Chunks
<1>11. CASE PushTest("lp")
  <2>1. pc["lp"] = "push" /\ pc'["lp"] \in {"publish", "full"}
        /\ UNCHANGED <<current, files, chunk, want, run>>
    BY <1>11, <1>p DEF PushTest, capture, LpPlace
  <2> QED
    BY <1>t, <2>1 DEF Chunks
<1>12. CASE Requeue
  <2>1. /\ pc["lp"] = "publish" /\ chunk' = Tail(chunk)
        /\ pc'["lp"] = IF Len(chunk) = 1 THEN "sleep" ELSE "push"
        /\ UNCHANGED <<current, files, want, run>>
    BY <1>12, <1>p DEF Requeue, Publish, LpPlace
  <2>2. chunk # <<>> /\ Tail(chunk) \in Seq(Byte)
        /\ Len(Tail(chunk)) = Len(chunk) - 1
    BY <1>t, <2>1 DEF Chunks
  <2>3. chunk' = <<>> <=> Len(chunk) = 1
    <3>1. \A s \in Seq(Byte) : s = <<>> <=> Len(s) = 0
      OBVIOUS
    <3>2. chunk' = <<>> <=> Len(chunk') = 0
      BY <2>1, <2>2, <3>1
    <3> QED
      BY <1>t, <2>1, <2>2, <3>2
  <2> QED
    BY <1>t, <2>1, <2>2, <2>3 DEF Chunks
<1>13. CASE RequeueEnds
  <2>1. pc["lp"] = "full" /\ pc'["lp"] = "sleep" /\ chunk' = <<>>
        /\ UNCHANGED <<current, files, want, run>>
    BY <1>13, <1>p DEF RequeueEnds, LpPlace
  <2> QED
    BY <1>t, <2>1 DEF Chunks
<1> QED
  BY <1>1, <1>2, <1>3, <1>4, <1>5, <1>6, <1>7, <1>8, <1>9, <1>10, <1>11,
     <1>12, <1>13 DEF Next, Consumer

LEMMA TypesStep == Types /\ [Next]_vars => Types'
BY PlacesStep, RegistersStep, RingStep, SessionsStep, ChunksStep DEF Types

-----------------------------------------------------------------------------
(***************************************************************************)
(* Nothing hangs.  The consumer never touches the device, and the steps of *)
(* the other two keep an account of DONE as long as they have not met.     *)
(***************************************************************************)
LEMMA InitInv == Init => Inv
<1> SUFFICES ASSUME Init PROVE Inv
  OBVIOUS
<1>1. Owed /\ Stashed /\ Stamped
  BY DEF Init, Owed, Stashed, Stamped, Idle, Pushing, Retrying, NoneLeft
<1> QED
  BY <1>1, InitTypes DEF Inv

LEMMA ConsumerApart ==
  ASSUME Types, Consumer
  PROVE  /\ UNCHANGED <<lps, until, stash>> /\ (clean' => clean)
         /\ pc'["cpu"] = pc["cpu"] /\ pc'["clk"] = pc["clk"]
<1> USE DEF Types, Places, Task, Goto, Meets, device, history
<1>1. CASE OpenNoCard \/ NoRotate
  BY <1>1 DEF OpenNoCard, NoRotate
<1>o. CASE OpenSessionFile
  BY <1>o DEF OpenSessionFile
<1>r. CASE RotateDone
  BY <1>r DEF RotateDone
<1>d. CASE DrainChunk \/ DrainRest \/ DrainNothing
  BY <1>d DEF DrainChunk, DrainRest, DrainNothing
<1>2. CASE Pop
  <2>1. UNCHANGED <<lps, until, stash>> /\ (clean' => clean)
    BY <1>2 DEF Pop
  <2>2. pc'["cpu"] = pc["cpu"] /\ pc'["clk"] = pc["clk"]
    BY <1>2 DEF Pop
  <2> QED
    BY <2>1, <2>2
<1>3. CASE Consume \/ PushTest("lp")
  BY <1>3 DEF Consume, PushTest
<1>w. CASE WriteChunk
  BY <1>w DEF WriteChunk
<1>q. CASE Requeue
  BY <1>q DEF Requeue
<1>e. CASE RequeueEnds
  BY <1>e DEF RequeueEnds
<1>4. CASE WriteFails
  BY <1>4 DEF WriteFails
<1> QED
  BY <1>1, <1>o, <1>r, <1>d, <1>2, <1>3, <1>w, <1>q, <1>e, <1>4 DEF Consumer

LEMMA DeviceStep == ASSUME Inv, [Next]_vars PROVE Owed' /\ Stashed'
<1>t. /\ pc \in [Task -> CpuPlace \union ClkPlace \union LpPlace]
      /\ stash \in [full : BOOLEAN, char : Byte] /\ lps \in Csr
      /\ seen \in [Task -> Csr] /\ "cpu" \in Task /\ "clk" \in Task
  BY DEF Inv, Types, Places, Registers, Task
<1>f. ASSUME UNCHANGED <<lps, until, stash>>, clean' => clean,
             pc'["cpu"] = pc["cpu"], pc'["clk"] = pc["clk"]
      PROVE  Owed' /\ Stashed'
  BY <1>f DEF Inv, Owed, Stashed, Pushing, Retrying, NoneLeft
<1>c. CASE Consumer
  BY <1>c, <1>f, ConsumerApart DEF Inv
<1>u. CASE UNCHANGED vars
  BY <1>u, <1>f DEF vars, device, history
<1>e. CASE AcceptInterrupt
  BY <1>e, <1>f DEF AcceptInterrupt, history
<1> USE <1>t DEF Inv, Owed, Stashed, Pushing, Retrying, NoneLeft, Goto, Meets,
             device, history
<1>1. CASE \E ie \in BOOLEAN : WriteLPS(ie)
  BY <1>1 DEF WriteLPS, Running
<1>2. CASE \E c \in {Nul, total + 1} : total < MaxPrints /\ PrintByte(c)
  <2>1. /\ pc["cpu"] = "run" /\ lps.done /\ lps' = [lps EXCEPT !.done = FALSE]
        /\ pc'["cpu"] \in {"arm", "push"} /\ pc'["clk"] = pc["clk"]
        /\ UNCHANGED <<until, stash, clean>>
    BY <1>2 DEF PrintByte, Running
  <2>2. ~lps'.done
    BY <2>1 DEF Csr
  <2> QED
    BY <2>1, <2>2
<1>3. CASE StoreLPS
  <2>1. /\ pc["cpu"] \in {"enable", "disable"} /\ pc'["cpu"] = "bus"
        /\ pc'["clk"] = pc["clk"] /\ UNCHANGED <<until, stash>>
        /\ clean' = (clean /\ lps = seen["cpu"])
        /\ \E b : lps' = [seen["cpu"] EXCEPT !.ie = b]
    BY <1>3 DEF StoreLPS
  <2>2. lps'.done = seen["cpu"].done
    BY <2>1 DEF Csr
  <2> QED
    BY <2>1, <2>2
<1>4. CASE BusWrite
  BY <1>4 DEF BusWrite
<1>5. CASE PushTest("cpu")
  BY <1>5 DEF PushTest
<1>6. CASE PublishPrint
  BY <1>6 DEF PublishPrint, Publish
<1>7. CASE ArmNul
  BY <1>7 DEF ArmNul
<1>8. CASE StashFlag
  BY <1>8 DEF StashFlag
<1>9. CASE StashChar
  BY <1>9 DEF StashChar
<1>10. CASE ClearLoad
  BY <1>10 DEF ClearLoad
<1>s. CASE ClearStore
  BY <1>s DEF ClearStore
<1>b. CASE BeginSession
  BY <1>b DEF BeginSession
<1>11. CASE Execute
  BY <1>11 DEF Execute, Running
<1>12. CASE ResetDevice
  BY <1>12 DEF ResetDevice, Running, Idle
<1>13. CASE TickRetry
  BY <1>13 DEF TickRetry
<1>14. CASE PushTest("clk")
  BY <1>14 DEF PushTest
<1>15. CASE RetryFull
  BY <1>15 DEF RetryFull
<1>16. CASE PublishRetry
  BY <1>16 DEF PublishRetry, Publish
<1>17. CASE TickDue
  BY <1>17 DEF TickDue
<1>18. CASE CompleteDone
  <2>1. /\ pc["clk"] = "done" /\ pc'["clk"] = "zero"
        /\ pc'["cpu"] = pc["cpu"] /\ UNCHANGED <<until, stash>>
        /\ clean' = (clean /\ lps = seen["clk"])
        /\ lps' = [seen["clk"] EXCEPT !.done = TRUE]
    BY <1>18 DEF CompleteDone
  <2>2. lps'.done
    BY <2>1 DEF Csr
  <2> QED
    BY <2>1, <2>2
<1>19. CASE CompleteUntil
  BY <1>19 DEF CompleteUntil
<1>20. CASE CompleteRequest \/ TakeInterrupt \/ QueueInterrupt
  BY <1>20 DEF CompleteRequest, TakeInterrupt, QueueInterrupt
<1> QED
  BY <1>c, <1>u, <1>e, <1>1, <1>2, <1>3, <1>4, <1>5, <1>6, <1>7, <1>8, <1>9,
     <1>10, <1>s, <1>b, <1>11, <1>12, <1>13, <1>14, <1>15, <1>16, <1>17,
     <1>18, <1>19, <1>20 DEF Next, Guest, GuestWrites, Access, Clock

LEMMA StampedStep == ASSUME Inv, [Next]_vars PROVE Stamped'
<1>t. /\ pc \in [Task -> CpuPlace \union ClkPlace \union LpPlace]
      /\ stash \in [full : BOOLEAN, char : Byte] /\ chunk \in Seq(Byte)
      /\ "cpu" \in Task /\ "clk" \in Task /\ "lp" \in Task
      /\ Count \in Cursor /\ (Count = 0 <=> head = tail)
  BY CountType DEF Inv, Types, Places, Registers, Chunks, Task
<1> USE <1>t DEF Inv, Stamped, Retrying, Goto, Meets, device, ring, capture,
             history
<1>1. CASE GuestWrites
  BY <1>1 DEF GuestWrites, WriteLPS, PrintByte, Running
<1>2. CASE StoreLPS \/ BusWrite \/ PushTest("cpu") \/ ArmNul
  BY <1>2 DEF StoreLPS, BusWrite, PushTest, ArmNul
<1>3. CASE PublishPrint
  BY <1>3 DEF PublishPrint, Publish
<1>4. CASE StashFlag \/ StashChar
  BY <1>4 DEF StashFlag, StashChar
<1>5. CASE ClearLoad
  BY <1>5 DEF ClearLoad
<1>6. CASE ClearStore
  BY <1>6 DEF ClearStore
<1>7. CASE BeginSession
  BY <1>7 DEF BeginSession
<1>8. CASE Execute \/ AcceptInterrupt \/ UNCHANGED vars
  BY <1>8 DEF Execute, AcceptInterrupt, vars
<1>9. CASE ResetDevice
  BY <1>9 DEF ResetDevice
<1>10. CASE TickRetry \/ PushTest("clk") \/ RetryFull
  BY <1>10 DEF TickRetry, PushTest, RetryFull
<1>11. CASE PublishRetry
  BY <1>11 DEF PublishRetry, Publish
<1>12. CASE \/ TickDue \/ CompleteDone \/ CompleteUntil \/ CompleteRequest
            \/ TakeInterrupt \/ QueueInterrupt
  BY <1>12 DEF TickDue, CompleteDone, CompleteUntil, CompleteRequest,
               TakeInterrupt, QueueInterrupt
<1>13. CASE OpenNoCard
  BY <1>13 DEF OpenNoCard
<1>14. CASE OpenSessionFile
  BY <1>14 DEF OpenSessionFile, Types, Chunks
<1>15. CASE \/ RotateDone \/ NoRotate \/ DrainChunk \/ DrainRest
            \/ DrainNothing
  BY <1>15 DEF RotateDone, NoRotate, DrainChunk, DrainRest, DrainNothing
<1>16. CASE Pop
  <2> DEFINE n == Least(want - Len(chunk), Least(Count, Size - tail))
  <2>1. /\ pc["lp"] = "pop" /\ chunk' = chunk \o Slots(tail, n)
        /\ UNCHANGED <<stamped, head, tail, opened, stash>>
        /\ (clean' => clean) /\ pc'["cpu"] = pc["cpu"]
        /\ pc'["clk"] = pc["clk"] /\ (pc'["lp"] = "consume" => n > 0)
    BY <1>16 DEF Pop
  <2>2. n \in Nat /\ (n > 0 => head # tail)
    <3>1. /\ Len(chunk) \in Nat /\ want \in Nat /\ Len(chunk) <= want
          /\ Count \in Nat /\ Size - tail \in Nat
      BY <2>1, Sizes DEF Types, Ring, Chunks, Cursor
    <3>2. n \in Nat /\ n <= Count
      BY <3>1 DEF Least
    <3> QED
      BY <3>2
  <2>3. n = 0 => chunk' = chunk
    <3>1. Slots(tail, n) \in Seq(Byte) /\ Len(Slots(tail, n)) = n
      BY <2>2, Few DEF Types
    <3> QED
      BY <2>1, <3>1
  <2> HIDE DEF n
  <2> QED
    BY <2>1, <2>2, <2>3
<1>17. CASE Consume
  BY <1>17 DEF Consume
<1>18. CASE WriteChunk
  BY <1>18 DEF WriteChunk
<1>19. CASE WriteFails
  BY <1>19 DEF WriteFails
<1>20. CASE PushTest("lp")
  BY <1>20 DEF PushTest
<1>21. CASE Requeue
  <2>1. pc["lp"] = "publish" /\ chunk # <<>>
    BY <1>21 DEF Requeue, Publish, Types, Chunks
  <2> QED
    BY <1>21, <2>1 DEF Requeue
<1>22. CASE RequeueEnds
  BY <1>22 DEF RequeueEnds
<1> QED
  BY <1>1, <1>2, <1>3, <1>4, <1>5, <1>6, <1>7, <1>8, <1>9, <1>10, <1>11,
     <1>12, <1>13, <1>14, <1>15, <1>16, <1>17, <1>18, <1>19, <1>20, <1>21,
     <1>22 DEF Next, Guest, Access, Clock, Consumer

LEMMA InvStep == Inv /\ [Next]_vars => Inv'
BY TypesStep, DeviceStep, StampedStep DEF Inv

(***************************************************************************)
(* Every cursor, register and buffer of lp11.cpp, fifo.h and               *)
(* lp_capture.cpp keeps its range whatever the three tasks do to each      *)
(* other: the type invariant of the printer and of its capture.            *)
(***************************************************************************)
THEOREM PrinterTypes == Spec => []TypeOK
<1>1. Init => Types
  BY InitTypes
<1>2. Types /\ [Next]_vars => Types'
  BY TypesStep
<1>3. Types => TypeOK
  BY DEF Types, Registers, Ring, Sessions, Chunks, TypeOK, Csr, Cursor, Byte
<1> QED
  BY <1>1, <1>2, <1>3, PTL DEF Spec

(***************************************************************************)
(* Nothing hangs, for every size of ring and chunk: while the guest waits  *)
(* for DONE, its own write, the stash that tick retries or the completion  *)
(* time that complete_print answers will set it; and a rest in the ring    *)
(* has the last_push_ms without which drain_policy would never write it.   *)
(***************************************************************************)
THEOREM PrinterNeverStuck == Spec => []NeverStuck
<1>1. Inv => NeverStuck
  <2> SUFFICES ASSUME Inv, clean PROVE NeverStuck
    BY DEF NeverStuck
  <2>1. Count = 0 <=> head = tail
    BY CountType DEF Inv, Types
  <2>2. Count # 0 => stamped
    BY <2>1 DEF Inv, Stamped
  <2>3. ~lps.done => \/ pc["cpu"] \in {"push", "publish", "full", "arm"}
                     \/ stash.full
                     \/ until # "none"
    BY DEF Inv, Owed, Stashed, Pushing
  <2> QED
    BY <2>2, <2>3 DEF NeverStuck
<1> QED
  BY <1>1, InitInv, InvStep, PTL DEF Spec

-----------------------------------------------------------------------------
(***************************************************************************)
(* Nothing is lost.  A task about to store a cursor has loaded the one     *)
(* that is there, and a file just picked, or still to be picked, is empty. *)
(***************************************************************************)
Dist(t, h) == (h + Size - t) % Size
SlotsOf(b, i, n) == [k \in 1 .. n |-> b[After(i, k - 1)]]
From == IF pc["lp"] = "consume" THEN After(tail, run) ELSE tail

Slotted ==
  clean =>
    /\ \A t \in Task : pc[t] = "publish" => slot[t] = head /\ Count < Size - 1
    /\ pc["lp"] = "consume" => slot["lp"] = tail /\ run \in 0 .. Count

Filed ==
  clean =>
    /\ opened => current # 0
    /\ opened /\ rotate => chunk = <<>> /\ files[current] = <<>>
    /\ pc["cpu"] = "mark" => printed = <<>>

LEMMA DistType ==
  ASSUME NEW t \in Cursor, NEW h \in Cursor
  PROVE  Dist(t, h) \in 0 .. Size - 1
BY Distance DEF Dist, Cursor

(* Moving the head makes the run longer by one, unless the ring was full.  *)
LEMMA DistHead ==
  ASSUME NEW t \in Cursor, NEW h \in Cursor
  PROVE  /\ After(h, 1) = t <=> Dist(t, h) = Size - 1
         /\ Dist(t, h) < Size - 1 => Dist(t, After(h, 1)) = Dist(t, h) + 1
BY Sizes DEF Cursor, After, Dist

(* Moving the tail within the run makes it shorter.                        *)
LEMMA DistTail ==
  ASSUME NEW t \in Cursor, NEW h \in Cursor, NEW n \in 0 .. Dist(t, h)
  PROVE  /\ Dist(After(t, n), h) = Dist(t, h) - n
         /\ \A i \in 0 .. Dist(t, h) - n : After(After(t, n), i) = After(t, n + i)
BY Sizes DEF Cursor, After, Dist

(* The slots of the run are cursors other than the head, which follows.    *)
LEMMA DistSlots ==
  ASSUME NEW t \in Cursor, NEW h \in Cursor
  PROVE  /\ \A i \in 0 .. Dist(t, h) - 1 : After(t, i) \in Cursor /\ After(t, i) # h
         /\ After(t, Dist(t, h)) = h
BY Sizes DEF Cursor, After, Dist

LEMMA SlotsType ==
  ASSUME NEW b \in [Cursor -> Byte], NEW t \in Cursor, NEW n \in Nat
  PROVE  /\ SlotsOf(b, t, n) \in Seq(Byte) /\ Len(SlotsOf(b, t, n)) = n
         /\ \A k \in 1 .. n : SlotsOf(b, t, n)[k] = b[After(t, k - 1)]
<1>1. \A k \in 1 .. n : b[After(t, k - 1)] \in Byte
  <2> TAKE k \in 1 .. n
  <2>1. k - 1 \in Nat /\ t \in Nat
    BY Sizes DEF Cursor
  <2> QED
    BY <2>1, AfterType
<1> QED
  BY <1>1 DEF SlotsOf

(* A byte stored where the run ends lengthens it.                          *)
LEMMA SlotsGrow ==
  ASSUME NEW b \in [Cursor -> Byte], NEW t \in Cursor, NEW h \in Cursor,
         NEW x \in Byte, Dist(t, h) < Size - 1
  PROVE  SlotsOf([b EXCEPT ![h] = x], t, Dist(t, After(h, 1)))
           = SlotsOf(b, t, Dist(t, h)) \o <<x>>
<1> DEFINE c == [b EXCEPT ![h] = x]
           n == Dist(t, h)
           s == SlotsOf(b, t, n)
           l == SlotsOf(c, t, n + 1)
<1>1. n \in Nat /\ Dist(t, After(h, 1)) = n + 1
  BY DistType, DistHead, Sizes
<1>2. c \in [Cursor -> Byte]
  OBVIOUS
<1>3. s \in Seq(Byte) /\ Len(s) = n /\ \A k \in 1 .. n : s[k] = b[After(t, k - 1)]
  BY <1>1, SlotsType
<1>4. /\ l \in Seq(Byte) /\ Len(l) = n + 1
      /\ \A k \in 1 .. n + 1 : l[k] = c[After(t, k - 1)]
  <2>1. n + 1 \in Nat
    BY <1>1
  <2> QED
    BY <1>2, <2>1, SlotsType
<1>5. \A k \in 1 .. n : l[k] = s[k]
  <2> TAKE k \in 1 .. n
  <2>1. k - 1 \in 0 .. n - 1 /\ k \in 1 .. n + 1
    BY <1>1
  <2>2. After(t, k - 1) \in Cursor /\ After(t, k - 1) # h
    BY <2>1, DistSlots
  <2> QED
    BY <1>3, <1>4, <2>1, <2>2
<1>6. l[n + 1] = x
  <2>1. n + 1 \in 1 .. n + 1 /\ (n + 1) - 1 = n /\ After(t, n) = h
    BY <1>1, DistSlots
  <2> QED
    BY <1>4, <2>1
<1>7. s \o <<x>> \in Seq(Byte) /\ Len(s \o <<x>>) = n + 1
      /\ (\A k \in 1 .. n : (s \o <<x>>)[k] = s[k]) /\ (s \o <<x>>)[n + 1] = x
  <2> HIDE DEF s
  <2> QED
    BY <1>1, <1>3
<1> HIDE DEF s, l, n, c
<1>8. \A k \in 1 .. n + 1 : l[k] = (s \o <<x>>)[k]
  <2> TAKE k \in 1 .. n + 1
  <2>1. k \in 1 .. n \/ k = n + 1
    BY <1>1
  <2> QED
    BY <1>5, <1>6, <1>7, <2>1
<1>9. l = s \o <<x>>
  BY <1>4, <1>7, <1>8, SeqEqual
<1> QED
  BY <1>1, <1>9 DEF s, l, n, c

(* A run is its first slots and the others.                                *)
LEMMA SlotsSplit ==
  ASSUME NEW b \in [Cursor -> Byte], NEW t \in Cursor, NEW h \in Cursor,
         NEW n \in 0 .. Dist(t, h)
  PROVE  SlotsOf(b, t, Dist(t, h))
           = SlotsOf(b, t, n) \o SlotsOf(b, After(t, n), Dist(After(t, n), h))
<1> DEFINE m == Dist(t, h)
           u == After(t, n)
           l == SlotsOf(b, t, m)
           s == SlotsOf(b, t, n)
           r == SlotsOf(b, u, m - n)
<1>1. /\ m \in Nat /\ n \in Nat /\ n <= m /\ m - n \in Nat
      /\ Dist(u, h) = m - n /\ u \in Cursor /\ t \in Nat
      /\ \A i \in 0 .. m - n : After(u, i) = After(t, n + i)
  <2>1. m \in Nat /\ t \in Nat
    BY DistType, Sizes DEF Cursor
  <2>2. n \in Nat /\ n <= m /\ m - n \in Nat
    BY <2>1
  <2>3. u \in Cursor
    BY <2>1, <2>2, AfterType
  <2> QED
    BY <2>1, <2>2, <2>3, DistTail
<1>2. l \in Seq(Byte) /\ Len(l) = m /\ \A k \in 1 .. m : l[k] = b[After(t, k - 1)]
  BY <1>1, SlotsType
<1>3. s \in Seq(Byte) /\ Len(s) = n /\ \A k \in 1 .. n : s[k] = b[After(t, k - 1)]
  BY <1>1, SlotsType
<1>4. /\ r \in Seq(Byte) /\ Len(r) = m - n
      /\ \A k \in 1 .. m - n : r[k] = b[After(u, k - 1)]
  BY <1>1, SlotsType
<1> HIDE DEF l, s, r, u, m
<1>5. /\ s \o r \in Seq(Byte) /\ Len(s \o r) = m
      /\ \A k \in 1 .. n : (s \o r)[k] = s[k]
      /\ \A k \in 1 .. m - n : (s \o r)[n + k] = r[k]
  <2>1. /\ s \o r \in Seq(Byte) /\ Len(s \o r) = n + (m - n)
        /\ \A k \in 1 .. n + (m - n) :
             (s \o r)[k] = IF k <= n THEN s[k] ELSE r[k - n]
    <3>1. s \in Seq(Byte) /\ Len(s) = n /\ r \in Seq(Byte) /\ Len(r) = m - n
      BY <1>3, <1>4
    <3>2. /\ s \o r \in Seq(Byte) /\ Len(s \o r) = Len(s) + Len(r)
          /\ \A k \in 1 .. Len(s) + Len(r) :
               (s \o r)[k] = IF k <= Len(s) THEN s[k] ELSE r[k - Len(s)]
      BY <3>1, ConcatProperties, ZenonT(20)
    <3> QED
      BY <3>1, <3>2
  <2>2. n + (m - n) = m
    BY <1>1
  <2>3. \A k \in 1 .. n : (s \o r)[k] = s[k]
    <3> TAKE k \in 1 .. n
    <3>1. k \in 1 .. n + (m - n) /\ k <= n
      BY <1>1
    <3> QED
      BY <2>1, <3>1
  <2>4. \A k \in 1 .. m - n : (s \o r)[n + k] = r[k]
    <3> TAKE k \in 1 .. m - n
    <3>1. n + k \in 1 .. n + (m - n) /\ ~ (n + k <= n) /\ (n + k) - n = k
      BY <1>1
    <3> QED
      BY <2>1, <3>1
  <2> QED
    BY <2>1, <2>2, <2>3, <2>4
<1>6. \A k \in 1 .. m : l[k] = (s \o r)[k]
  <2> TAKE k \in 1 .. m
  <2>1. CASE k <= n
    <3>1. k \in 1 .. n
      BY <1>1, <2>1
    <3> QED
      BY <1>2, <1>3, <1>5, <3>1
  <2>2. CASE k > n
    <3>1. k - n \in 1 .. m - n /\ n + (k - n) = k /\ (k - n) - 1 \in 0 .. m - n
          /\ n + ((k - n) - 1) = k - 1
      BY <1>1, <2>2
    <3>2. (s \o r)[k] = r[k - n]
      BY <1>5, <3>1
    <3>3. r[k - n] = b[After(t, k - 1)]
      BY <1>1, <1>4, <3>1
    <3> QED
      BY <1>2, <3>2, <3>3
  <2>3. k <= n \/ k > n
    BY <1>1
  <2> QED
    BY <2>1, <2>2, <2>3
<1>7. l = s \o r
  BY <1>2, <1>5, <1>6, SeqEqual
<1> QED
  BY <1>1, <1>7 DEF l, s, r, u, m

(* A producer stores the head it has loaded, and the consumer the tail.    *)
LEMMA SlottedStep == ASSUME Inv, Slotted, [Next]_vars PROVE Slotted'
<1>t. /\ pc \in [Task -> CpuPlace \union ClkPlace \union LpPlace]
      /\ slot \in [Task -> Cursor] /\ head \in Cursor /\ tail \in Cursor
      /\ Task = {"cpu", "clk", "lp"} /\ Count = Dist(tail, head)
      /\ Size \in Nat /\ Size >= 2
  BY Sizes DEF Inv, Types, Places, Ring, Task, Count, Dist
<1>f. ASSUME clean' => clean, UNCHANGED <<head, tail, run>>,
             \A t \in Task : pc'[t] = "publish"
                               => pc[t] = "publish" /\ slot'[t] = slot[t],
             pc'["lp"] = "consume"
               => pc["lp"] = "consume" /\ slot'["lp"] = slot["lp"]
      PROVE  Slotted'
  BY <1>f DEF Slotted, Count
<1>1. CASE GuestWrites
  <2>1. PICK p \in {"enable", "disable", "arm", "push"} : Goto("cpu", p)
    BY <1>1 DEF GuestWrites, WriteLPS, PrintByte
  <2>2. UNCHANGED <<clean, head, tail, run, slot>>
    BY <1>1 DEF GuestWrites, WriteLPS, PrintByte, ring, capture, history
  <2> QED
    BY <1>t, <1>f, <2>1, <2>2 DEF Goto
<1>2. CASE StoreLPS \/ BusWrite \/ ArmNul \/ BeginSession
  <2>1. PICK p \in {"bus", "run"} : Goto("cpu", p)
    BY <1>2 DEF StoreLPS, BusWrite, ArmNul, BeginSession
  <2>2. clean' => clean
    BY <1>2 DEF StoreLPS, BusWrite, ArmNul, BeginSession, Meets, history
  <2>3. UNCHANGED <<head, tail, run, slot>>
    <3>1. CASE StoreLPS \/ BusWrite \/ ArmNul
      BY <1>2, <3>1 DEF StoreLPS, BusWrite, ArmNul, ring, capture
    <3>2. CASE BeginSession
      BY <3>2 DEF BeginSession
    <3> QED
      BY <1>2, <3>1, <3>2
  <2> QED
    BY <1>t, <1>f, <2>1, <2>2, <2>3 DEF Goto
<1>3. CASE \E t \in Task : PushTest(t)
  <2>1. PICK t \in Task : PushTest(t)
    BY <1>3
  <2>2. /\ slot' = [slot EXCEPT ![t] = head] /\ pc[t] = "push"
        /\ pc' = [pc EXCEPT ![t] = IF After(head, 1) = tail THEN "full"
                                   ELSE "publish"]
        /\ UNCHANGED <<clean, head, tail, run>>
    BY <2>1 DEF PushTest, Goto, ring, capture, history
  <2>3. After(head, 1) # tail => Count < Size - 1
    BY <1>t, DistHead, DistType
  <2> QED
    BY <1>t, <2>2, <2>3 DEF Slotted, Count
<1>4. CASE PublishPrint
  <2>1. /\ pc["cpu"] = "publish" /\ head' = After(slot["cpu"], 1)
        /\ pc' = [pc EXCEPT !["cpu"] = "bus"]
        /\ slot' = [slot EXCEPT !["cpu"] = 0]
        /\ clean' = (clean /\ ~PuttingBack) /\ UNCHANGED <<tail, run>>
    BY <1>4 DEF PublishPrint, Publish, Goto, Meets, capture
  <2> SUFFICES ASSUME clean' PROVE Slotted'
    BY DEF Slotted
  <2>2. slot["cpu"] = head /\ Count < Size - 1
    BY <1>t, <2>1 DEF Slotted
  <2>3. Count' = Count + 1
    BY <1>t, <2>1, <2>2, DistHead DEF Count, Dist
  <2>4. pc["clk"] # "publish" /\ pc["lp"] # "publish"
    BY <2>1 DEF Inv, Owed, Stashed, Retrying, Pushing, PuttingBack
  <2>5. Count \in Nat
    BY <1>t, DistType
  <2>6. \A t \in Task : pc'[t] # "publish"
    BY <1>t, <2>1, <2>4
  <2>7. ASSUME pc'["lp"] = "consume"
        PROVE  slot'["lp"] = tail' /\ run' \in 0 .. Count'
    <3>1. pc["lp"] = "consume" /\ slot'["lp"] = slot["lp"]
      BY <1>t, <2>1, <2>7
    <3>2. slot["lp"] = tail /\ run \in 0 .. Count
      BY <2>1, <3>1 DEF Slotted
    <3>3. run \in 0 .. Count + 1
      BY <2>5, <3>2
    <3> QED
      BY <2>1, <2>3, <3>1, <3>2, <3>3
  <2> QED
    BY <2>6, <2>7 DEF Slotted
<1>5. CASE StashFlag \/ StashChar \/ ClearLoad \/ RetryFull \/ RequeueEnds
  <2>1. PICK t \in {"cpu", "clk", "lp"},
             p \in {"stash", "bus", "cleared", "idle", "sleep"} : Goto(t, p)
    BY <1>5 DEF StashFlag, StashChar, ClearLoad, RetryFull, RequeueEnds
  <2>2. \A u \in Task : slot'[u] = slot[u] \/ pc'[u] \notin {"publish", "consume"}
    BY <1>t, <1>5 DEF StashFlag, StashChar, ClearLoad, RetryFull, RequeueEnds,
                      Goto
  <2>3. (clean' => clean) /\ UNCHANGED <<head, tail, run>>
    <3>1. CASE StashFlag \/ StashChar
      BY <3>1 DEF StashFlag, StashChar, ring, capture, history
    <3>2. CASE ClearLoad \/ RetryFull
      BY <3>2 DEF ClearLoad, RetryFull, ring, capture, history
    <3>3. CASE RequeueEnds
      BY <3>3 DEF RequeueEnds, Meets, ring
    <3> QED
      BY <1>5, <3>1, <3>2, <3>3
  <2>4. \A u \in Task : pc'[u] \in {"publish", "consume"} => pc'[u] = pc[u]
    BY <1>t, <2>1 DEF Goto
  <2> QED
    BY <1>t, <1>f, <2>2, <2>3, <2>4
<1>6. CASE ClearStore
  <2>1. /\ tail' = slot["cpu"] /\ pc' = [pc EXCEPT !["cpu"] = "mark"]
        /\ slot' = [slot EXCEPT !["cpu"] = 0] /\ UNCHANGED <<head, run>>
        /\ clean' = (clean /\ head = slot["cpu"] /\ pc["lp"] # "consume")
    BY <1>6 DEF ClearStore, Goto, Meets, capture
  <2> SUFFICES ASSUME clean' PROVE Slotted'
    BY DEF Slotted
  <2>2. Count' = 0
    <3>1. (head + Size - head) % Size = 0
      BY <1>t DEF Cursor
    <3> QED
      BY <2>1, <3>1 DEF Count
  <2>3. \A t \in Task : pc'[t] = "publish" => slot'[t] = head' /\ Count' < Size - 1
    <3> SUFFICES ASSUME NEW t \in Task, pc'[t] = "publish"
                 PROVE  slot'[t] = head' /\ Count' < Size - 1
      OBVIOUS
    <3>1. pc[t] = "publish" /\ slot'[t] = slot[t]
      BY <1>t, <2>1
    <3>2. slot[t] = head
      BY <2>1, <3>1 DEF Slotted
    <3> QED
      BY <1>t, <2>1, <2>2, <3>1, <3>2
  <2>4. pc'["lp"] # "consume"
    BY <1>t, <2>1
  <2> QED
    BY <2>3, <2>4 DEF Slotted
<1>7. CASE Execute \/ AcceptInterrupt \/ OpenNoCard \/ UNCHANGED vars
  BY <1>7, <1>f DEF Execute, AcceptInterrupt, OpenNoCard, vars, ring, capture,
                    history
<1>8. CASE ResetDevice
  BY <1>t, <1>8, <1>f DEF ResetDevice, Goto, Meets, ring, capture
<1>9. CASE \/ TickRetry \/ TickDue \/ CompleteDone \/ CompleteUntil
           \/ CompleteRequest \/ TakeInterrupt \/ QueueInterrupt
  <2>1. PICK p \in {"push", "done", "zero", "request", "idle", "queue"} :
          Goto("clk", p)
    BY <1>9 DEF TickRetry, TickDue, CompleteDone, CompleteUntil,
                CompleteRequest, TakeInterrupt, QueueInterrupt
  <2>2. clean' => clean
    BY <1>9 DEF TickRetry, TickDue, CompleteDone, CompleteUntil,
                CompleteRequest, TakeInterrupt, QueueInterrupt, Meets, history
  <2>3. UNCHANGED <<head, tail, run, slot>>
    BY <1>9 DEF TickRetry, TickDue, CompleteDone, CompleteUntil,
                CompleteRequest, TakeInterrupt, QueueInterrupt, ring, capture
  <2> QED
    BY <1>t, <1>f, <2>1, <2>2, <2>3 DEF Goto
<1>10. CASE PublishRetry
  <2>1. /\ pc["clk"] = "publish" /\ head' = After(slot["clk"], 1)
        /\ pc' = [pc EXCEPT !["clk"] = "idle"]
        /\ slot' = [slot EXCEPT !["clk"] = 0]
        /\ clean' = (clean /\ ~PuttingBack) /\ UNCHANGED <<tail, run>>
    BY <1>10 DEF PublishRetry, Publish, Goto, Meets, capture
  <2> SUFFICES ASSUME clean' PROVE Slotted'
    BY DEF Slotted
  <2>2. slot["clk"] = head /\ Count < Size - 1
    BY <1>t, <2>1 DEF Slotted
  <2>3. Count' = Count + 1
    BY <1>t, <2>1, <2>2, DistHead DEF Count, Dist
  <2>4. pc["cpu"] # "publish" /\ pc["lp"] # "publish"
    BY <2>1 DEF Inv, Owed, Stashed, Retrying, Pushing, PuttingBack
  <2>5. Count \in Nat
    BY <1>t, DistType
  <2>6. \A t \in Task : pc'[t] # "publish"
    BY <1>t, <2>1, <2>4
  <2>7. ASSUME pc'["lp"] = "consume"
        PROVE  slot'["lp"] = tail' /\ run' \in 0 .. Count'
    <3>1. pc["lp"] = "consume" /\ slot'["lp"] = slot["lp"]
      BY <1>t, <2>1, <2>7
    <3>2. slot["lp"] = tail /\ run \in 0 .. Count
      BY <2>1, <3>1 DEF Slotted
    <3>3. run \in 0 .. Count + 1
      BY <2>5, <3>2
    <3> QED
      BY <2>1, <2>3, <3>1, <3>2, <3>3
  <2> QED
    BY <2>6, <2>7 DEF Slotted
<1>11. CASE \/ OpenSessionFile \/ RotateDone \/ NoRotate \/ DrainChunk
            \/ DrainRest \/ DrainNothing \/ WriteChunk \/ WriteFails
  <2>1. PICK p \in {"opened", "drain", "pop", "sleep", "push"} : Goto("lp", p)
    BY <1>11 DEF OpenSessionFile, RotateDone, NoRotate, DrainChunk, DrainRest,
                 DrainNothing, WriteChunk, WriteFails
  <2>2. (clean' => clean) /\ UNCHANGED <<head, tail, run, slot>>
    <3>1. CASE OpenSessionFile
      BY <3>1 DEF OpenSessionFile, ring
    <3>2. CASE RotateDone
      BY <3>2 DEF RotateDone, Meets, ring
    <3>6. CASE NoRotate
      BY <3>6 DEF NoRotate, ring, capture, history
    <3>3. CASE DrainChunk \/ DrainRest \/ DrainNothing
      BY <3>3 DEF DrainChunk, DrainRest, DrainNothing, ring, capture, history
    <3>4. CASE WriteChunk
      BY <3>4 DEF WriteChunk, ring, history
    <3>5. CASE WriteFails
      BY <3>5 DEF WriteFails, Meets, ring
    <3> QED
      BY <1>11, <3>1, <3>2, <3>3, <3>4, <3>5, <3>6
  <2> QED
    BY <1>t, <1>f, <2>1, <2>2 DEF Goto
<1>12. CASE Pop
  <2> DEFINE n == Least(want - Len(chunk), Least(Count, Size - tail))
  <2>1. /\ pc["lp"] = "pop" /\ run' = n /\ UNCHANGED <<head, tail>>
        /\ slot' = [slot EXCEPT !["lp"] = tail] /\ (clean' => clean)
        /\ \E p \in {"consume", "write", "sleep"} : pc' = [pc EXCEPT !["lp"] = p]
    BY <1>12 DEF Pop, Goto, Meets, ring
  <2>2. n \in 0 .. Count
    <3>1. /\ Len(chunk) \in Nat /\ want \in Nat /\ Len(chunk) <= want
          /\ Count \in Nat /\ Size - tail \in Nat
      BY <1>t, <2>1, DistType DEF Inv, Types, Chunks, Cursor
    <3> QED
      BY <3>1 DEF Least
  <2> HIDE DEF n
  <2>3. Count' = Count
    BY <2>1 DEF Count
  <2> QED
    BY <1>t, <2>1, <2>2, <2>3 DEF Slotted
<1>13. CASE Consume
  <2>1. /\ pc["lp"] = "consume" /\ UNCHANGED head
        /\ slot' = [slot EXCEPT !["lp"] = 0] /\ clean' = clean
        /\ \E p \in {"pop", "write"} : pc' = [pc EXCEPT !["lp"] = p]
        /\ \E t \in {tail, slot["lp"]} : tail' = After(t, run)
    BY <1>13 DEF Consume, Goto, history
  <2> SUFFICES ASSUME clean' PROVE Slotted'
    BY DEF Slotted
  <2>2. tail' = After(tail, run) /\ run \in 0 .. Count
    BY <2>1 DEF Slotted
  <2>3. Count' = Count - run /\ Count \in Nat
    BY <1>t, <2>1, <2>2, DistTail, DistType DEF Count, Dist
  <2> QED
    BY <1>t, <2>1, <2>2, <2>3 DEF Slotted
<1>14. CASE Requeue
  <2>1. /\ pc["lp"] = "publish" /\ head' = After(slot["lp"], 1)
        /\ slot' = [slot EXCEPT !["lp"] = 0] /\ UNCHANGED <<tail, run>>
        /\ clean' = (clean /\ opened /\ pc["cpu"] # "publish"
                                     /\ pc["clk"] # "publish")
        /\ \E p \in {"sleep", "push"} : pc' = [pc EXCEPT !["lp"] = p]
    BY <1>14 DEF Requeue, Publish, Goto, Meets
  <2> QED
    BY <1>t, <2>1 DEF Slotted
<1> QED
  BY <1>1, <1>2, <1>3, <1>4, <1>5, <1>6, <1>7, <1>8, <1>9, <1>10, <1>11,
     <1>12, <1>13, <1>14
     DEF Next, Guest, Access, Clock, Consumer, Task

(* Where a character is, as sequences.                                     *)
LEMMA Parts ==
  ASSUME Types, Filed, clean
  PROVE  /\ InFile \in Seq(Byte) /\ InChunk \in Seq(Byte)
         /\ InRing \in Seq(Byte) /\ InStash \in Seq(Byte)
         /\ InHand \in Seq(Byte)
<1>1. InFile \in Seq(Byte) /\ InChunk \in Seq(Byte)
  BY DEF Types, Chunks, Filed, InFile, InChunk
<1>2. From \in Cursor
  <2>1. tail \in Cursor /\ tail \in Nat /\ run \in Nat
    BY Sizes DEF Types, Ring, Chunks, Cursor
  <2> QED
    BY <2>1, AfterType DEF From
<1>3. Dist(From, head) \in Nat
  BY <1>2, DistType DEF Types, Ring
<1>4. InRing = SlotsOf(buf, From, Dist(From, head))
  BY DEF InRing, Slots, SlotsOf, Dist, From
<1>5. InRing \in Seq(Byte)
  BY <1>2, <1>3, <1>4, SlotsType DEF Types, Ring
<1>6. InStash \in Seq(Byte) /\ InHand \in Seq(Byte)
  <2>1. <<stash.char>> \in Seq(Byte) /\ <<char>> \in Seq(Byte)
    BY DEF Types, Registers
  <2> QED
    BY <2>1 DEF InStash, InHand
<1> QED
  BY <1>1, <1>5, <1>6

(* The session's file is picked empty, and what begins a session finds it  *)
(* so, because nothing has been printed in it yet.                         *)
LEMMA FiledStep == ASSUME Inv, Filed, Captured, [Next]_vars PROVE Filed'
<1>t. /\ pc \in [Task -> CpuPlace \union ClkPlace \union LpPlace]
      /\ "cpu" \in Task /\ "clk" \in Task /\ "lp" \in Task
      /\ chunk \in Seq(Byte) /\ Chunks
  BY DEF Inv, Types, Places, Chunks, Task
<1>f. ASSUME clean' => clean,
             UNCHANGED <<opened, current, rotate, chunk, files, printed>>,
             pc'["cpu"] = "mark" => pc["cpu"] = "mark"
      PROVE  Filed'
  BY <1>f DEF Filed
<1>1. CASE GuestWrites
  <2>1. /\ UNCHANGED <<clean, opened, current, rotate, chunk, files>>
        /\ \E p \in {"enable", "disable", "arm", "push"} : Goto("cpu", p)
    BY <1>1 DEF GuestWrites, WriteLPS, PrintByte, capture, history
  <2> QED
    BY <1>t, <2>1 DEF Filed, Goto
<1>2. CASE \/ StoreLPS \/ BusWrite \/ PushTest("cpu") \/ PublishPrint \/ ArmNul
           \/ StashFlag \/ StashChar \/ ClearLoad
  <2>1. \E p \in {"bus", "run", "full", "publish", "stash", "cleared"} :
          Goto("cpu", p)
    BY <1>2 DEF StoreLPS, BusWrite, PushTest, PublishPrint, ArmNul, StashFlag,
                StashChar, ClearLoad
  <2>2. clean' => clean
    BY <1>2 DEF StoreLPS, BusWrite, PushTest, PublishPrint, ArmNul, StashFlag,
                StashChar, ClearLoad, Meets, history
  <2>3. UNCHANGED <<opened, printed>>
    BY <1>2 DEF StoreLPS, BusWrite, PushTest, PublishPrint, ArmNul, StashFlag,
                StashChar, ClearLoad, history
  <2>4. UNCHANGED <<current, rotate, chunk, files>>
    BY <1>2 DEF StoreLPS, BusWrite, PushTest, PublishPrint, ArmNul, StashFlag,
                StashChar, ClearLoad, capture
  <2> QED
    BY <1>t, <1>f, <2>1, <2>2, <2>3, <2>4 DEF Goto
<1>3. CASE ClearStore
  BY <1>3 DEF ClearStore, Filed
<1>4. CASE BeginSession
  <2> SUFFICES ASSUME clean' PROVE Filed'
    BY DEF Filed
  <2>1. /\ clean /\ pc["cpu"] = "mark" /\ pc'["cpu"] = "run" /\ rotate' = TRUE
        /\ UNCHANGED <<opened, current, files, chunk, printed>>
    BY <1>t, <1>4 DEF BeginSession, Goto, history
  <2>2. opened => chunk = <<>>
    BY <2>1 DEF Inv, Stamped
  <2>3. opened => files[current] = <<>>
    <3> DEFINE m == IF PuttingBack THEN InRing \o InChunk ELSE InChunk \o InRing
    <3>1. InFile \o m \o InStash \o InHand = <<>>
      BY <2>1 DEF Captured, Filed
    <3>2. m \in Seq(Byte)
      BY <2>1, Parts DEF Inv
    <3> HIDE DEF m
    <3>3. InFile \in Seq(Byte) /\ InStash \in Seq(Byte) /\ InHand \in Seq(Byte)
      BY <2>1, Parts DEF Inv
    <3>4. InFile \o m \in Seq(Byte) /\ InFile \o m \o InStash \in Seq(Byte)
      BY <3>2, <3>3
    <3>5. InFile \o m \o InStash = <<>>
      BY <3>1, <3>3, <3>4, ConcatEqualIffEmpty
    <3>6. InFile \o m = <<>>
      BY <3>3, <3>4, <3>5, ConcatEqualIffEmpty
    <3>7. InFile = <<>>
      BY <3>2, <3>3, <3>6, ConcatEqualIffEmpty
    <3> QED
      BY <3>7 DEF InFile
  <2> QED
    BY <2>1, <2>2, <2>3 DEF Filed
<1>5. CASE Execute \/ AcceptInterrupt \/ UNCHANGED vars
  BY <1>5, <1>f DEF Execute, AcceptInterrupt, vars, capture, history
<1>6. CASE ResetDevice
  BY <1>t, <1>6, <1>f DEF ResetDevice, Goto, Meets, capture
<1>7. CASE Clock
  <2>1. pc'["cpu"] = pc["cpu"]
    BY <1>t, <1>7
       DEF Clock, TickRetry, PushTest, RetryFull, PublishRetry, TickDue,
           CompleteDone, CompleteUntil, CompleteRequest, TakeInterrupt,
           QueueInterrupt, Goto
  <2>2. clean' => clean
    BY <1>7
       DEF Clock, TickRetry, PushTest, RetryFull, PublishRetry, TickDue,
           CompleteDone, CompleteUntil, CompleteRequest, TakeInterrupt,
           QueueInterrupt, Meets, history
  <2>3. UNCHANGED <<opened, printed>>
    BY <1>7
       DEF Clock, TickRetry, PushTest, RetryFull, PublishRetry, TickDue,
           CompleteDone, CompleteUntil, CompleteRequest, TakeInterrupt,
           QueueInterrupt, history
  <2>4. UNCHANGED <<current, rotate, chunk, files>>
    BY <1>7
       DEF Clock, TickRetry, PushTest, RetryFull, PublishRetry, TickDue,
           CompleteDone, CompleteUntil, CompleteRequest, TakeInterrupt,
           QueueInterrupt, capture
  <2> QED
    BY <1>f, <2>1, <2>2, <2>3, <2>4
<1>8. CASE OpenNoCard
  BY <1>8 DEF OpenNoCard, Filed
<1>9. CASE OpenSessionFile
  <2>1. /\ pc["lp"] = "sleep" /\ pc'["cpu"] = pc["cpu"] /\ current' = Picked
        /\ files' = (IF Picked > Len(files) THEN Append(files, <<>>) ELSE files)
        /\ UNCHANGED <<clean, chunk, printed>>
    BY <1>t, <1>9 DEF OpenSessionFile, Goto
  <2>2. chunk = <<>>
    BY <1>t, <2>1 DEF Chunks
  <2>3. files'[current'] = <<>> /\ current' # 0
    BY <1>t, <2>1, PickedEmpty DEF Chunks
  <2> QED
    BY <2>1, <2>2, <2>3 DEF Filed
<1>10. CASE RotateDone
  BY <1>t, <1>10 DEF RotateDone, Goto, Meets, Filed
<1>11. CASE NoRotate
  BY <1>t, <1>11, <1>f DEF NoRotate, Goto, capture, history
<1>12. CASE DrainChunk \/ DrainRest \/ DrainNothing
  BY <1>t, <1>12, <1>f DEF DrainChunk, DrainRest, DrainNothing, Goto, capture,
                           history
<1>13. CASE Pop
  <2> DEFINE n == Least(want - Len(chunk), Least(Count, Size - tail))
  <2>1. /\ chunk' = chunk \o Slots(tail, n) /\ pc["lp"] = "pop"
        /\ clean' = (clean /\ (n = 0 \/ (opened /\ ~rotate)))
        /\ pc'["cpu"] = pc["cpu"]
        /\ UNCHANGED <<opened, current, rotate, files, printed>>
    <3>1. pc'["cpu"] = pc["cpu"]
      BY <1>t, <1>13 DEF Pop, Goto
    <3> QED
      BY <1>13, <3>1 DEF Pop, Meets
  <2>2. n = 0 => chunk' = chunk
    <3>1. n = 0 => Slots(tail, n) \in Seq(Byte) /\ Len(Slots(tail, n)) = 0
      BY Few DEF Inv, Types
    <3> HIDE DEF n
    <3> QED
      BY <1>t, <2>1, <3>1
  <2> HIDE DEF n
  <2> QED
    BY <2>1, <2>2 DEF Filed
<1>14. CASE Consume
  <2>1. pc'["cpu"] = pc["cpu"]
    BY <1>t, <1>14 DEF Consume, Goto
  <2> QED
    BY <1>f, <1>14, <2>1 DEF Consume, history
<1>15. CASE PushTest("lp")
  BY <1>t, <1>15, <1>f DEF PushTest, Goto, capture, history
<1>16. CASE WriteChunk \/ WriteFails \/ Requeue
  <2>1. chunk # <<>>
    BY <1>t, <1>16 DEF WriteChunk, WriteFails, Requeue, Publish, Chunks
  <2>2. clean' => clean
    BY <1>16 DEF WriteChunk, WriteFails, Requeue, Meets, history
  <2>3. UNCHANGED <<opened, current, rotate, printed>>
    BY <1>16 DEF WriteChunk, WriteFails, Requeue, history
  <2>4. pc'["cpu"] = pc["cpu"]
    BY <1>t, <1>16 DEF WriteChunk, WriteFails, Requeue, Goto
  <2> QED
    BY <2>1, <2>2, <2>3, <2>4 DEF Filed
<1>17. CASE RequeueEnds
  BY <1>17 DEF RequeueEnds, Meets, Filed
<1> QED
  BY <1>1, <1>2, <1>3, <1>4, <1>5, <1>6, <1>7, <1>8, <1>9, <1>10, <1>11,
     <1>12, <1>13, <1>14, <1>15, <1>16, <1>17
     DEF Next, Guest, Access, Consumer

(* A byte published is the last of the ring.                               *)
LEMMA RingAppends ==
  ASSUME Types, clean, Slotted, NEW t \in Task, NEW b \in Byte, Publish(t, b),
         UNCHANGED run, pc'["lp"] = "consume" <=> pc["lp"] = "consume"
  PROVE  InRing' = InRing \o <<b>>
<1>1. /\ buf' = [buf EXCEPT ![head] = b] /\ head' = After(head, 1)
      /\ tail' = tail /\ run' = run /\ Count < Size - 1
  BY DEF Publish, Slotted
<1>2. From' = From
  BY <1>1 DEF From
<1>3. From \in Cursor /\ Dist(From, head) < Size - 1
  <2>1. tail \in Cursor /\ head \in Cursor /\ tail \in Nat /\ run \in Nat
    BY Sizes DEF Types, Ring, Chunks, Cursor
  <2>2. Count = Dist(tail, head)
    BY DEF Count, Dist
  <2>3. CASE pc["lp"] = "consume"
    <3>1. run \in 0 .. Dist(tail, head) /\ From = After(tail, run)
      BY <2>2, <2>3 DEF Slotted, From
    <3>2. Dist(From, head) = Count - run /\ Count \in Nat
      BY <2>1, <2>2, <3>1, DistTail, DistType
    <3>3. From \in Cursor
      BY <2>1, <3>1, AfterType
    <3> QED
      BY <1>1, <2>1, <3>2, <3>3, Sizes
  <2>4. CASE pc["lp"] # "consume"
    BY <1>1, <2>1, <2>2, <2>4 DEF From
  <2> QED
    BY <2>3, <2>4
<1>4. /\ InRing = SlotsOf(buf, From, Dist(From, head))
      /\ InRing' = SlotsOf(buf', From', Dist(From', head'))
  BY DEF InRing, Slots, SlotsOf, Dist, From
<1>5. SlotsOf([buf EXCEPT ![head] = b], From, Dist(From, After(head, 1)))
        = SlotsOf(buf, From, Dist(From, head)) \o <<b>>
  BY <1>3, SlotsGrow DEF Types, Ring
<1> QED
  BY <1>1, <1>2, <1>4, <1>5

LEMMA Later ==
  ASSUME NEW a \in Seq(Byte), NEW k \in Seq(Byte), NEW r \in Seq(Byte),
         NEW x \in Byte
  PROVE  a \o (k \o (r \o <<x>>)) = a \o (k \o r) \o <<x>>
<1>1. <<x>> \in Seq(Byte) /\ k \o r \in Seq(Byte)
  OBVIOUS
<1>2. k \o (r \o <<x>>) = k \o r \o <<x>>
  BY <1>1, ConcatAssociative
<1>3. a \o (k \o r \o <<x>>) = a \o (k \o r) \o <<x>>
  BY <1>1, ConcatAssociative
<1> QED
  BY <1>2, <1>3

LEMMA HeadRest ==
  ASSUME NEW s \in Seq(Byte), s # <<>>
  PROVE  /\ Head(s) \in Byte /\ Tail(s) \in Seq(Byte)
         /\ s = <<Head(s)>> \o Tail(s)
         /\ (Len(s) = 1 => Tail(s) = <<>>)
<1>1. /\ Head(s) \in Byte /\ Tail(s) \in Seq(Byte) /\ Len(Tail(s)) = Len(s) - 1
      /\ <<Head(s)>> \in Seq(Byte) /\ Len(s) \in Nat /\ Len(s) >= 1
  OBVIOUS
<1>2. s = <<Head(s)>> \o Tail(s)
  <2>1. <<Head(s)>> \o Tail(s) \in Seq(Byte)
        /\ Len(<<Head(s)>> \o Tail(s)) = Len(s)
    BY <1>1
  <2>2. \A i \in 1 .. Len(s) : s[i] = (<<Head(s)>> \o Tail(s))[i]
    BY <1>1
  <2> QED
    BY <2>1, <2>2, SeqEqual
<1>3. Len(s) = 1 => Tail(s) = <<>>
  <2>1. \A q \in Seq(Byte) : q = <<>> <=> Len(q) = 0
    OBVIOUS
  <2>2. Tail(s) = <<>> <=> Len(Tail(s)) = 0
    BY <1>1, <2>1
  <2> QED
    BY <1>1, <2>2
<1> QED
  BY <1>1, <1>2, <1>3

(* What the other two leave alone.                                         *)
LEMMA FrontSame ==
  ASSUME UNCHANGED <<head, tail, buf, current, files, chunk, run, opened>>,
         pc'["lp"] = pc["lp"]
  PROVE  UNCHANGED <<InFile, InChunk, InRing, PuttingBack>>
BY DEF InFile, InChunk, InRing, Slots, PuttingBack

LEMMA BackSame ==
  ASSUME Types, Consumer
  PROVE  UNCHANGED <<InStash, InHand, printed>>
<1>t. /\ pc \in [Task -> CpuPlace \union ClkPlace \union LpPlace]
      /\ "cpu" \in Task /\ "lp" \in Task
  BY DEF Types, Places, Task
<1>1. UNCHANGED stash /\ pc'["cpu"] = pc["cpu"]
  BY ConsumerApart
<1>2. UNCHANGED <<char, printed>>
  <2>1. CASE \/ OpenNoCard \/ OpenSessionFile \/ RotateDone \/ NoRotate
             \/ DrainChunk \/ DrainRest \/ DrainNothing
    BY <2>1 DEF OpenNoCard, OpenSessionFile, RotateDone, NoRotate, DrainChunk,
                DrainRest, DrainNothing, device, history
  <2>2. CASE Pop
    BY <2>2 DEF Pop, device
  <2>3. CASE Consume \/ PushTest("lp")
    BY <2>3 DEF Consume, PushTest, device, history
  <2>4. CASE WriteChunk \/ WriteFails
    BY <2>4 DEF WriteChunk, WriteFails, device, history
  <2>5. CASE Requeue \/ RequeueEnds
    BY <2>5 DEF Requeue, RequeueEnds, device
  <2> QED
    BY <2>1, <2>2, <2>3, <2>4, <2>5 DEF Consumer
<1> QED
  BY <1>1, <1>2 DEF InStash, InHand

Held == IF PuttingBack THEN InRing \o InChunk ELSE InChunk \o InRing

LEMMA Empty == ASSUME NEW s \in Seq(Byte) PROVE s \o <<>> = s /\ <<>> \o s = s
BY ConcatEmptySeq

(* The guest, the tick and the reset.                                      *)
LEMMA GuestCaptured ==
  ASSUME Inv, Inv', Slotted, Filed, Filed', Captured, Guest \/ Clock
  PROVE  Captured'
<1> SUFFICES ASSUME clean', pc'["cpu"] \notin {"clear", "cleared"}
             PROVE  InFile' \o Held' \o InStash' \o InHand' = printed'
  BY DEF Captured, Held
<1>t. /\ pc \in [Task -> CpuPlace \union ClkPlace \union LpPlace]
      /\ "cpu" \in Task /\ "clk" \in Task /\ "lp" \in Task
      /\ stash \in [full : BOOLEAN, char : Byte] /\ Types /\ <<>> \in Seq(Byte)
      /\ char \in Byte
  BY DEF Inv, Types, Places, Registers, Task
<1>a. clean => /\ InFile \in Seq(Byte) /\ InChunk \in Seq(Byte)
               /\ InRing \in Seq(Byte) /\ InStash \in Seq(Byte)
               /\ InHand \in Seq(Byte) /\ Held \in Seq(Byte)
               /\ InFile \o Held \in Seq(Byte)
               /\ InFile \o Held \o InStash \in Seq(Byte)
  BY <1>t, Parts DEF Held
<1>b. clean /\ pc["cpu"] \notin {"clear", "cleared"}
        => InFile \o Held \o InStash \o InHand = printed
  BY DEF Captured, Held
<1>f. ASSUME clean, pc["cpu"] \notin {"clear", "cleared"},
             UNCHANGED <<InFile, InChunk, InRing, PuttingBack, printed>>,
             InStash \o InHand = InStash' \o InHand',
             InStash' \in Seq(Byte), InHand' \in Seq(Byte)
      PROVE  InFile' \o Held' \o InStash' \o InHand' = printed'
  <2>1. Held' = Held
    BY <1>f DEF Held
  <2>4. \A m, s, h \in Seq(Byte) : m \o s \o h = m \o (s \o h)
    BY ConcatAssociative
  <2>5. InFile \o Held \in Seq(Byte) /\ InStash \in Seq(Byte)
        /\ InHand \in Seq(Byte)
    BY <1>a, <1>f
  <2>2. InFile \o Held \o InStash \o InHand = InFile \o Held \o (InStash \o InHand)
    BY <2>4, <2>5
  <2>3. InFile \o Held \o InStash' \o InHand' = InFile \o Held \o (InStash' \o InHand')
    BY <1>f, <2>4, <2>5
  <2> QED
    BY <1>b, <1>f, <2>1, <2>2, <2>3
<1>1. CASE \E ie \in BOOLEAN : WriteLPS(ie)
  <2>1. /\ pc["cpu"] = "run" /\ pc'["cpu"] \in {"enable", "disable"}
        /\ pc'["lp"] = pc["lp"] /\ UNCHANGED <<stash, char, clean, printed, opened>>
        /\ UNCHANGED <<head, tail, buf, current, files, chunk, run>>
    BY <1>t, <1>1 DEF WriteLPS, Running, Goto, device, ring, capture, history
  <2>2. UNCHANGED <<InStash, InHand>>
    BY <2>1 DEF InStash, InHand
  <2> QED
    BY <1>a, <1>f, <2>1, <2>2, FrontSame
<1>2. CASE \E c \in {Nul, total + 1} : total < MaxPrints /\ PrintByte(c)
  <2>1. PICK c \in {Nul, total + 1} : total < MaxPrints /\ PrintByte(c)
    BY <1>2
  <2>2. c \in Byte
    BY <2>1, Sizes DEF Inv, Types, Sessions, Byte, Text
  <2>3. /\ pc["cpu"] = "run" /\ pc'["cpu"] = (IF c = Nul THEN "arm" ELSE "push")
        /\ pc'["lp"] = pc["lp"] /\ UNCHANGED <<stash, clean, opened>>
        /\ char' = c /\ printed' = (IF c = Nul THEN printed ELSE Append(printed, c))
        /\ UNCHANGED <<head, tail, buf, current, files, chunk, run>>
    BY <1>t, <2>1 DEF PrintByte, Running, Goto, ring, capture
  <2>4. InStash' = InStash /\ InHand = <<>>
        /\ InHand' = (IF c = Nul THEN <<>> ELSE <<c>>)
    BY <2>3 DEF InStash, InHand
  <2>5. UNCHANGED <<InFile, InChunk, InRing, PuttingBack, Held>>
    BY <2>3, FrontSame DEF Held
  <2>6. InFile \o Held \o InStash = printed
    BY <1>a, <1>b, <2>3, <2>4, Empty
  <2>7. CASE c = Nul
    BY <1>a, <2>3, <2>4, <2>5, <2>6, <2>7, Empty
  <2>8. CASE c # Nul
    <3>1. Append(printed, c) = printed \o <<c>>
      BY <1>a, <2>2, <2>3, <2>6, AppendIsConcat
    <3> QED
      BY <2>3, <2>4, <2>5, <2>6, <2>8, <3>1
  <2> QED
    BY <2>7, <2>8
<1>3. CASE \/ StoreLPS \/ BusWrite \/ ArmNul \/ PushTest("cpu")
  <2>1. /\ pc["cpu"] \in {"enable", "disable", "bus", "arm", "push"}
        /\ pc'["cpu"] \in {"bus", "run", "full", "publish"}
        /\ (pc["cpu"] = "push" <=> pc'["cpu"] \in {"full", "publish"})
        /\ pc'["lp"] = pc["lp"]
    BY <1>t, <1>3 DEF StoreLPS, BusWrite, ArmNul, PushTest, Goto
  <2>2. UNCHANGED <<stash, char, printed, opened>> /\ clean
    BY <1>3 DEF StoreLPS, BusWrite, ArmNul, PushTest, Meets, device, history
  <2>3. UNCHANGED <<head, tail, buf, current, files, chunk, run>>
    BY <1>3 DEF StoreLPS, BusWrite, ArmNul, PushTest, ring, capture
  <2>4. UNCHANGED <<InStash, InHand>>
    BY <2>1, <2>2 DEF InStash, InHand
  <2> QED
    BY <1>a, <1>f, <2>1, <2>2, <2>3, <2>4, FrontSame
<1>4. CASE PublishPrint
  <2>1. /\ pc["cpu"] = "publish" /\ pc'["cpu"] = "bus" /\ pc'["lp"] = pc["lp"]
        /\ Publish("cpu", char) /\ clean /\ ~PuttingBack /\ ~PuttingBack'
        /\ UNCHANGED <<stash, printed, opened, current, files, chunk, run>>
    <3>1. Publish("cpu", char) /\ pc["cpu"] = "publish"
      BY <1>4 DEF PublishPrint, Publish
    <3>2. pc' = [pc EXCEPT !["cpu"] = "bus"] /\ clean /\ ~PuttingBack
      BY <1>4 DEF PublishPrint, Goto, Meets
    <3>3. UNCHANGED <<stash, printed, opened, current, files, chunk, run>>
      BY <1>4 DEF PublishPrint, capture
    <3>4. pc'["cpu"] = "bus" /\ pc'["lp"] = pc["lp"]
      BY <1>t, <3>2
    <3> QED
      BY <3>1, <3>2, <3>3, <3>4 DEF PuttingBack
  <2>2. ~stash.full
    BY <2>1 DEF Inv, Stashed, Pushing
  <2>3. /\ InStash = <<>> /\ InStash' = <<>> /\ InHand = <<char>>
        /\ InHand' = <<>>
    BY <2>1, <2>2 DEF InStash, InHand
  <2>4. InRing' = InRing \o <<char>>
    BY <1>t, <2>1, RingAppends
  <2>5. InFile' = InFile /\ InChunk' = InChunk
    BY <2>1 DEF InFile, InChunk
  <2>6. InFile' \o Held' = InFile \o Held \o <<char>>
    <3>1. /\ InFile \in Seq(Byte) /\ InChunk \in Seq(Byte)
          /\ InRing \in Seq(Byte)
      BY <1>a, <2>1
    <3>2. Held = InChunk \o InRing /\ Held' = InChunk' \o InRing'
      BY <2>1 DEF Held
    <3>3. char \in Byte
      BY <1>t
    <3>4. InFile \o (InChunk \o (InRing \o <<char>>))
            = InFile \o (InChunk \o InRing) \o <<char>>
      BY <3>1, <3>3, Later
    <3> QED
      BY <2>4, <2>5, <3>2, <3>4
  <2>7. InFile \o Held \o <<char>> \in Seq(Byte)
    BY <1>a, <1>t, <2>1
  <2> QED
    BY <1>a, <1>b, <2>1, <2>3, <2>6, <2>7, Empty
<1>5. CASE StashFlag
  <2>1. /\ pc["cpu"] = "full" /\ pc'["cpu"] = "stash" /\ pc'["lp"] = pc["lp"]
        /\ UNCHANGED <<char, clean, printed, opened>>
        /\ UNCHANGED <<head, tail, buf, current, files, chunk, run>>
    BY <1>t, <1>5 DEF StashFlag, Goto, ring, capture, history
  <2>2. ~stash.full
    BY <2>1 DEF Inv, Stashed, Pushing
  <2>3. UNCHANGED <<InStash, InHand>>
    BY <2>1, <2>2 DEF InStash, InHand
  <2> QED
    BY <1>a, <1>f, <2>1, <2>3, FrontSame
<1>6. CASE StashChar
  <2>1. /\ pc["cpu"] = "stash" /\ pc'["cpu"] = "bus" /\ pc'["lp"] = pc["lp"]
        /\ stash' = [stash EXCEPT !.char = char]
        /\ UNCHANGED <<clean, printed, opened>>
        /\ UNCHANGED <<head, tail, buf, current, files, chunk, run>>
    BY <1>t, <1>6 DEF StashChar, Goto, ring, capture, history
  <2>2. stash.full
    BY <2>1 DEF Inv, Stashed
  <2>3. stash'.full /\ stash'.char = char
    BY <1>t, <2>1, <2>2
  <2>4. /\ InStash = <<>> /\ InHand = <<char>> /\ InStash' = <<char>>
        /\ InHand' = <<>> /\ <<char>> \in Seq(Byte)
    BY <1>t, <2>1, <2>3 DEF InStash, InHand
  <2>5. InStash \o InHand = InStash' \o InHand'
    BY <2>4, Empty
  <2> QED
    BY <1>f, <1>t, <2>1, <2>4, <2>5, FrontSame
<1>7. CASE ResetDevice \/ ClearLoad
  BY <1>t, <1>7 DEF ResetDevice, ClearLoad, Goto
<1>8. CASE ClearStore
  <2>1. /\ tail' = slot["cpu"] /\ head = slot["cpu"] /\ pc["lp"] # "consume"
        /\ pc["cpu"] = "cleared" /\ clean /\ pc'["lp"] = pc["lp"]
        /\ pc'["cpu"] = "mark" /\ opened' = FALSE /\ printed' = <<>>
        /\ UNCHANGED <<stash, head>>
    BY <1>t, <1>8 DEF ClearStore, Goto, Meets, device
  <2>2. ~stash.full
    BY <2>1 DEF Inv, Stamped
  <2>3. InFile' = <<>> /\ InChunk' = <<>> /\ InStash' = <<>> /\ InHand' = <<>>
    BY <2>1, <2>2 DEF InFile, InChunk, InStash, InHand
  <2>4. InRing' = <<>>
    <3>1. (head + Size - head) % Size = 0
      BY Sizes DEF Inv, Types, Ring, Cursor
    <3>2. InRing' = [k \in 1 .. 0 |-> buf'[After(tail', k - 1)]]
      BY <2>1, <3>1 DEF InRing, Slots
    <3> QED
      BY <3>2
  <2>5. Held' = <<>>
    BY <1>t, <2>3, <2>4, Empty DEF Held
  <2> QED
    BY <1>t, <2>1, <2>3, <2>5, Empty
<1>9. CASE BeginSession
  <2>1. /\ pc["cpu"] = "mark" /\ pc'["cpu"] = "run" /\ pc'["lp"] = pc["lp"]
        /\ UNCHANGED <<stash, char, clean, printed, opened>>
        /\ UNCHANGED <<head, tail, buf, current, files, chunk, run>>
    BY <1>t, <1>9 DEF BeginSession, Goto, device, history
  <2>2. UNCHANGED <<InStash, InHand>>
    BY <2>1 DEF InStash, InHand
  <2> QED
    BY <1>a, <1>f, <2>1, <2>2, FrontSame
<1>10. CASE Execute \/ AcceptInterrupt
  <2>1. /\ UNCHANGED <<pc, stash, char, clean, printed, opened>>
        /\ UNCHANGED <<head, tail, buf, current, files, chunk, run>>
    BY <1>10 DEF Execute, AcceptInterrupt, ring, capture, history
  <2>2. UNCHANGED <<InStash, InHand>>
    BY <2>1 DEF InStash, InHand
  <2> QED
    BY <1>a, <1>f, <2>1, <2>2, FrontSame
<1>11. CASE \/ TickRetry \/ PushTest("clk") \/ RetryFull \/ TickDue
            \/ CompleteDone \/ CompleteUntil \/ CompleteRequest
            \/ TakeInterrupt \/ QueueInterrupt
  <2>1. pc'["lp"] = pc["lp"] /\ pc'["cpu"] = pc["cpu"]
    BY <1>t, <1>11 DEF TickRetry, PushTest, RetryFull, TickDue, CompleteDone,
           CompleteUntil, CompleteRequest, TakeInterrupt, QueueInterrupt, Goto
  <2>2. UNCHANGED <<stash, char, printed, opened>>
    BY <1>11 DEF TickRetry, PushTest, RetryFull, TickDue, CompleteDone,
           CompleteUntil, CompleteRequest, TakeInterrupt, QueueInterrupt,
           device, history
  <2>3. clean
    BY <1>11 DEF TickRetry, PushTest, RetryFull, TickDue, CompleteDone,
           CompleteUntil, CompleteRequest, TakeInterrupt, QueueInterrupt,
           Meets, history
  <2>4. UNCHANGED <<head, tail, buf, current, files, chunk, run>>
    BY <1>11 DEF TickRetry, PushTest, RetryFull, TickDue, CompleteDone,
           CompleteUntil, CompleteRequest, TakeInterrupt, QueueInterrupt,
           ring, capture
  <2>5. UNCHANGED <<InStash, InHand>>
    BY <2>1, <2>2 DEF InStash, InHand
  <2> QED
    BY <1>a, <1>f, <2>1, <2>2, <2>3, <2>4, <2>5, FrontSame
<1>12. CASE PublishRetry
  <2>1. /\ pc["clk"] = "publish" /\ pc'["cpu"] = pc["cpu"] /\ pc'["lp"] = pc["lp"]
        /\ Publish("clk", stash.char) /\ clean /\ ~PuttingBack /\ ~PuttingBack'
        /\ stash' = [stash EXCEPT !.full = FALSE]
        /\ UNCHANGED <<printed, opened, current, files, chunk, run, char>>
    <3>1. Publish("clk", stash.char) /\ pc["clk"] = "publish"
      BY <1>12 DEF PublishRetry, Publish
    <3>2. /\ pc' = [pc EXCEPT !["clk"] = "idle"] /\ clean /\ ~PuttingBack
          /\ stash' = [stash EXCEPT !.full = FALSE]
      BY <1>12 DEF PublishRetry, Goto, Meets
    <3>3. UNCHANGED <<printed, opened, current, files, chunk, run, char>>
      BY <1>12 DEF PublishRetry, capture
    <3>4. pc'["cpu"] = pc["cpu"] /\ pc'["lp"] = pc["lp"]
      BY <1>t, <3>2
    <3> QED
      BY <3>1, <3>2, <3>3, <3>4 DEF PuttingBack
  <2>2. stash.full /\ pc["cpu"] \notin {"push", "publish", "full", "stash"}
    BY <2>1 DEF Inv, Stashed, Pushing, Retrying
  <2>3. /\ InStash = <<stash.char>> /\ InStash' = <<>> /\ InHand = <<>>
        /\ InHand' = <<>> /\ stash.char \in Byte
    BY <1>t, <2>1, <2>2 DEF InStash, InHand
  <2>4. InRing' = InRing \o <<stash.char>>
    BY <1>t, <2>1, <2>3, RingAppends
  <2>5. InFile' = InFile /\ InChunk' = InChunk
    BY <2>1 DEF InFile, InChunk
  <2>6. InFile' \o Held' = InFile \o Held \o <<stash.char>>
    <3>1. /\ InFile \in Seq(Byte) /\ InChunk \in Seq(Byte)
          /\ InRing \in Seq(Byte)
      BY <1>a, <2>1
    <3>2. Held = InChunk \o InRing /\ Held' = InChunk' \o InRing'
      BY <2>1 DEF Held
    <3>3. stash.char \in Byte
      BY <2>3
    <3>4. InFile \o (InChunk \o (InRing \o <<stash.char>>))
            = InFile \o (InChunk \o InRing) \o <<stash.char>>
      BY <3>1, <3>3, Later
    <3> QED
      BY <2>4, <2>5, <3>2, <3>4
  <2>7. InFile \o Held \o <<stash.char>> \in Seq(Byte)
    BY <1>a, <2>1, <2>3
  <2>8. pc["cpu"] \notin {"clear", "cleared"}
    BY <2>1
  <2> QED
    BY <1>b, <2>1, <2>3, <2>6, <2>7, <2>8, Empty
<1> QED
  BY <1>1, <1>2, <1>3, <1>4, <1>5, <1>6, <1>7, <1>8, <1>9, <1>10, <1>11,
     <1>12 DEF Guest, GuestWrites, Access, Clock

(* The consumer moves characters between the ring, its chunk and the file. *)
LEMMA ConsumerCaptured ==
  ASSUME Inv, Inv', Slotted, Filed, Filed', Captured, Consumer
  PROVE  Captured'
<1>t. /\ pc \in [Task -> CpuPlace \union ClkPlace \union LpPlace]
      /\ "cpu" \in Task /\ "clk" \in Task /\ "lp" \in Task
      /\ chunk \in Seq(Byte) /\ files \in Seq(Seq(Byte))
      /\ Types /\ Chunks /\ <<>> \in Seq(Byte)
  BY DEF Inv, Types, Places, Chunks, Task
<1>0. /\ UNCHANGED <<InStash, InHand, printed>> /\ (clean' => clean)
      /\ pc'["cpu"] = pc["cpu"]
  BY <1>t, BackSame, ConsumerApart
<1> SUFFICES ASSUME clean' PROVE InFile' \o Held' = InFile \o Held
  BY <1>0 DEF Captured, Held
<1>a. /\ InFile \in Seq(Byte) /\ InChunk \in Seq(Byte) /\ InRing \in Seq(Byte)
      /\ (opened => InFile = files[current] /\ InChunk = chunk)
      /\ (~opened => InFile = <<>> /\ InChunk = <<>>)
  BY <1>0, <1>t, Parts DEF InFile, InChunk
<1>r. /\ InRing = SlotsOf(buf, From, Dist(From, head))
      /\ InRing' = SlotsOf(buf', From', Dist(From', head'))
  BY DEF InRing, Slots, SlotsOf, Dist, From
<1>w. ASSUME ~PuttingBack, ~PuttingBack' PROVE /\ Held = InChunk \o InRing
                                               /\ Held' = InChunk' \o InRing'
  BY <1>w DEF Held
<1>1. CASE OpenNoCard
  <2>1. /\ pc["lp"] = "sleep" /\ pc' = pc /\ rotate /\ opened' = FALSE
        /\ UNCHANGED <<head, tail, buf, chunk, run>>
    BY <1>1 DEF OpenNoCard, ring
  <2>2. chunk = <<>> /\ (opened => files[current] = <<>>)
    BY <1>0, <1>t, <2>1 DEF Chunks, Filed
  <2>3. InFile = <<>> /\ InFile' = <<>> /\ InChunk' = InChunk
    BY <2>1, <2>2 DEF InFile, InChunk
  <2>4. InRing' = InRing /\ PuttingBack' = PuttingBack
    BY <2>1 DEF InRing, Slots, PuttingBack
  <2> QED
    BY <2>3, <2>4 DEF Held
<1>2. CASE OpenSessionFile
  <2>1. /\ pc["lp"] = "sleep" /\ pc'["lp"] = "opened" /\ rotate /\ opened' = TRUE
        /\ UNCHANGED <<head, tail, buf, chunk, run>> /\ current' = Picked
        /\ files' = (IF Picked > Len(files) THEN Append(files, <<>>) ELSE files)
    BY <1>t, <1>2 DEF OpenSessionFile, Goto, ring
  <2>2. chunk = <<>> /\ (opened => files[current] = <<>>)
    BY <1>0, <1>t, <2>1 DEF Chunks, Filed
  <2>3. files'[current'] = <<>>
    BY <1>t, <2>1, PickedEmpty
  <2>4. InFile = <<>> /\ InFile' = <<>> /\ InChunk' = InChunk
    BY <2>1, <2>2, <2>3 DEF InFile, InChunk
  <2>5. InRing' = InRing /\ ~PuttingBack' /\ ~PuttingBack
    BY <2>1 DEF InRing, Slots, PuttingBack
  <2> QED
    BY <1>w, <2>4, <2>5
<1>3. CASE \/ RotateDone \/ NoRotate \/ DrainChunk \/ DrainRest \/ DrainNothing
           \/ PushTest("lp")
  <2>1. /\ pc["lp"] # "consume" /\ pc'["lp"] # "consume"
        /\ PuttingBack' = PuttingBack
    BY <1>t, <1>3 DEF RotateDone, NoRotate, DrainChunk, DrainRest,
                      DrainNothing, PushTest, Goto, PuttingBack
  <2>2. UNCHANGED <<head, tail, buf>>
    BY <1>3 DEF RotateDone, NoRotate, DrainChunk, DrainRest, DrainNothing,
                PushTest, ring
  <2>3. UNCHANGED <<files, current, chunk>>
    BY <1>3 DEF RotateDone, NoRotate, DrainChunk, DrainRest, DrainNothing,
                PushTest, capture
  <2>4. UNCHANGED opened
    BY <1>3 DEF RotateDone, NoRotate, DrainChunk, DrainRest, DrainNothing,
                PushTest, history
  <2>5. UNCHANGED <<InFile, InChunk, InRing>>
    BY <2>1, <2>2, <2>3, <2>4 DEF InFile, InChunk, InRing, Slots
  <2> QED
    BY <2>1, <2>5 DEF Held
<1>4. CASE Pop
  <2> DEFINE n == Least(want - Len(chunk), Least(Count, Size - tail))
  <2>1. /\ pc["lp"] = "pop" /\ chunk' = chunk \o Slots(tail, n) /\ run' = n
        /\ clean' = (clean /\ (n = 0 \/ (opened /\ ~rotate)))
        /\ UNCHANGED <<head, tail, buf, files, current, opened>>
        /\ pc' = [pc EXCEPT !["lp"] = IF n > 0 THEN "consume"
                                      ELSE IF chunk # <<>> THEN "write"
                                      ELSE "sleep"]
    BY <1>4 DEF Pop, Meets, Goto, ring
  <2>2. n \in 0 .. Count /\ Count = Dist(tail, head) /\ Count \in Nat
        /\ tail \in Cursor /\ head \in Cursor
    <3>1. /\ Len(chunk) \in Nat /\ want \in Nat /\ Len(chunk) <= want
          /\ tail \in Cursor /\ head \in Cursor
      BY <1>t, <2>1 DEF Types, Ring, Chunks
    <3>2. Count = Dist(tail, head) /\ Count \in Nat /\ Size - tail \in Nat
      BY <3>1, DistType, Sizes DEF Count, Dist, Cursor
    <3> QED
      BY <3>1, <3>2 DEF Least
  <2> HIDE DEF n
  <2>3. pc'["lp"] = IF n > 0 THEN "consume"
                    ELSE IF chunk # <<>> THEN "write" ELSE "sleep"
    BY <1>t, <2>1
  <2>4. ~PuttingBack /\ ~PuttingBack' /\ From = tail /\ InFile' = InFile
    BY <2>1, <2>3 DEF PuttingBack, From, InFile
  <2>5. Slots(tail, n) = SlotsOf(buf, tail, n)
    BY DEF Slots, SlotsOf
  <2>6. SlotsOf(buf, tail, n) \in Seq(Byte) /\ Len(SlotsOf(buf, tail, n)) = n
    BY <1>t, <2>2, SlotsType DEF Types, Ring
  <2>7. CASE n = 0
    <3>1. chunk' = chunk
      BY <1>t, <2>1, <2>5, <2>6, <2>7
    <3>2. From' = tail
      BY <2>1, <2>3, <2>7 DEF From
    <3>3. InRing' = InRing /\ InChunk' = InChunk
      BY <1>r, <2>1, <2>4, <3>1, <3>2 DEF InChunk
    <3> QED
      BY <1>w, <2>4, <3>3
  <2>8. CASE n > 0
    <3> DEFINE s == SlotsOf(buf, tail, n)
               u == SlotsOf(buf, After(tail, n), Dist(After(tail, n), head))
    <3>1. opened /\ From' = After(tail, n)
      <4>1. n # 0 /\ pc'["lp"] = "consume"
        BY <2>2, <2>3, <2>8
      <4>2. tail' = tail /\ run' = n
        BY <2>1
      <4>3. opened
        BY <2>1, <4>1
      <4> QED
        BY <4>1, <4>2, <4>3 DEF From
    <3>2. InRing = s \o u
      BY <1>r, <1>t, <2>2, <2>4, SlotsSplit DEF Types, Ring
    <3>3. InRing' = u
      BY <1>r, <2>1, <3>1
    <3>4. InChunk = chunk /\ InChunk' = chunk \o s
      BY <2>1, <2>5, <3>1 DEF InChunk
    <3>5. s \in Seq(Byte) /\ u \in Seq(Byte)
      <4>1. n \in Nat /\ After(tail, n) \in Cursor
        BY <2>2, Sizes, AfterType DEF Cursor
      <4>2. Dist(After(tail, n), head) \in Nat
        BY <2>2, <4>1, DistType
      <4> QED
        BY <1>t, <2>6, <4>1, <4>2, SlotsType DEF Types, Ring
    <3> HIDE DEF s, u
    <3>6. chunk \o s \o u = chunk \o (s \o u)
      BY <1>t, <3>5, ConcatAssociative
    <3>7. Held = chunk \o (s \o u) /\ Held' = chunk \o s \o u
      BY <1>w, <2>4, <3>2, <3>3, <3>4
    <3> QED
      BY <2>4, <3>6, <3>7
  <2> QED
    BY <2>2, <2>7, <2>8
<1>5. CASE Consume
  <2>1. /\ pc["lp"] = "consume" /\ UNCHANGED <<head, buf, files, current, chunk>>
        /\ UNCHANGED opened /\ pc'["lp"] \in {"pop", "write"}
        /\ \E t \in {tail, slot["lp"]} : tail' = After(t, run)
    BY <1>t, <1>5 DEF Consume, Goto, history
  <2>2. tail' = After(tail, run)
    BY <1>0, <2>1 DEF Slotted
  <2>3. From' = From
    BY <2>1, <2>2 DEF From
  <2>4. UNCHANGED <<InFile, InChunk, InRing>> /\ ~PuttingBack /\ ~PuttingBack'
    BY <1>r, <2>1, <2>3 DEF InFile, InChunk, PuttingBack
  <2> QED
    BY <1>w, <2>4
<1>6. CASE WriteChunk
  <2>1. /\ pc["lp"] = "write" /\ pc'["lp"] \in {"drain", "sleep"}
        /\ chunk' = <<>> /\ UNCHANGED <<head, tail, buf, run, current, opened>>
        /\ files' = [files EXCEPT ![current] = @ \o chunk]
    BY <1>t, <1>6 DEF WriteChunk, Goto, ring, history
  <2>2. InRing' = InRing /\ ~PuttingBack /\ ~PuttingBack'
    BY <2>1 DEF InRing, Slots, PuttingBack
  <2>3. CASE ~opened
    <3>1. InFile' = InFile /\ InChunk' = InChunk
      BY <2>1, <2>3 DEF InFile, InChunk
    <3> QED
      BY <1>w, <2>2, <3>1
  <2>4. CASE opened
    <3>1. current \in 1 .. Len(files)
      BY <1>t, <2>1 DEF Chunks
    <3>2. files'[current] = files[current] \o chunk
      BY <1>t, <2>1, <3>1
    <3>3. InFile' = InFile \o InChunk /\ InChunk' = <<>>
      BY <1>a, <2>1, <2>4, <3>2 DEF InFile, InChunk
    <3>4. Held' = InRing /\ Held = InChunk \o InRing
      BY <1>a, <1>w, <2>2, <3>3, Empty
    <3> QED
      BY <1>a, <3>3, <3>4, ConcatAssociative
  <2> QED
    BY <2>3, <2>4
<1>7. CASE WriteFails
  <2>1. PICK n \in 0 .. Len(chunk) - 1 :
          /\ files' = [files EXCEPT ![current] = @ \o SubSeq(chunk, 1, n)]
          /\ clean' = (clean /\ n = 0 /\ Count = 0)
    BY <1>7 DEF WriteFails, Meets
  <2>2. /\ pc["lp"] = "write" /\ pc'["lp"] = "push"
        /\ UNCHANGED <<head, tail, buf, run, current, opened, chunk>>
    BY <1>t, <1>7 DEF WriteFails, Goto, ring
  <2>3. SubSeq(chunk, 1, 0) = <<>>
    BY <1>t
  <2>4. current \in 1 .. Len(files) /\ files[current] \in Seq(Byte)
    BY <1>t, <2>2 DEF Chunks
  <2>5. files'[current] = files[current]
    <3>1. n = 0
      BY <2>1
    <3>2. files'[current] = files[current] \o SubSeq(chunk, 1, n)
      <4>1. current \in DOMAIN files
        BY <1>t, <2>4
      <4> QED
        BY <2>1, <4>1
    <3>3. files[current] \o <<>> = files[current]
      BY <2>4, Empty
    <3> QED
      BY <2>3, <3>1, <3>2, <3>3
  <2>6. InFile' = InFile /\ InChunk' = InChunk
    BY <2>2, <2>5 DEF InFile, InChunk
  <2>7. InRing = <<>> /\ InRing' = <<>>
    <3>1. From = tail /\ From' = tail /\ Dist(tail, head) = 0 /\ tail \in Cursor
      BY <1>t, <2>1, <2>2 DEF From, Count, Dist, Types, Ring
    <3>2. SlotsOf(buf, tail, 0) = <<>>
      BY DEF SlotsOf
    <3> QED
      BY <1>r, <2>2, <3>1, <3>2
  <2>8. ~PuttingBack /\ PuttingBack'
    BY <2>2 DEF PuttingBack
  <2>9. Held = InChunk \o InRing /\ Held' = InRing' \o InChunk'
    BY <2>8 DEF Held
  <2> QED
    BY <1>a, <2>6, <2>7, <2>9, Empty
<1>8. CASE Requeue
  <2>1. /\ Publish("lp", Head(chunk)) /\ pc["lp"] = "publish"
        /\ chunk' = Tail(chunk) /\ UNCHANGED <<run, files, current, opened>>
        /\ clean /\ opened
        /\ pc'["lp"] = IF Len(chunk) = 1 THEN "sleep" ELSE "push"
    BY <1>t, <1>8 DEF Requeue, Publish, Meets, Goto
  <2>2. chunk # <<>>
    BY <1>t, <2>1 DEF Chunks
  <2>3. /\ Head(chunk) \in Byte /\ Tail(chunk) \in Seq(Byte)
        /\ chunk = <<Head(chunk)>> \o Tail(chunk)
        /\ (Len(chunk) = 1 => Tail(chunk) = <<>>)
    BY <1>t, <2>2, HeadRest
  <2>4. InRing' = InRing \o <<Head(chunk)>>
    BY <1>t, <2>1, <2>3, RingAppends
  <2>5. InFile' = InFile /\ InChunk = chunk /\ InChunk' = Tail(chunk)
    BY <2>1 DEF InFile, InChunk
  <2>6. <<Head(chunk)>> \in Seq(Byte)
    BY <2>3
  <2>7. Held = InRing \o <<Head(chunk)>> \o Tail(chunk)
    <3>1. Held = InRing \o chunk
      BY <2>1, <2>5 DEF Held, PuttingBack
    <3>2. InRing \o (<<Head(chunk)>> \o Tail(chunk))
            = InRing \o <<Head(chunk)>> \o Tail(chunk)
      <4> DEFINE h == <<Head(chunk)>>
                 k == Tail(chunk)
      <4>1. h \in Seq(Byte) /\ k \in Seq(Byte) /\ InRing \in Seq(Byte)
        BY <1>a, <2>3, <2>6
      <4> HIDE DEF h, k
      <4>2. InRing \o h \o k = InRing \o (h \o k)
        BY <4>1, ConcatAssociative
      <4> QED
        BY <4>2 DEF h, k
    <3> QED
      BY <2>3, <3>1, <3>2
  <2>8. CASE Len(chunk) = 1
    <3>1. InRing \o <<Head(chunk)>> \in Seq(Byte) /\ Tail(chunk) = <<>>
      BY <1>a, <2>3, <2>6, <2>8
    <3>2. Held' = <<>> \o (InRing \o <<Head(chunk)>>)
      BY <2>1, <2>4, <2>5, <2>8, <3>1 DEF Held, PuttingBack
    <3> QED
      BY <2>5, <2>7, <3>1, <3>2, Empty
  <2>9. CASE Len(chunk) # 1
    <3>1. Held' = InRing \o <<Head(chunk)>> \o Tail(chunk)
      BY <2>1, <2>4, <2>5, <2>9 DEF Held, PuttingBack
    <3> QED
      BY <2>5, <2>7, <3>1
  <2> QED
    BY <2>8, <2>9
<1>9. CASE RequeueEnds
  BY <1>9 DEF RequeueEnds, Meets
<1> QED
  BY <1>1, <1>2, <1>3, <1>4, <1>5, <1>6, <1>7, <1>8, <1>9 DEF Consumer

(***************************************************************************)
(* No character is lost, doubled or moved, for every size of ring and      *)
(* chunk and every text: from Fifo::push of the guest or of the retrying   *)
(* tick, through peek, consume, write_chunk and requeue, each is in one    *)
(* place and in order, as long as two tasks do not meet.                   *)
(***************************************************************************)
THEOREM PrintedIsCaptured == Spec => []Captured
<1>1. Init => Slotted /\ Filed /\ Captured
  <2> SUFFICES ASSUME Init PROVE Slotted /\ Filed /\ Captured
    OBVIOUS
  <2>1. Slotted
    BY DEF Init, Slotted, Task
  <2>2. Filed
    BY DEF Init, Filed
  <2>3. /\ InFile = <<>> /\ InChunk = <<>> /\ InStash = <<>> /\ InHand = <<>>
        /\ ~PuttingBack /\ printed = <<>>
    BY DEF Init, InFile, InChunk, InStash, InHand, PuttingBack
  <2>4. InRing = <<>>
    <3>1. (0 + Size - 0) % Size = 0
      BY Sizes
    <3>2. InRing = [k \in 1 .. 0 |-> buf[After(0, k - 1)]]
      BY <3>1 DEF Init, InRing, Slots
    <3> QED
      BY <3>2
  <2>5. <<>> \in Seq(Byte)
    OBVIOUS
  <2>6. Captured
    BY <2>3, <2>4, <2>5, Empty DEF Captured
  <2> QED
    BY <2>1, <2>2, <2>6
<1>2. ASSUME Inv, Inv', Slotted, Filed, Captured, [Next]_vars
      PROVE  Slotted' /\ Filed' /\ Captured'
  <2>1. Slotted' /\ Filed'
    BY <1>2, SlottedStep, FiledStep
  <2>2. CASE Guest \/ Clock
    BY <1>2, <2>1, <2>2, GuestCaptured
  <2>3. CASE Consumer
    BY <1>2, <2>1, <2>3, ConsumerCaptured
  <2>4. CASE UNCHANGED vars
    <3>1. UNCHANGED <<head, tail, buf, current, files, chunk, run, opened, pc>>
      BY <2>4 DEF vars, ring, capture, history
    <3>2. UNCHANGED <<stash, char, printed, clean>>
      BY <2>4 DEF vars, device, history
    <3>3. UNCHANGED <<InFile, InChunk, InRing, PuttingBack>>
      BY <3>1, FrontSame
    <3>4. UNCHANGED <<InStash, InHand>>
      BY <3>1, <3>2 DEF InStash, InHand
    <3>5. Captured'
      BY <1>2, <3>1, <3>2, <3>3, <3>4 DEF Captured
    <3> QED
      BY <2>1, <3>5
  <2> QED
    BY <1>2, <2>1, <2>2, <2>3, <2>4 DEF Next
<1> QED
  BY <1>1, <1>2, InitInv, InvStep, PTL DEF Spec

=============================================================================
