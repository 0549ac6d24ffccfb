------------------------- MODULE ConsoleOutputProofs -------------------------
(***************************************************************************)
(* Proofs about what the guest prints, from the printing instruction to    *)
(* the screen.  The first part is about the ring, SpscFifo alone, and      *)
(* cites its assumption only; the second, about ConsoleOutput, is          *)
(* backpressure, the reset of the emulator, and the ring as the two tasks  *)
(* use it; the third, about GuestOutput, is the frame parser at the end of *)
(* that path and the boot script, and uses nothing of the first two.       *)
(***************************************************************************)
EXTENDS ConsoleOutput, GuestOutput, Integers, SequenceTheorems,
        WellFoundedInduction, TLAPS

(***************************************************************************)
(* The arithmetic of cursors.                                              *)
(***************************************************************************)
LEMMA AdvanceCursor ==
  ASSUME NEW i \in Cursor, NEW n \in 0 .. Size
  PROVE  Advance(i, n) \in Cursor
BY FifoAssumption DEF Cursor, Advance

LEMMA DistanceRange ==
  ASSUME NEW t \in Cursor, NEW h \in Cursor
  PROVE  Distance(t, h) \in 0 .. Size - 1
BY FifoAssumption DEF Cursor, Distance

(* Moving head makes the run longer by one, unless the ring was full. *)
LEMMA DistanceHead ==
  ASSUME NEW t \in Cursor, NEW h \in Cursor
  PROVE  /\ Advance(h, 1) = t <=> Distance(t, h) = Size - 1
         /\ Distance(t, h) < Size - 1
              => Distance(t, Advance(h, 1)) = Distance(t, h) + 1
BY FifoAssumption DEF Cursor, Advance, Distance

(* Moving tail within the run makes it shorter. *)
LEMMA DistanceTail ==
  ASSUME NEW t \in Cursor, NEW h \in Cursor, NEW n \in 0 .. Distance(t, h)
  PROVE  /\ Distance(Advance(t, n), h) = Distance(t, h) - n
         /\ \A i \in 0 .. Distance(t, h) - n :
              Advance(Advance(t, n), i) = Advance(t, n + i)
BY FifoAssumption DEF Cursor, Advance, Distance

(* The slots of the run are cursors other than head, which follows them. *)
LEMMA RunSlots ==
  ASSUME NEW t \in Cursor, NEW h \in Cursor
  PROVE  /\ \A i \in 0 .. Distance(t, h) - 1 :
              Advance(t, i) \in Cursor /\ Advance(t, i) # h
         /\ Advance(t, Distance(t, h)) = h
BY FifoAssumption DEF Cursor, Advance, Distance

-----------------------------------------------------------------------------
(***************************************************************************)
(* The inductive invariant.  RoomKept and ReadStable need what the tasks   *)
(* have established before: push wrote the slot it is about to publish,    *)
(* and a peek returned at least one byte and at most the contiguous run.   *)
(***************************************************************************)
Prepared ==
  /\ wpc = "publish" => buf[head] = wbyte
  /\ rpc = "read" => run <= Size - tail
  /\ rpc = "consume" => run >= 1
  /\ rpc = "idle" => run = 0

FifoInv == FifoTypeOK /\ RoomKept /\ ReadStable /\ Prepared

LEMMA FifoInvInit == FifoInit => FifoInv
BY FifoAssumption
   DEF FifoInit, FifoInv, FifoTypeOK, RoomKept, ReadStable, Prepared, Cursor,
       Count, Distance

LEMMA FifoInvStep ==
  ASSUME FifoInv, [FifoNext]_fifoVars
  PROVE  FifoInv'
<1> USE FifoAssumption
    DEF FifoInv, FifoTypeOK, RoomKept, ReadStable, Prepared, Count
<1>0. /\ Count \in 0 .. Size - 1
      /\ Advance(head, 1) \in Cursor
  <2>1. 1 \in 0 .. Size
    OBVIOUS
  <2>2. QED
    BY <2>1, AdvanceCursor, DistanceRange
<1>1. ASSUME NEW b \in Byte, PushTest(b) PROVE FifoInv'
  BY <1>0, <1>1, DistanceHead DEF PushTest, readerVars
<1>2. CASE PushFull
  BY <1>2 DEF PushFull, readerVars
<1>3. CASE PushStore
  <2>1. buf' \in [Cursor -> Byte] /\ buf'[head] = wbyte
    BY <1>3 DEF PushStore
  <2>2. \A i \in 0 .. Count - 1 : buf'[Advance(tail, i)] = buf[Advance(tail, i)]
    BY <1>3, RunSlots DEF PushStore
  <2>3. ReadStable'
    <3>1. \A i \in 1 .. run : i - 1 \in 0 .. Count - 1
      BY <1>0
    <3>2. \A i \in 1 .. run :
            buf'[Advance(tail, i - 1)] = buf[Advance(tail, i - 1)]
      BY <2>2, <3>1
    <3>3. QED
      BY <1>3, <3>2 DEF PushStore, readerVars
  <2>4. QED
    BY <1>3, <2>1, <2>3 DEF PushStore, readerVars
<1>4. CASE PushPublish
  <2>1. Count' = Count + 1
    BY <1>4, DistanceHead DEF PushPublish
  <2>2. QED
    BY <1>0, <1>4, <2>1 DEF PushPublish, readerVars
<1>5. CASE Peek
  <2>1. run' \in 0 .. Size - 1 /\ run' <= Count /\ run' <= Size - tail
    BY <1>0, <1>5 DEF Peek, Cursor, Distance
  <2>2. QED
    BY <1>5, <2>1 DEF Peek, writerVars
<1>6. ASSUME NEW n \in 1 .. run, Read(n) PROVE FifoInv'
  <2>1. \A i \in 1 .. n : Advance(tail, i - 1) = tail + i - 1
    BY <1>6 DEF Read, Advance, Cursor
  <2>2. ReadStable'
    BY <1>0, <1>6, <2>1 DEF Read
  <2>3. QED
    BY <1>6, <2>2 DEF Read, writerVars
<1>7. CASE Consume \/ ClearStore
  <2>1. tail' = Advance(tail, run) /\ tail' \in Cursor
    BY <1>0, <1>7, AdvanceCursor DEF Consume, ClearStore
  <2>2. Count' = Count - run
    BY <1>0, <1>7, <2>1, DistanceTail DEF Consume, ClearStore
  <2>3. QED
    BY <1>0, <1>7, <2>1, <2>2 DEF Consume, ClearStore, writerVars
<1>8. CASE ClearLoad
  BY <1>0, <1>8 DEF ClearLoad, writerVars
<1>9. CASE UNCHANGED fifoVars
  BY <1>9 DEF fifoVars, writerVars, readerVars
<1>10. QED
  BY <1>1, <1>2, <1>3, <1>4, <1>5, <1>6, <1>7, <1>8, <1>9
     DEF FifoNext, Producer, Consumer

(***************************************************************************)
(* For a ring of any size, a push never touches a byte the consumer may    *)
(* still read, and the consumer never runs past the producer.              *)
(***************************************************************************)
THEOREM FifoCorrect == FifoSpec => [](FifoTypeOK /\ RoomKept /\ ReadStable)
<1>1. FifoInv => FifoTypeOK /\ RoomKept /\ ReadStable
  BY DEF FifoInv
<1>2. FifoInv /\ [FifoNext]_fifoVars => FifoInv'
  BY FifoInvStep
<1>3. QED
  BY <1>1, <1>2, FifoInvInit, PTL DEF FifoSpec

(* The cursors stay inside the storage and the runs inside the cursors.    *)
COROLLARY FifoTypes == FifoSpec => []FifoTypeOK
BY FifoCorrect, PTL

-----------------------------------------------------------------------------
(***************************************************************************)
(* Refinement.  A step maps to the abstract operation when it moves a      *)
(* cursor or finds the ring full; all others leave the contents alone.     *)
(***************************************************************************)
LEMMA RunSeq ==
  ASSUME NEW t \in Cursor, NEW h \in Cursor, NEW b \in [Cursor -> Byte],
         NEW c, c = [i \in 1 .. Distance(t, h) |-> b[Advance(t, i - 1)]]
  PROVE  /\ c \in Seq(Byte)
         /\ Len(c) = Distance(t, h)
         /\ \A i \in 1 .. Distance(t, h) : c[i] = b[Advance(t, i - 1)]
<1>1. Distance(t, h) \in Nat
  BY DistanceRange
<1>2. \A i \in 1 .. Distance(t, h) : b[Advance(t, i - 1)] \in Byte
  <2> SUFFICES ASSUME NEW i \in 1 .. Distance(t, h)
               PROVE  b[Advance(t, i - 1)] \in Byte
    OBVIOUS
  <2>1. i - 1 \in 0 .. Distance(t, h) - 1
    BY <1>1
  <2>2. Advance(t, i - 1) \in Cursor
    BY <2>1, RunSlots
  <2>3. QED
    BY <2>2
<1>3. QED
  BY <1>1, <1>2

LEMMA ContentsSeq ==
  ASSUME FifoTypeOK
  PROVE  /\ Contents \in Seq(Byte)
         /\ Len(Contents) = Count
         /\ \A i \in 1 .. Count : Contents[i] = buf[Advance(tail, i - 1)]
BY RunSeq DEF Contents, Count, FifoTypeOK

LEMMA ContentsSeqNext ==
  ASSUME FifoTypeOK'
  PROVE  /\ Contents' \in Seq(Byte)
         /\ Len(Contents') = Count'
         /\ \A i \in 1 .. Count' : Contents'[i] = buf'[Advance(tail', i - 1)]
BY RunSeq DEF Contents, Count, FifoTypeOK

(* The cursor step of the consumer drops the first run bytes. *)
LEMMA ConsumeDrops ==
  ASSUME FifoInv, FifoInv', tail' = Advance(tail, run), UNCHANGED <<head, buf>>
  PROVE  Contents' = SubSeq(Contents, run + 1, Len(Contents))
<1>1. /\ Count \in 0 .. Size - 1 /\ run \in 0 .. Count
      /\ head \in Cursor /\ tail \in Cursor
  BY DistanceRange DEF Count, FifoInv, FifoTypeOK, ReadStable
<1>2. Count' = Count - run
  BY <1>1, DistanceTail DEF Count
<1>3. \A i \in 1 .. Count - run :
        Advance(tail', i - 1) = Advance(tail, run + i - 1)
  <2> SUFFICES ASSUME NEW i \in 1 .. Count - run
               PROVE  Advance(tail', i - 1) = Advance(tail, run + i - 1)
    OBVIOUS
  <2>1. i - 1 \in 0 .. Count - run
    BY <1>1
  <2>2. QED
    BY <1>1, <2>1, DistanceTail DEF Count
<1>4. /\ Contents \in Seq(Byte) /\ Len(Contents) = Count
      /\ \A i \in 1 .. Count : Contents[i] = buf[Advance(tail, i - 1)]
  BY ContentsSeq DEF FifoInv
<1>5. /\ Contents' \in Seq(Byte) /\ Len(Contents') = Count'
      /\ \A i \in 1 .. Count' : Contents'[i] = buf'[Advance(tail', i - 1)]
  BY ContentsSeqNext DEF FifoInv
<1> DEFINE rest == SubSeq(Contents, run + 1, Len(Contents))
<1>6. /\ rest \in Seq(Byte) /\ Len(rest) = Count - run
      /\ \A i \in 1 .. Count - run : rest[i] = Contents[run + i]
  BY <1>1, <1>4
<1>7. \A i \in 1 .. Count - run : Contents'[i] = rest[i]
  <2> SUFFICES ASSUME NEW i \in 1 .. Count - run
               PROVE  Contents'[i] = rest[i]
    OBVIOUS
  <2>1. run + i \in 1 .. Count
    BY <1>1
  <2>2. QED
    <3>1. i \in 1 .. Count'
      BY <1>2
    <3>2. Contents'[i] = buf[Advance(tail, run + i - 1)]
      BY <1>3, <1>5, <3>1
    <3>3. Contents[run + i] = buf[Advance(tail, run + i - 1)]
      <4>1. (run + i) - 1 = run + i - 1
        BY <1>1
      <4>2. QED
        BY <1>4, <2>1, <4>1
    <3>4. QED
      BY <1>6, <3>2, <3>3
<1> HIDE DEF rest
<1>8. Contents' = rest
  BY <1>2, <1>5, <1>6, <1>7, SeqEqual
<1>9. QED
  BY <1>8 DEF rest

(* Publishing the byte appends it. *)
LEMMA PublishAppends ==
  ASSUME FifoInv, FifoInv', PushPublish
  PROVE  Contents' = Append(Contents, wbyte)
<1>1. /\ Count \in 0 .. Size - 2
      /\ head \in Cursor /\ tail \in Cursor /\ wbyte \in Byte
      /\ buf[head] = wbyte
      /\ head' = Advance(head, 1) /\ tail' = tail /\ buf' = buf
  BY DistanceRange, FifoAssumption
     DEF Count, FifoInv, FifoTypeOK, RoomKept, Prepared, PushPublish
<1>2. Count' = Count + 1
  BY <1>1, DistanceHead, FifoAssumption DEF Count
<1>3. Advance(tail, Count) = head
  BY <1>1, RunSlots DEF Count
<1>4. /\ Contents \in Seq(Byte) /\ Len(Contents) = Count
      /\ \A i \in 1 .. Count : Contents[i] = buf[Advance(tail, i - 1)]
  BY ContentsSeq DEF FifoInv
<1>5. /\ Contents' \in Seq(Byte) /\ Len(Contents') = Count'
      /\ \A i \in 1 .. Count' : Contents'[i] = buf'[Advance(tail', i - 1)]
  BY ContentsSeqNext DEF FifoInv
<1> DEFINE more == Append(Contents, wbyte)
<1>6. /\ more \in Seq(Byte) /\ Len(more) = Count + 1
      /\ \A i \in 1 .. Count : more[i] = Contents[i]
      /\ more[Count + 1] = wbyte
  BY <1>1, <1>4
<1>7. \A i \in 1 .. Count + 1 : Contents'[i] = more[i]
  <2>1. ASSUME NEW i \in 1 .. Count PROVE Contents'[i] = more[i]
    <3>1. i \in 1 .. Count'
      BY <1>1, <1>2
    <3>2. QED
      BY <1>1, <1>4, <1>5, <1>6, <3>1
  <2>2. Contents'[Count + 1] = more[Count + 1]
    <3>1. Count + 1 \in 1 .. Count' /\ (Count + 1) - 1 = Count
      BY <1>1, <1>2
    <3>2. QED
      BY <1>1, <1>3, <1>5, <1>6, <3>1
  <2>3. \A i \in 1 .. Count + 1 : i \in 1 .. Count \/ i = Count + 1
    BY <1>1
  <2>4. QED
    BY <2>1, <2>2, <2>3
<1> HIDE DEF more
<1>8. Contents' = more
  BY <1>2, <1>5, <1>6, <1>7, SeqEqual
<1>9. QED
  BY <1>8 DEF more

LEMMA FifoStepImplements ==
  ASSUME FifoInv, FifoInv', [FifoNext]_fifoVars
  PROVE  [Channel!Next]_<<Contents, out, accepted>>
<1>1. Count \in 0 .. Size - 1 /\ Len(Contents) = Count
  BY ContentsSeq, DistanceRange DEF Count, FifoInv, FifoTypeOK
<1>2. CASE PushFull
  <2>1. Count = Size - 1
    BY <1>2, DistanceHead DEF PushFull, Count, FifoInv, FifoTypeOK
  <2>2. Contents' = Contents
    BY <1>2 DEF PushFull, Contents, Count
  <2>3. Channel!Refuse
    BY <1>1, <1>2, <2>1, <2>2 DEF Channel!Refuse, PushFull, readerVars
  <2>4. QED
    BY <2>3 DEF Channel!Next
<1>3. CASE PushPublish
  <2>1. Contents' = Append(Contents, wbyte)
    BY <1>3, PublishAppends
  <2>2. Count < Size - 1 /\ wbyte \in Byte
    BY <1>3 DEF PushPublish, FifoInv, FifoTypeOK, RoomKept
  <2>3. Channel!Put(wbyte)
    BY <1>1, <1>3, <2>1, <2>2 DEF Channel!Put, PushPublish, readerVars
  <2>4. QED
    BY <2>2, <2>3 DEF Channel!Next
<1>4. CASE Consume
  <2>1. Contents' = SubSeq(Contents, run + 1, Len(Contents))
    BY <1>4, ConsumeDrops DEF Consume
  <2>2. run \in 1 .. Len(Contents)
    BY <1>1, <1>4 DEF Consume, FifoInv, FifoTypeOK, ReadStable, Prepared
  <2>3. out' = SubSeq(Contents, 1, run)
    <3>1. out' = [i \in 1 .. run |-> buf[Advance(tail, i - 1)]]
      BY <1>4 DEF Consume, FifoInv, ReadStable
    <3>2. SubSeq(Contents, 1, run) = [i \in 1 .. run |-> Contents[i]]
      BY <2>2, ContentsSeq DEF FifoInv
    <3>3. \A i \in 1 .. run : Contents[i] = buf[Advance(tail, i - 1)]
      BY <1>1, <2>2, ContentsSeq DEF FifoInv
    <3>4. QED
      BY <3>1, <3>2, <3>3
  <2>4. Channel!Take(run)
    BY <1>4, <2>1, <2>3
       DEF Channel!Take, Channel!Rest, Consume, writerVars
  <2>5. QED
    BY <2>2, <2>4 DEF Channel!Next
<1>5. CASE ClearStore
  <2>1. Contents' = SubSeq(Contents, run + 1, Len(Contents))
    BY <1>5, ConsumeDrops DEF ClearStore
  <2>2. CASE run = 0
    <3>1. tail' = tail
      BY <1>5, <2>2, FifoAssumption
         DEF ClearStore, Advance, FifoInv, FifoTypeOK, Cursor
    <3>2. QED
      BY <1>5, <3>1 DEF ClearStore, writerVars, Contents, Count
  <2>3. CASE run # 0
    <3>1. run \in 1 .. Len(Contents)
      BY <1>1, <2>3 DEF FifoInv, FifoTypeOK, ReadStable
    <3>2. Channel!Discard(run)
      BY <1>5, <2>1
         DEF Channel!Discard, Channel!Rest, ClearStore, writerVars
    <3>3. QED
      BY <3>1, <3>2 DEF Channel!Next
  <2>4. QED
    BY <2>2, <2>3
<1>6. CASE PushStore
  <2>1. \A i \in 1 .. Count : buf'[Advance(tail, i - 1)] = buf[Advance(tail, i - 1)]
    <3> SUFFICES ASSUME NEW i \in 1 .. Count
                 PROVE  buf'[Advance(tail, i - 1)] = buf[Advance(tail, i - 1)]
      OBVIOUS
    <3>1. i - 1 \in 0 .. Count - 1
      BY <1>1
    <3>2. Advance(tail, i - 1) \in Cursor \ {head}
      BY <3>1, RunSlots DEF Count, FifoInv, FifoTypeOK
    <3>3. QED
      BY <1>6, <3>2 DEF PushStore, FifoInv, FifoTypeOK
  <2>2. Contents' = Contents
    BY <1>6, <2>1 DEF PushStore, Contents, Count
  <2>3. QED
    BY <1>6, <2>2 DEF PushStore, readerVars
<1>7. CASE \/ \E b \in Byte : PushTest(b)
           \/ Peek
           \/ \E n \in 1 .. run : Read(n)
           \/ ClearLoad
           \/ UNCHANGED fifoVars
  BY <1>7 DEF PushTest, Peek, Read, ClearLoad, fifoVars, readerVars,
              writerVars, Contents, Count
<1>8. QED
  BY <1>2, <1>3, <1>4, <1>5, <1>6, <1>7 DEF FifoNext, Producer, Consumer

(***************************************************************************)
(* The ring implements the byte channel, for every size of the storage.    *)
(***************************************************************************)
THEOREM FifoImplementsChannel == FifoSpec => ImplementsChannel
<1>1. FifoInit => Channel!Init
  <2> SUFFICES ASSUME FifoInit PROVE Channel!Init
    OBVIOUS
  <2>1. Count = 0
    BY DEF FifoInit, Count, Distance
  <2>2. Contents = <<>>
    BY <2>1 DEF Contents
  <2>3. QED
    BY <2>2 DEF FifoInit, Channel!Init
<1>2. FifoInv /\ FifoInv' /\ [FifoNext]_fifoVars
        => [Channel!Next]_<<Contents, out, accepted>>
  BY FifoStepImplements
<1>3. FifoInv /\ [FifoNext]_fifoVars => FifoInv'
  BY FifoInvStep
<1>4. QED
  BY <1>1, <1>2, <1>3, FifoInvInit, PTL
     DEF FifoSpec, ImplementsChannel, Channel!Spec, Channel!channelVars

-----------------------------------------------------------------------------
(***************************************************************************)
(* Console output: where the tasks are, and what they have established.    *)
(***************************************************************************)
CpuPlace == {"home", "undone", "push", "store", "publish", "notify", "room",
             "ready", "done", "ask", "await", "reset"}
ClkPlace == {"home", "room", "ready", "done"}
UsbPlace == {"top", "discard", "drain", "discarded", "cleared", "answer",
             "write", "consume", "sleep"}

Pushing == {"push", "store", "publish", "notify"}

Types ==
  /\ busy \in BOOLEAN /\ done \in BOOLEAN /\ dropped \in BOOLEAN
  /\ empty \in BOOLEAN /\ resetReq \in BOOLEAN /\ calm \in BOOLEAN
  /\ notified \in BOOLEAN /\ drained \in BOOLEAN /\ short \in BOOLEAN

Places ==
  /\ pc \in [Task -> CpuPlace \cup UsbPlace]
  /\ pc["cpu"] \in CpuPlace /\ pc["clk"] \in ClkPlace
  /\ pc["usbout"] \in UsbPlace

Todo == todo \in 0 .. Burst /\ (pc["cpu"] \in Pushing => todo >= 1)

(***************************************************************************)
(* The emulator's reset: while it is requested the guest pushes nothing,   *)
(* so what usbout counted is what it discards, and the ring stays empty    *)
(* from the answer until the guest runs again.                             *)
(***************************************************************************)
Asking == pc["cpu"] \in {"ask", "await"}

Asked ==
  /\ resetReq => Asking
  /\ pc["usbout"] \in {"discard", "discarded", "answer"} => resetReq

Cleared == pc["usbout"] = "discarded" => rpc = "clear" /\ run = Count

Emptied ==
  /\ pc["usbout"] = "answer" => Count = 0
  /\ Asking /\ ~resetReq => Count = 0
  /\ pc["cpu"] = "reset" => Count = 0

(***************************************************************************)
(* Backpressure: DONE, or a task that is about to set it, stands for room  *)
(* for a whole burst, and the bytes a write has yet to push fit.           *)
(***************************************************************************)
Room == Free >= Reserve

Tasks ==
  calm => /\ Calm
          /\ pc["cpu"] = "undone" => busy /\ done
          /\ pc["cpu"] \in Pushing => ~done
          /\ ~busy /\ ~done => pc["cpu"] = "done" \/ pc["clk"] = "done"

DoneRoom ==
  calm => /\ done => Room
          /\ pc["cpu"] \in {"ready", "done"} => Room
          /\ pc["clk"] \in {"ready", "done"} => Room

Fits ==
  calm => /\ pc["cpu"] \in {"push", "store", "publish"} => todo <= Free
          /\ pc["cpu"] = "notify" => todo - 1 <= Free
          /\ ~dropped

Inv ==
  /\ FifoInv /\ Types /\ Places /\ Todo
  /\ Asked /\ Cleared /\ Emptied /\ Tasks /\ DoneRoom /\ Fits

-----------------------------------------------------------------------------
(***************************************************************************)
(* Every step is a Step, the RESET instruction, or a stutter.              *)
(***************************************************************************)
LEMMA StepActions ==
  ASSUME Step
  PROVE  \/ WriteTPB \/ ClearDone \/ OutFull \/ (\E b \in Byte : OutTest(b))
         \/ OutStore \/ OutPublish \/ OutNotify
         \/ (\E t \in {"cpu", "clk"} :
               \/ ServeBusy(t) \/ ServeRoom(t) \/ ServeReady(t)
               \/ ServeIdle(t) \/ ServeDone(t))
         \/ HostReset \/ HostResetNotify \/ HostResetWait \/ HostResetEnd
         \/ UsbTop \/ UsbClearLoad \/ UsbClearStore \/ UsbAnswer \/ UsbPeek
         \/ UsbEmpty \/ (\E n \in 1 .. run : UsbWrite(n)) \/ UsbBlocked
         \/ UsbConsume \/ UsbWake
<1>1. CASE WriteTPB \/ HostReset \/ UsbBlocked
  BY <1>1
<1>2. CASE Output
  BY <1>2 DEF Output
<1>3. CASE Service("cpu") \/ Service("clk")
  BY <1>3 DEF Service
<1>4. CASE HostResetStep
  BY <1>4 DEF HostResetStep
<1>5. CASE UsbLoop \/ UsbTake \/ UsbAccept
  BY <1>5 DEF UsbLoop, UsbTake, UsbAccept
<1> QED
  BY <1>1, <1>2, <1>3, <1>4, <1>5 DEF Step

LEMMA StepKinds ==
  ASSUME [Next]_vars
  PROVE  Step \/ ResetInstruction \/ UNCHANGED vars
BY DEF Next

(* A calm history stays one only through a step that leaves the tasks so.  *)
LEMMA CalmStep ==
  ASSUME [Next]_vars, calm \in BOOLEAN, calm => Calm, calm'
  PROVE  calm /\ Calm' /\ (Step \/ UNCHANGED vars)
<1>1. CASE UNCHANGED vars
  <2>1. UNCHANGED <<calm, pc>>
    BY <1>1 DEF vars, codeVars
  <2> QED
    BY <1>1, <2>1 DEF Calm
<1>2. CASE Step /\ calm' = (calm /\ Calm')
  BY <1>2
<1> QED
  BY <1>1, <1>2 DEF Next

LEMMA CalmBoolean ==
  ASSUME [Next]_vars, calm \in BOOLEAN
  PROVE  calm' \in BOOLEAN
<1>1. CASE UNCHANGED vars
  BY <1>1 DEF vars
<1>2. CASE Step /\ calm' = (calm /\ Calm')
  <2>1. (calm /\ Calm') \in BOOLEAN
    BY Zenon DEF Calm
  <2> QED
    BY <1>2, <2>1, Zenon
<1> QED
  BY <1>1, <1>2 DEF Next

-----------------------------------------------------------------------------
(***************************************************************************)
(* Types.                                                                  *)
(***************************************************************************)
LEMMA TypesStep ==
  ASSUME Types, [Next]_vars
  PROVE  Types'
<1>0. calm' \in BOOLEAN
  BY CalmBoolean DEF Types
<1> USE <1>0 DEF Types, txVars, guestVars, usbVars, NextByte
<1>1. CASE WriteTPB
  BY <1>1 DEF WriteTPB
<1>2. CASE ClearDone
  BY <1>2 DEF ClearDone
<1>3. CASE OutFull
  BY <1>3 DEF OutFull
<1>4. ASSUME NEW b \in Byte, OutTest(b) PROVE Types'
  BY <1>4 DEF OutTest
<1>5. CASE OutStore
  BY <1>5 DEF OutStore
<1>6. CASE OutPublish
  BY <1>6 DEF OutPublish
<1>7. CASE OutNotify
  BY <1>7 DEF OutNotify
<1>8. ASSUME NEW t \in {"cpu", "clk"}, ServeBusy(t)
      PROVE  Types'
  BY <1>8 DEF ServeBusy
<1>9. ASSUME NEW t \in {"cpu", "clk"}, ServeRoom(t)
      PROVE  Types'
  BY <1>9 DEF ServeRoom
<1>10. ASSUME NEW t \in {"cpu", "clk"}, ServeReady(t)
      PROVE  Types'
  BY <1>10 DEF ServeReady
<1>11. ASSUME NEW t \in {"cpu", "clk"}, ServeIdle(t)
      PROVE  Types'
  BY <1>11 DEF ServeIdle
<1>12. ASSUME NEW t \in {"cpu", "clk"}, ServeDone(t)
      PROVE  Types'
  BY <1>12 DEF ServeDone
<1>13. CASE ResetInstruction
  BY <1>13 DEF ResetInstruction
<1>14. CASE HostReset
  BY <1>14 DEF HostReset
<1>15. CASE HostResetNotify
  BY <1>15 DEF HostResetNotify
<1>16. CASE HostResetWait
  BY <1>16 DEF HostResetWait
<1>17. CASE HostResetEnd
  BY <1>17 DEF HostResetEnd
<1>18. CASE UsbTop
  BY <1>18 DEF UsbTop
<1>19. CASE UsbClearLoad
  BY <1>19 DEF UsbClearLoad
<1>20. CASE UsbClearStore
  BY <1>20 DEF UsbClearStore
<1>21. CASE UsbAnswer
  BY <1>21 DEF UsbAnswer
<1>22. CASE UsbPeek
  BY <1>22 DEF UsbPeek
<1>23. CASE UsbEmpty
  BY <1>23 DEF UsbEmpty
<1>24. ASSUME NEW n \in 1 .. run, UsbWrite(n) PROVE Types'
  BY <1>24 DEF UsbWrite
<1>25. CASE UsbBlocked
  BY <1>25 DEF UsbBlocked
<1>26. CASE UsbConsume
  BY <1>26 DEF UsbConsume
<1>27. CASE UsbWake
  BY <1>27 DEF UsbWake
<1>28. CASE UNCHANGED vars
  BY <1>28 DEF vars, codeVars, fifoVars, txVars, guestVars, usbVars
<1> QED
  BY <1>1, <1>2, <1>3, <1>4, <1>5, <1>6, <1>7, <1>8, <1>9, <1>10, <1>11,
     <1>12, <1>13, <1>14, <1>15, <1>16, <1>17, <1>18, <1>19, <1>20,
     <1>21, <1>22, <1>23, <1>24, <1>25, <1>26, <1>27, <1>28,
     StepKinds, StepActions

LEMMA PlacesStep ==
  ASSUME Places, [Next]_vars
  PROVE  Places'
<1> USE DEF Places, CpuPlace, ClkPlace, UsbPlace, Task, Goto, NextByte
<1>1. CASE WriteTPB
  BY <1>1 DEF WriteTPB
<1>2. CASE ClearDone
  BY <1>2 DEF ClearDone
<1>3. CASE OutFull
  BY <1>3 DEF OutFull
<1>4. ASSUME NEW b \in Byte, OutTest(b) PROVE Places'
  BY <1>4 DEF OutTest
<1>5. CASE OutStore
  BY <1>5 DEF OutStore
<1>6. CASE OutPublish
  BY <1>6 DEF OutPublish
<1>7. CASE OutNotify
  BY <1>7 DEF OutNotify
<1>8. ASSUME NEW t \in {"cpu", "clk"}, ServeBusy(t)
      PROVE  Places'
  BY <1>8 DEF ServeBusy
<1>9. ASSUME NEW t \in {"cpu", "clk"}, ServeRoom(t)
      PROVE  Places'
  BY <1>9 DEF ServeRoom
<1>10. ASSUME NEW t \in {"cpu", "clk"}, ServeReady(t)
      PROVE  Places'
  BY <1>10 DEF ServeReady
<1>11. ASSUME NEW t \in {"cpu", "clk"}, ServeIdle(t)
      PROVE  Places'
  BY <1>11 DEF ServeIdle
<1>12. ASSUME NEW t \in {"cpu", "clk"}, ServeDone(t)
      PROVE  Places'
  BY <1>12 DEF ServeDone
<1>13. CASE ResetInstruction
  BY <1>13 DEF ResetInstruction
<1>14. CASE HostReset
  BY <1>14 DEF HostReset
<1>15. CASE HostResetNotify
  BY <1>15 DEF HostResetNotify
<1>16. CASE HostResetWait
  BY <1>16 DEF HostResetWait
<1>17. CASE HostResetEnd
  BY <1>17 DEF HostResetEnd
<1>18. CASE UsbTop
  BY <1>18 DEF UsbTop
<1>19. CASE UsbClearLoad
  BY <1>19 DEF UsbClearLoad
<1>20. CASE UsbClearStore
  BY <1>20 DEF UsbClearStore
<1>21. CASE UsbAnswer
  BY <1>21 DEF UsbAnswer
<1>22. CASE UsbPeek
  BY <1>22 DEF UsbPeek
<1>23. CASE UsbEmpty
  BY <1>23 DEF UsbEmpty
<1>24. ASSUME NEW n \in 1 .. run, UsbWrite(n) PROVE Places'
  BY <1>24 DEF UsbWrite
<1>25. CASE UsbBlocked
  BY <1>25 DEF UsbBlocked
<1>26. CASE UsbConsume
  BY <1>26 DEF UsbConsume
<1>27. CASE UsbWake
  BY <1>27 DEF UsbWake
<1>28. CASE UNCHANGED vars
  BY <1>28 DEF vars, codeVars, fifoVars, txVars, guestVars, usbVars
<1> QED
  BY <1>1, <1>2, <1>3, <1>4, <1>5, <1>6, <1>7, <1>8, <1>9, <1>10, <1>11,
     <1>12, <1>13, <1>14, <1>15, <1>16, <1>17, <1>18, <1>19, <1>20,
     <1>21, <1>22, <1>23, <1>24, <1>25, <1>26, <1>27, <1>28,
     StepKinds, StepActions

LEMMA TodoStep ==
  ASSUME Places, Todo, [Next]_vars
  PROVE  Todo'
<1> USE OutputAssumption
    DEF Todo, Pushing, Places, CpuPlace, ClkPlace, UsbPlace, Task, Goto,
        NextByte, guestVars
<1>1. CASE WriteTPB
  BY <1>1 DEF WriteTPB
<1>2. CASE ClearDone
  BY <1>2 DEF ClearDone
<1>3. CASE OutFull
  BY <1>3 DEF OutFull
<1>4. ASSUME NEW b \in Byte, OutTest(b) PROVE Todo'
  BY <1>4 DEF OutTest
<1>5. CASE OutStore
  BY <1>5 DEF OutStore
<1>6. CASE OutPublish
  BY <1>6 DEF OutPublish
<1>7. CASE OutNotify
  BY <1>7 DEF OutNotify
<1>8. ASSUME NEW t \in {"cpu", "clk"}, ServeBusy(t)
      PROVE  Todo'
  BY <1>8 DEF ServeBusy
<1>9. ASSUME NEW t \in {"cpu", "clk"}, ServeRoom(t)
      PROVE  Todo'
  BY <1>9 DEF ServeRoom
<1>10. ASSUME NEW t \in {"cpu", "clk"}, ServeReady(t)
      PROVE  Todo'
  BY <1>10 DEF ServeReady
<1>11. ASSUME NEW t \in {"cpu", "clk"}, ServeIdle(t)
      PROVE  Todo'
  BY <1>11 DEF ServeIdle
<1>12. ASSUME NEW t \in {"cpu", "clk"}, ServeDone(t)
      PROVE  Todo'
  BY <1>12 DEF ServeDone
<1>13. CASE ResetInstruction
  BY <1>13 DEF ResetInstruction
<1>14. CASE HostReset
  BY <1>14 DEF HostReset
<1>15. CASE HostResetNotify
  BY <1>15 DEF HostResetNotify
<1>16. CASE HostResetWait
  BY <1>16 DEF HostResetWait
<1>17. CASE HostResetEnd
  BY <1>17 DEF HostResetEnd
<1>18. CASE UsbTop
  BY <1>18 DEF UsbTop
<1>19. CASE UsbClearLoad
  BY <1>19 DEF UsbClearLoad
<1>20. CASE UsbClearStore
  BY <1>20 DEF UsbClearStore
<1>21. CASE UsbAnswer
  BY <1>21 DEF UsbAnswer
<1>22. CASE UsbPeek
  BY <1>22 DEF UsbPeek
<1>23. CASE UsbEmpty
  BY <1>23 DEF UsbEmpty
<1>24. ASSUME NEW n \in 1 .. run, UsbWrite(n) PROVE Todo'
  BY <1>24 DEF UsbWrite
<1>25. CASE UsbBlocked
  BY <1>25 DEF UsbBlocked
<1>26. CASE UsbConsume
  BY <1>26 DEF UsbConsume
<1>27. CASE UsbWake
  BY <1>27 DEF UsbWake
<1>28. CASE UNCHANGED vars
  BY <1>28 DEF vars, codeVars, fifoVars, txVars, guestVars, usbVars
<1> QED
  BY <1>1, <1>2, <1>3, <1>4, <1>5, <1>6, <1>7, <1>8, <1>9, <1>10, <1>11,
     <1>12, <1>13, <1>14, <1>15, <1>16, <1>17, <1>18, <1>19, <1>20,
     <1>21, <1>22, <1>23, <1>24, <1>25, <1>26, <1>27, <1>28,
     StepKinds, StepActions

-----------------------------------------------------------------------------
(***************************************************************************)
(* The ring: both tasks together make only steps of SpscFifo.              *)
(***************************************************************************)
NoPublish ==
  \/ (\E b \in Byte : PushTest(b)) \/ PushFull \/ PushStore
  \/ Consumer \/ UsbBlocked \/ UNCHANGED fifoVars

LEMMA BlockedKeepsRing ==
  ASSUME FifoInv, UsbBlocked
  PROVE  FifoInv' /\ UNCHANGED <<Contents, Count, out, accepted>>
<1>1. UNCHANGED <<Contents, Count, out, accepted>>
  BY DEF UsbBlocked, writerVars, Contents, Count
<1>2. FifoTypeOK' /\ RoomKept'
  BY <1>1, FifoAssumption
     DEF UsbBlocked, writerVars, FifoInv, FifoTypeOK, RoomKept
<1>3. Count \in Nat
  BY DistanceRange DEF FifoInv, FifoTypeOK, Count
<1>4. ReadStable' /\ Prepared'
  BY <1>1, <1>3 DEF UsbBlocked, writerVars, FifoInv, ReadStable, Prepared
<1> QED
  BY <1>1, <1>2, <1>4 DEF FifoInv

LEMMA RingSteps ==
  ASSUME [Next]_vars
  PROVE  OutPublish \/ NoPublish
<1> USE DEF NoPublish, Consumer, fifoVars
<1>1. CASE WriteTPB
  BY <1>1 DEF WriteTPB
<1>2. CASE ClearDone
  BY <1>2 DEF ClearDone
<1>3. CASE OutFull
  BY <1>3 DEF OutFull
<1>4. ASSUME NEW b \in Byte, OutTest(b) PROVE OutPublish \/ NoPublish
  BY <1>4 DEF OutTest
<1>5. CASE OutStore
  BY <1>5 DEF OutStore
<1>6. CASE OutPublish
  BY <1>6 DEF OutPublish
<1>7. CASE OutNotify
  BY <1>7 DEF OutNotify
<1>8. ASSUME NEW t \in {"cpu", "clk"}, ServeBusy(t)
      PROVE  OutPublish \/ NoPublish
  BY <1>8 DEF ServeBusy
<1>9. ASSUME NEW t \in {"cpu", "clk"}, ServeRoom(t)
      PROVE  OutPublish \/ NoPublish
  BY <1>9 DEF ServeRoom
<1>10. ASSUME NEW t \in {"cpu", "clk"}, ServeReady(t)
      PROVE  OutPublish \/ NoPublish
  BY <1>10 DEF ServeReady
<1>11. ASSUME NEW t \in {"cpu", "clk"}, ServeIdle(t)
      PROVE  OutPublish \/ NoPublish
  BY <1>11 DEF ServeIdle
<1>12. ASSUME NEW t \in {"cpu", "clk"}, ServeDone(t)
      PROVE  OutPublish \/ NoPublish
  BY <1>12 DEF ServeDone
<1>13. CASE ResetInstruction
  BY <1>13 DEF ResetInstruction
<1>14. CASE HostReset
  BY <1>14 DEF HostReset
<1>15. CASE HostResetNotify
  BY <1>15 DEF HostResetNotify
<1>16. CASE HostResetWait
  BY <1>16 DEF HostResetWait
<1>17. CASE HostResetEnd
  BY <1>17 DEF HostResetEnd
<1>18. CASE UsbTop
  BY <1>18 DEF UsbTop
<1>19. CASE UsbClearLoad
  BY <1>19 DEF UsbClearLoad
<1>20. CASE UsbClearStore
  BY <1>20 DEF UsbClearStore
<1>21. CASE UsbAnswer
  BY <1>21 DEF UsbAnswer
<1>22. CASE UsbPeek
  BY <1>22 DEF UsbPeek
<1>23. CASE UsbEmpty
  BY <1>23 DEF UsbEmpty
<1>24. ASSUME NEW n \in 1 .. run, UsbWrite(n) PROVE OutPublish \/ NoPublish
  BY <1>24 DEF UsbWrite
<1>25. CASE UsbBlocked
  BY <1>25 DEF UsbBlocked
<1>26. CASE UsbConsume
  BY <1>26 DEF UsbConsume
<1>27. CASE UsbWake
  BY <1>27 DEF UsbWake
<1>28. CASE UNCHANGED vars
  BY <1>28 DEF vars, codeVars, fifoVars, txVars, guestVars, usbVars
<1> QED
  BY <1>1, <1>2, <1>3, <1>4, <1>5, <1>6, <1>7, <1>8, <1>9, <1>10, <1>11,
     <1>12, <1>13, <1>14, <1>15, <1>16, <1>17, <1>18, <1>19, <1>20,
     <1>21, <1>22, <1>23, <1>24, <1>25, <1>26, <1>27, <1>28,
     StepKinds, StepActions

LEMMA RingKinds ==
  ASSUME [Next]_vars
  PROVE  [FifoNext]_fifoVars \/ UsbBlocked
BY RingSteps DEF OutPublish, NoPublish, FifoNext, Producer

LEMMA RingInv == ASSUME FifoInv, [Next]_vars PROVE FifoInv'
BY RingKinds, FifoInvStep, BlockedKeepsRing

LEMMA CountRange == ASSUME FifoInv PROVE Count \in 0 .. Size - 1
BY DistanceRange DEF FifoInv, FifoTypeOK, Count

LEMMA CountRangeNext ==
  ASSUME FifoInv, [Next]_vars
  PROVE  Count \in 0 .. Size - 1 /\ Count' \in 0 .. Size - 1
<1>1. FifoInv'
  BY RingInv
<1> QED
  BY <1>1, CountRange, DistanceRange DEF FifoInv, FifoTypeOK, Count

(* Only the publication of a byte makes the ring fuller, by one.           *)
LEMMA PublishCount ==
  ASSUME FifoInv, PushPublish
  PROVE  Count' = Count + 1
BY DistanceHead DEF PushPublish, FifoInv, FifoTypeOK, RoomKept, Count

LEMMA ClearCount ==
  ASSUME FifoInv, ClearStore
  PROVE  Count' = Count - run
BY CountRange, DistanceTail
   DEF ClearStore, FifoInv, FifoTypeOK, ReadStable, Count

LEMMA NoPublishCount ==
  ASSUME FifoInv, NoPublish
  PROVE  Count' <= Count
<1>0. /\ Count \in 0 .. Size - 1 /\ head \in Cursor /\ tail \in Cursor
      /\ run \in 0 .. Count
  BY CountRange DEF FifoInv, FifoTypeOK, ReadStable
<1>1. CASE Consume \/ ClearStore
  <2>1. Count' = Count - run
    BY <1>0, <1>1, DistanceTail DEF Consume, ClearStore, Count
  <2> QED
    BY <1>0, <2>1
<1>2. CASE \/ \E b \in Byte : PushTest(b)
           \/ PushFull \/ PushStore \/ Peek \/ \E n \in 1 .. run : Read(n)
           \/ ClearLoad \/ UNCHANGED fifoVars \/ UsbBlocked
  <2>1. Count' = Count
    BY <1>2 DEF PushTest, PushFull, PushStore, Peek, Read, ClearLoad,
                fifoVars, UsbBlocked, Count
  <2> QED
    BY <1>0, <2>1
<1> QED
  BY <1>1, <1>2 DEF NoPublish, Consumer

-----------------------------------------------------------------------------
(***************************************************************************)
(* The emulator's reset.                                                   *)
(***************************************************************************)
LEMMA AskedStep ==
  ASSUME Places, Asked, [Next]_vars
  PROVE  Asked'
<1> USE DEF Asked, Asking, Places, CpuPlace, ClkPlace, UsbPlace, Task, Goto,
        NextByte, usbVars, guestVars
<1>1. CASE WriteTPB
  BY <1>1 DEF WriteTPB
<1>2. CASE ClearDone
  BY <1>2 DEF ClearDone
<1>3. CASE OutFull
  BY <1>3 DEF OutFull
<1>4. ASSUME NEW b \in Byte, OutTest(b) PROVE Asked'
  BY <1>4 DEF OutTest
<1>5. CASE OutStore
  BY <1>5 DEF OutStore
<1>6. CASE OutPublish
  BY <1>6 DEF OutPublish
<1>7. CASE OutNotify
  BY <1>7 DEF OutNotify
<1>8. ASSUME NEW t \in {"cpu", "clk"}, ServeBusy(t)
      PROVE  Asked'
  BY <1>8 DEF ServeBusy
<1>9. ASSUME NEW t \in {"cpu", "clk"}, ServeRoom(t)
      PROVE  Asked'
  BY <1>9 DEF ServeRoom
<1>10. ASSUME NEW t \in {"cpu", "clk"}, ServeReady(t)
      PROVE  Asked'
  BY <1>10 DEF ServeReady
<1>11. ASSUME NEW t \in {"cpu", "clk"}, ServeIdle(t)
      PROVE  Asked'
  BY <1>11 DEF ServeIdle
<1>12. ASSUME NEW t \in {"cpu", "clk"}, ServeDone(t)
      PROVE  Asked'
  BY <1>12 DEF ServeDone
<1>13. CASE ResetInstruction
  BY <1>13 DEF ResetInstruction
<1>14. CASE HostReset
  BY <1>14 DEF HostReset
<1>15. CASE HostResetNotify
  BY <1>15 DEF HostResetNotify
<1>16. CASE HostResetWait
  BY <1>16 DEF HostResetWait
<1>17. CASE HostResetEnd
  BY <1>17 DEF HostResetEnd
<1>18. CASE UsbTop
  BY <1>18 DEF UsbTop
<1>19. CASE UsbClearLoad
  BY <1>19 DEF UsbClearLoad
<1>20. CASE UsbClearStore
  BY <1>20 DEF UsbClearStore
<1>21. CASE UsbAnswer
  BY <1>21 DEF UsbAnswer
<1>22. CASE UsbPeek
  BY <1>22 DEF UsbPeek
<1>23. CASE UsbEmpty
  BY <1>23 DEF UsbEmpty
<1>24. ASSUME NEW n \in 1 .. run, UsbWrite(n) PROVE Asked'
  BY <1>24 DEF UsbWrite
<1>25. CASE UsbBlocked
  BY <1>25 DEF UsbBlocked
<1>26. CASE UsbConsume
  BY <1>26 DEF UsbConsume
<1>27. CASE UsbWake
  BY <1>27 DEF UsbWake
<1>28. CASE UNCHANGED vars
  BY <1>28 DEF vars, codeVars, fifoVars, txVars, guestVars, usbVars
<1> QED
  BY <1>1, <1>2, <1>3, <1>4, <1>5, <1>6, <1>7, <1>8, <1>9, <1>10, <1>11,
     <1>12, <1>13, <1>14, <1>15, <1>16, <1>17, <1>18, <1>19, <1>20,
     <1>21, <1>22, <1>23, <1>24, <1>25, <1>26, <1>27, <1>28,
     StepKinds, StepActions

LEMMA ClearedStep ==
  ASSUME FifoInv, Places, Asked, Cleared, [Next]_vars
  PROVE  Cleared'
<1> USE DEF Cleared, Asked, Asking, Places, CpuPlace, ClkPlace, UsbPlace,
        Task, Goto, NextByte, usbVars, guestVars
<1>0. UNCHANGED fifoVars => UNCHANGED <<rpc, run, Count>>
  BY DEF fifoVars, readerVars, Count
<1>1. CASE WriteTPB
  BY <1>1, <1>0 DEF WriteTPB
<1>2. CASE ClearDone
  BY <1>2, <1>0 DEF ClearDone
<1>3. CASE OutFull
  BY <1>3 DEF OutFull
<1>4. ASSUME NEW b \in Byte, OutTest(b) PROVE Cleared'
  BY <1>4 DEF OutTest
<1>5. CASE OutStore
  BY <1>5 DEF OutStore
<1>6. CASE OutPublish
  BY <1>6 DEF OutPublish
<1>7. CASE OutNotify
  BY <1>7, <1>0 DEF OutNotify
<1>8. ASSUME NEW t \in {"cpu", "clk"}, ServeBusy(t)
      PROVE  Cleared'
  BY <1>8, <1>0 DEF ServeBusy
<1>9. ASSUME NEW t \in {"cpu", "clk"}, ServeRoom(t)
      PROVE  Cleared'
  BY <1>9, <1>0 DEF ServeRoom
<1>10. ASSUME NEW t \in {"cpu", "clk"}, ServeReady(t)
      PROVE  Cleared'
  BY <1>10, <1>0 DEF ServeReady
<1>11. ASSUME NEW t \in {"cpu", "clk"}, ServeIdle(t)
      PROVE  Cleared'
  BY <1>11, <1>0 DEF ServeIdle
<1>12. ASSUME NEW t \in {"cpu", "clk"}, ServeDone(t)
      PROVE  Cleared'
  BY <1>12, <1>0 DEF ServeDone
<1>13. CASE ResetInstruction
  BY <1>13, <1>0 DEF ResetInstruction
<1>14. CASE HostReset
  BY <1>14, <1>0 DEF HostReset
<1>15. CASE HostResetNotify
  BY <1>15, <1>0 DEF HostResetNotify
<1>16. CASE HostResetWait
  BY <1>16, <1>0 DEF HostResetWait
<1>17. CASE HostResetEnd
  BY <1>17, <1>0 DEF HostResetEnd
<1>18. CASE UsbTop
  BY <1>18, <1>0 DEF UsbTop
<1>19. CASE UsbClearLoad
  <2>1. run' = Count /\ rpc' = "clear" /\ Count' = Count
    BY <1>19 DEF UsbClearLoad, ClearLoad, Count
  <2> QED
    BY <1>19, <2>1 DEF UsbClearLoad
<1>20. CASE UsbClearStore
  BY <1>20 DEF UsbClearStore
<1>21. CASE UsbAnswer
  BY <1>21, <1>0 DEF UsbAnswer
<1>22. CASE UsbPeek
  BY <1>22 DEF UsbPeek
<1>23. CASE UsbEmpty
  BY <1>23, <1>0 DEF UsbEmpty
<1>24. ASSUME NEW n \in 1 .. run, UsbWrite(n) PROVE Cleared'
  BY <1>24 DEF UsbWrite
<1>25. CASE UsbBlocked
  BY <1>25 DEF UsbBlocked
<1>26. CASE UsbConsume
  BY <1>26 DEF UsbConsume
<1>27. CASE UsbWake
  BY <1>27, <1>0 DEF UsbWake
<1>28. CASE UNCHANGED vars
  <2>1. UNCHANGED <<fifoVars, pc>>
    BY <1>28 DEF vars, codeVars
  <2> QED
    BY <1>0, <2>1
<1> QED
  BY <1>1, <1>2, <1>3, <1>4, <1>5, <1>6, <1>7, <1>8, <1>9, <1>10, <1>11,
     <1>12, <1>13, <1>14, <1>15, <1>16, <1>17, <1>18, <1>19, <1>20,
     <1>21, <1>22, <1>23, <1>24, <1>25, <1>26, <1>27, <1>28,
     StepKinds, StepActions

(* A ring found empty stays so until the guest publishes a byte again.     *)
LEMMA EmptyKept ==
  ASSUME FifoInv, [Next]_vars, Count = 0
  PROVE  OutPublish \/ Count' = 0
BY RingSteps, NoPublishCount, CountRangeNext, FifoAssumption

LEMMA ClearEmpties ==
  ASSUME FifoInv, ClearStore, run = Count
  PROVE  Count' = 0
BY ClearCount, CountRange

LEMMA EmptiedStep ==
  ASSUME FifoInv, Places, Asked, Cleared, Emptied, [Next]_vars
  PROVE  Emptied'
<1> USE DEF Emptied, Asked, Asking, Places, CpuPlace, ClkPlace, UsbPlace,
        Task, Goto, NextByte, usbVars, guestVars
<1>0. Count = 0 => OutPublish \/ Count' = 0
  BY EmptyKept
<1>1. CASE WriteTPB
  BY <1>1, <1>0 DEF WriteTPB, OutPublish
<1>2. CASE ClearDone
  BY <1>2, <1>0 DEF ClearDone, OutPublish
<1>3. CASE OutFull
  BY <1>3, <1>0 DEF OutFull, OutPublish
<1>4. ASSUME NEW b \in Byte, OutTest(b) PROVE Emptied'
  BY <1>4, <1>0 DEF OutTest, OutPublish
<1>5. CASE OutStore
  BY <1>5, <1>0 DEF OutStore, OutPublish
<1>6. CASE OutPublish
  BY <1>6 DEF OutPublish
<1>7. CASE OutNotify
  BY <1>7, <1>0 DEF OutNotify, OutPublish
<1>8. ASSUME NEW t \in {"cpu", "clk"}, ServeBusy(t)
      PROVE  Emptied'
  BY <1>8, <1>0 DEF ServeBusy, OutPublish
<1>9. ASSUME NEW t \in {"cpu", "clk"}, ServeRoom(t)
      PROVE  Emptied'
  BY <1>9, <1>0 DEF ServeRoom, OutPublish
<1>10. ASSUME NEW t \in {"cpu", "clk"}, ServeReady(t)
      PROVE  Emptied'
  BY <1>10, <1>0 DEF ServeReady, OutPublish
<1>11. ASSUME NEW t \in {"cpu", "clk"}, ServeIdle(t)
      PROVE  Emptied'
  BY <1>11, <1>0 DEF ServeIdle, OutPublish
<1>12. ASSUME NEW t \in {"cpu", "clk"}, ServeDone(t)
      PROVE  Emptied'
  BY <1>12, <1>0 DEF ServeDone, OutPublish
<1>13. CASE ResetInstruction
  BY <1>13, <1>0 DEF ResetInstruction, OutPublish
<1>14. CASE HostReset
  BY <1>14, <1>0 DEF HostReset, OutPublish
<1>15. CASE HostResetNotify
  BY <1>15, <1>0 DEF HostResetNotify, OutPublish
<1>16. CASE HostResetWait
  BY <1>16, <1>0 DEF HostResetWait, OutPublish
<1>17. CASE HostResetEnd
  BY <1>17, <1>0 DEF HostResetEnd, OutPublish
<1>18. CASE UsbTop
  BY <1>18, <1>0 DEF UsbTop, OutPublish
<1>19. CASE UsbClearLoad
  BY <1>19, <1>0 DEF UsbClearLoad, OutPublish
<1>20. CASE UsbClearStore
  <2>1. pc["usbout"] = "discarded" => Count' = 0
    BY <1>20, ClearEmpties DEF UsbClearStore, Cleared
  <2> QED
    BY <1>20, <1>0, <2>1 DEF UsbClearStore, OutPublish
<1>21. CASE UsbAnswer
  BY <1>21, <1>0 DEF UsbAnswer, OutPublish
<1>22. CASE UsbPeek
  BY <1>22, <1>0 DEF UsbPeek, OutPublish
<1>23. CASE UsbEmpty
  BY <1>23, <1>0 DEF UsbEmpty, OutPublish
<1>24. ASSUME NEW n \in 1 .. run, UsbWrite(n) PROVE Emptied'
  BY <1>24, <1>0 DEF UsbWrite, OutPublish
<1>25. CASE UsbBlocked
  BY <1>25, <1>0 DEF UsbBlocked, OutPublish
<1>26. CASE UsbConsume
  BY <1>26, <1>0 DEF UsbConsume, OutPublish
<1>27. CASE UsbWake
  BY <1>27, <1>0 DEF UsbWake, OutPublish
<1>28. CASE UNCHANGED vars
  <2>1. UNCHANGED <<Count, pc, resetReq>>
    BY <1>28 DEF vars, codeVars, fifoVars, Count
  <2> QED
    BY <2>1
<1> QED
  BY <1>1, <1>2, <1>3, <1>4, <1>5, <1>6, <1>7, <1>8, <1>9, <1>10, <1>11,
     <1>12, <1>13, <1>14, <1>15, <1>16, <1>17, <1>18, <1>19, <1>20,
     <1>21, <1>22, <1>23, <1>24, <1>25, <1>26, <1>27, <1>28,
     StepKinds, StepActions

-----------------------------------------------------------------------------
(***************************************************************************)
(* Backpressure, while the history is calm.                                *)
(***************************************************************************)
LEMMA TasksStep ==
  ASSUME Types, Places, Tasks, [Next]_vars
  PROVE  Tasks'
<1> SUFFICES ASSUME calm' PROVE Tasks'
  BY DEF Tasks
<1>a. calm /\ Calm /\ Calm' /\ (Step \/ UNCHANGED vars)
  BY CalmStep DEF Types, Tasks
<1> USE <1>a DEF Tasks, Calm, Pushing, Places, CpuPlace, ClkPlace, UsbPlace,
        Task, Goto, NextByte, txVars
<1>1. CASE WriteTPB
  BY <1>1 DEF WriteTPB
<1>2. CASE ClearDone
  BY <1>2 DEF ClearDone
<1>3. CASE OutFull
  BY <1>3 DEF OutFull
<1>4. ASSUME NEW b \in Byte, OutTest(b) PROVE Tasks'
  BY <1>4 DEF OutTest
<1>5. CASE OutStore
  BY <1>5 DEF OutStore
<1>6. CASE OutPublish
  BY <1>6 DEF OutPublish
<1>7. CASE OutNotify
  BY <1>7 DEF OutNotify
<1>8. ASSUME NEW t \in {"cpu", "clk"}, ServeBusy(t)
      PROVE  Tasks'
  BY <1>8 DEF ServeBusy
<1>9. ASSUME NEW t \in {"cpu", "clk"}, ServeRoom(t)
      PROVE  Tasks'
  BY <1>9 DEF ServeRoom
<1>10. ASSUME NEW t \in {"cpu", "clk"}, ServeReady(t)
      PROVE  Tasks'
  BY <1>10 DEF ServeReady
<1>11. ASSUME NEW t \in {"cpu", "clk"}, ServeIdle(t)
      PROVE  Tasks'
  BY <1>11 DEF ServeIdle
<1>12. ASSUME NEW t \in {"cpu", "clk"}, ServeDone(t)
      PROVE  Tasks'
  BY <1>12 DEF ServeDone
<1>13. CASE HostReset
  BY <1>13 DEF HostReset
<1>14. CASE HostResetNotify
  BY <1>14 DEF HostResetNotify
<1>15. CASE HostResetWait
  BY <1>15 DEF HostResetWait
<1>16. CASE HostResetEnd
  BY <1>16 DEF HostResetEnd
<1>17. CASE UsbTop
  BY <1>17 DEF UsbTop
<1>18. CASE UsbClearLoad
  BY <1>18 DEF UsbClearLoad
<1>19. CASE UsbClearStore
  BY <1>19 DEF UsbClearStore
<1>20. CASE UsbAnswer
  BY <1>20 DEF UsbAnswer
<1>21. CASE UsbPeek
  BY <1>21 DEF UsbPeek
<1>22. CASE UsbEmpty
  BY <1>22 DEF UsbEmpty
<1>23. ASSUME NEW n \in 1 .. run, UsbWrite(n) PROVE Tasks'
  BY <1>23 DEF UsbWrite
<1>24. CASE UsbBlocked
  BY <1>24 DEF UsbBlocked
<1>25. CASE UsbConsume
  BY <1>25 DEF UsbConsume
<1>26. CASE UsbWake
  BY <1>26 DEF UsbWake
<1>27. CASE UNCHANGED vars
  BY <1>27 DEF vars, codeVars, fifoVars, txVars, guestVars, usbVars
<1> QED
  BY <1>1, <1>2, <1>3, <1>4, <1>5, <1>6, <1>7, <1>8, <1>9, <1>10, <1>11,
     <1>12, <1>13, <1>14, <1>15, <1>16, <1>17, <1>18, <1>19, <1>20,
     <1>21, <1>22, <1>23, <1>24, <1>25, <1>26, <1>27, CalmStep,
     StepActions

LEMMA FreeRange ==
  ASSUME FifoInv, [Next]_vars
  PROVE  /\ Free \in Nat /\ Free' \in Nat
         /\ Free' >= Free \/ (OutPublish /\ Free' = Free - 1)
         /\ Count = 0 => Room
<1>1. Count \in 0 .. Size - 1 /\ Count' \in 0 .. Size - 1
  BY CountRangeNext
<1>2. Count' <= Count \/ (OutPublish /\ Count' = Count + 1)
  <2>1. OutPublish => Count' = Count + 1
    BY PublishCount DEF OutPublish
  <2>2. NoPublish => Count' <= Count
    BY NoPublishCount
  <2>3. OutPublish \/ NoPublish
    BY RingSteps
  <2> QED
    BY ONLY <2>1, <2>2, <2>3
<1>3. Reserve <= Size - 1 /\ Reserve \in Nat /\ Size \in Nat
  BY FifoAssumption, OutputAssumption
<1>4. Free = Size - 1 - Count /\ Free' = Size - 1 - Count'
  BY DEF Free
<1>a. /\ Count \in Int /\ 0 <= Count /\ Count <= Size - 1
      /\ Count' \in Int /\ 0 <= Count' /\ Count' <= Size - 1
      /\ Size - 1 \in Int
  BY <1>1, <1>3
<1>5. /\ Free \in Int /\ 0 <= Free
      /\ Free' \in Int /\ 0 <= Free'
  BY <1>a, <1>4
<1>6. Count' <= Count => Free' >= Free
  BY <1>a, <1>4
<1>7. Count' = Count + 1 => Free' = Free - 1
  BY <1>a, <1>4
<1>8. Count = 0 => Room
  BY <1>3, <1>4 DEF Room
<1> QED
  BY <1>2, <1>5, <1>6, <1>7, <1>8

(* Room outlasts every step but the publication of a byte.                 *)
LEMMA RoomKeptOn ==
  ASSUME FifoInv, [Next]_vars, Room
  PROVE  OutPublish \/ Room'
<1>1. Reserve \in Nat
  BY OutputAssumption
<1> QED
  BY <1>1, FreeRange DEF Room

(* A push on a ring with a slot for it is not refused.                     *)
LEMMA NotFull ==
  ASSUME FifoInv, PushFull
  PROVE  Free = 0
<1>1. Count = Size - 1
  BY DistanceHead DEF PushFull, FifoInv, FifoTypeOK, Count
<1> QED
  BY <1>1, FifoAssumption DEF Free

LEMMA DoneRoomStep ==
  ASSUME FifoInv, Types, Places, Emptied, Tasks, DoneRoom, [Next]_vars
  PROVE  DoneRoom'
<1> SUFFICES ASSUME calm' PROVE DoneRoom'
  BY DEF DoneRoom
<1>a. /\ calm /\ Calm /\ Calm' /\ (Step \/ UNCHANGED vars)
  BY CalmStep DEF Types, Tasks
<1>b. Room => OutPublish \/ Room'
  BY RoomKeptOn
<1> USE <1>a DEF DoneRoom, Tasks, Calm, Pushing, Places, CpuPlace, ClkPlace,
        UsbPlace, Task, Goto, NextByte, txVars
<1>1. CASE WriteTPB
  BY <1>1, <1>b DEF WriteTPB, OutPublish
<1>2. CASE ClearDone
  BY <1>2, <1>b DEF ClearDone, OutPublish
<1>3. CASE OutFull
  BY <1>3, <1>b DEF OutFull, OutPublish
<1>4. ASSUME NEW b \in Byte, OutTest(b) PROVE DoneRoom'
  BY <1>4, <1>b DEF OutTest, OutPublish
<1>5. CASE OutStore
  BY <1>5, <1>b DEF OutStore, OutPublish
<1>6. CASE OutPublish
  BY <1>6 DEF OutPublish
<1>7. CASE OutNotify
  BY <1>7, <1>b DEF OutNotify, OutPublish
<1>8. ASSUME NEW t \in {"cpu", "clk"}, ServeBusy(t)
      PROVE  DoneRoom'
  BY <1>8, <1>b DEF ServeBusy, OutPublish
<1>9. ASSUME NEW t \in {"cpu", "clk"}, ServeRoom(t)
      PROVE  DoneRoom'
  <2>1. Free >= Reserve => Room'
    BY <1>9, <1>b DEF ServeRoom, OutPublish, Room
  <2> QED
    BY <1>9, <1>b, <2>1 DEF ServeRoom, OutPublish
<1>10. ASSUME NEW t \in {"cpu", "clk"}, ServeReady(t)
      PROVE  DoneRoom'
  BY <1>10, <1>b DEF ServeReady, OutPublish
<1>11. ASSUME NEW t \in {"cpu", "clk"}, ServeIdle(t)
      PROVE  DoneRoom'
  BY <1>11, <1>b DEF ServeIdle, OutPublish
<1>12. ASSUME NEW t \in {"cpu", "clk"}, ServeDone(t)
      PROVE  DoneRoom'
  BY <1>12, <1>b DEF ServeDone, OutPublish
<1>13. CASE HostReset
  BY <1>13, <1>b DEF HostReset, OutPublish
<1>14. CASE HostResetNotify
  BY <1>14, <1>b DEF HostResetNotify, OutPublish
<1>15. CASE HostResetWait
  BY <1>15, <1>b DEF HostResetWait, OutPublish
<1>16. CASE HostResetEnd
  <2>1. Room
    BY <1>16, FreeRange DEF HostResetEnd, Emptied
  <2> QED
    BY <1>16, <1>b, <2>1 DEF HostResetEnd, OutPublish
<1>17. CASE UsbTop
  BY <1>17, <1>b DEF UsbTop, OutPublish
<1>18. CASE UsbClearLoad
  BY <1>18, <1>b DEF UsbClearLoad, OutPublish
<1>19. CASE UsbClearStore
  BY <1>19, <1>b DEF UsbClearStore, OutPublish
<1>20. CASE UsbAnswer
  BY <1>20, <1>b DEF UsbAnswer, OutPublish
<1>21. CASE UsbPeek
  BY <1>21, <1>b DEF UsbPeek, OutPublish
<1>22. CASE UsbEmpty
  BY <1>22, <1>b DEF UsbEmpty, OutPublish
<1>23. ASSUME NEW n \in 1 .. run, UsbWrite(n) PROVE DoneRoom'
  BY <1>23, <1>b DEF UsbWrite, OutPublish
<1>24. CASE UsbBlocked
  BY <1>24, <1>b DEF UsbBlocked, OutPublish
<1>25. CASE UsbConsume
  BY <1>25, <1>b DEF UsbConsume, OutPublish
<1>26. CASE UsbWake
  BY <1>26, <1>b DEF UsbWake, OutPublish
<1>27. CASE UNCHANGED vars
  <2>1. UNCHANGED <<Room, done, pc>>
    BY <1>27 DEF vars, codeVars, txVars, fifoVars, Room, Free, Count
  <2> QED
    BY <2>1
<1> QED
  BY <1>1, <1>2, <1>3, <1>4, <1>5, <1>6, <1>7, <1>8, <1>9, <1>10, <1>11,
     <1>12, <1>13, <1>14, <1>15, <1>16, <1>17, <1>18, <1>19, <1>20,
     <1>21, <1>22, <1>23, <1>24, <1>25, <1>26, <1>27, CalmStep,
     StepActions

LEMMA FitsStep ==
  ASSUME FifoInv, Types, Places, Todo, Tasks, DoneRoom, Fits, [Next]_vars
  PROVE  Fits'
<1> SUFFICES ASSUME calm' PROVE Fits'
  BY DEF Fits
<1>a. /\ calm /\ Calm /\ Calm' /\ (Step \/ UNCHANGED vars)
  BY CalmStep DEF Types, Tasks
<1>b. /\ Free \in Nat /\ Free' \in Nat
      /\ Free' >= Free \/ (OutPublish /\ Free' = Free - 1)
  BY FreeRange
<1>c. todo \in Nat /\ (pc["cpu"] \in Pushing => todo >= 1)
  BY OutputAssumption DEF Todo
<1>d. pc["cpu"] \in {"push", "store", "publish", "notify"} \/ ~OutPublish
  BY DEF OutPublish
<1> USE <1>a DEF Fits, Pushing, Places, CpuPlace, ClkPlace, UsbPlace, Task,
        Goto, NextByte, guestVars
<1>1. CASE WriteTPB
  BY <1>1, <1>b, <1>c DEF WriteTPB, OutPublish
<1>2. CASE ClearDone
  <2>1. todo' <= Free
    BY <1>2, <1>a, <1>b, OutputAssumption DEF ClearDone, DoneRoom, Tasks, Room
  <2>2. Free' >= Free /\ dropped' = dropped /\ todo' \in Nat
    BY <1>2, <1>b, OutputAssumption DEF ClearDone, OutPublish
  <2> QED
    BY <1>2, <1>b, <2>1, <2>2 DEF ClearDone
<1>3. CASE OutFull
  <2>1. Free = 0 /\ todo <= Free /\ todo >= 1
    BY <1>3, <1>c, NotFull DEF OutFull
  <2> QED
    BY <1>c, <2>1
<1>4. ASSUME NEW b \in Byte, OutTest(b) PROVE Fits'
  BY <1>4, <1>b, <1>c DEF OutTest, OutPublish
<1>5. CASE OutStore
  BY <1>5, <1>b, <1>c DEF OutStore, OutPublish
<1>6. CASE OutPublish
  BY <1>6, <1>b, <1>c DEF OutPublish, OutPublish
<1>7. CASE OutNotify
  BY <1>7, <1>b, <1>c DEF OutNotify, OutPublish
<1>8. ASSUME NEW t \in {"cpu", "clk"}, ServeBusy(t)
      PROVE  Fits'
  BY <1>8, <1>b, <1>c DEF ServeBusy, OutPublish
<1>9. ASSUME NEW t \in {"cpu", "clk"}, ServeRoom(t)
      PROVE  Fits'
  BY <1>9, <1>b, <1>c DEF ServeRoom, OutPublish
<1>10. ASSUME NEW t \in {"cpu", "clk"}, ServeReady(t)
      PROVE  Fits'
  BY <1>10, <1>b, <1>c DEF ServeReady, OutPublish
<1>11. ASSUME NEW t \in {"cpu", "clk"}, ServeIdle(t)
      PROVE  Fits'
  BY <1>11, <1>b, <1>c DEF ServeIdle, OutPublish
<1>12. ASSUME NEW t \in {"cpu", "clk"}, ServeDone(t)
      PROVE  Fits'
  BY <1>12, <1>b, <1>c DEF ServeDone, OutPublish
<1>13. CASE HostReset
  BY <1>13, <1>b, <1>c DEF HostReset, OutPublish
<1>14. CASE HostResetNotify
  BY <1>14, <1>b, <1>c DEF HostResetNotify, OutPublish
<1>15. CASE HostResetWait
  BY <1>15, <1>b, <1>c DEF HostResetWait, OutPublish
<1>16. CASE HostResetEnd
  BY <1>16, <1>b, <1>c DEF HostResetEnd, OutPublish
<1>17. CASE UsbTop
  BY <1>17, <1>b, <1>c DEF UsbTop, OutPublish
<1>18. CASE UsbClearLoad
  BY <1>18, <1>b, <1>c DEF UsbClearLoad, OutPublish
<1>19. CASE UsbClearStore
  BY <1>19, <1>b, <1>c DEF UsbClearStore, OutPublish
<1>20. CASE UsbAnswer
  BY <1>20, <1>b, <1>c DEF UsbAnswer, OutPublish
<1>21. CASE UsbPeek
  BY <1>21, <1>b, <1>c DEF UsbPeek, OutPublish
<1>22. CASE UsbEmpty
  BY <1>22, <1>b, <1>c DEF UsbEmpty, OutPublish
<1>23. ASSUME NEW n \in 1 .. run, UsbWrite(n) PROVE Fits'
  BY <1>23, <1>b, <1>c DEF UsbWrite, OutPublish
<1>24. CASE UsbBlocked
  BY <1>24, <1>b, <1>c DEF UsbBlocked, OutPublish
<1>25. CASE UsbConsume
  BY <1>25, <1>b, <1>c DEF UsbConsume, OutPublish
<1>26. CASE UsbWake
  BY <1>26, <1>b, <1>c DEF UsbWake, OutPublish
<1>27. CASE UNCHANGED vars
  <2>1. UNCHANGED <<Free, todo, dropped, pc>>
    BY <1>27 DEF vars, codeVars, guestVars, fifoVars, Free, Count
  <2> QED
    BY <2>1
<1> QED
  BY <1>1, <1>2, <1>3, <1>4, <1>5, <1>6, <1>7, <1>8, <1>9, <1>10, <1>11,
     <1>12, <1>13, <1>14, <1>15, <1>16, <1>17, <1>18, <1>19, <1>20,
     <1>21, <1>22, <1>23, <1>24, <1>25, <1>26, <1>27, CalmStep,
     StepActions

(* Whoever sets DONE has looked at the room, or has just had the ring      *)
(* emptied.                                                                *)
LEMMA DoneRises ==
  ASSUME Inv, [Next]_vars, calm', ~done, done'
  PROVE  Room
<1>a. calm /\ Calm' /\ (Step \/ UNCHANGED vars)
  BY CalmStep DEF Inv, Types, Tasks
<1> USE <1>a DEF Inv, DoneRoom, Tasks, txVars
<1>1. CASE WriteTPB
  BY <1>1 DEF WriteTPB
<1>2. CASE ClearDone
  BY <1>2 DEF ClearDone
<1>3. CASE OutFull
  BY <1>3 DEF OutFull
<1>4. ASSUME NEW b \in Byte, OutTest(b) PROVE Room
  BY <1>4 DEF OutTest
<1>5. CASE OutStore
  BY <1>5 DEF OutStore
<1>6. CASE OutPublish
  BY <1>6 DEF OutPublish
<1>7. CASE OutNotify
  BY <1>7 DEF OutNotify
<1>8. ASSUME NEW t \in {"cpu", "clk"}, ServeBusy(t)
      PROVE  Room
  BY <1>8 DEF ServeBusy
<1>9. ASSUME NEW t \in {"cpu", "clk"}, ServeRoom(t)
      PROVE  Room
  BY <1>9 DEF ServeRoom
<1>10. ASSUME NEW t \in {"cpu", "clk"}, ServeReady(t)
      PROVE  Room
  BY <1>10 DEF ServeReady
<1>11. ASSUME NEW t \in {"cpu", "clk"}, ServeIdle(t)
      PROVE  Room
  BY <1>11 DEF ServeIdle
<1>12. ASSUME NEW t \in {"cpu", "clk"}, ServeDone(t)
      PROVE  Room
  BY <1>12 DEF ServeDone, DoneRoom, Tasks
<1>13. CASE HostReset
  BY <1>13 DEF HostReset
<1>14. CASE HostResetNotify
  BY <1>14 DEF HostResetNotify
<1>15. CASE HostResetWait
  BY <1>15 DEF HostResetWait
<1>16. CASE HostResetEnd
  BY <1>16, FreeRange DEF HostResetEnd, Emptied
<1>17. CASE UsbTop
  BY <1>17 DEF UsbTop
<1>18. CASE UsbClearLoad
  BY <1>18 DEF UsbClearLoad
<1>19. CASE UsbClearStore
  BY <1>19 DEF UsbClearStore
<1>20. CASE UsbAnswer
  BY <1>20 DEF UsbAnswer
<1>21. CASE UsbPeek
  BY <1>21 DEF UsbPeek
<1>22. CASE UsbEmpty
  BY <1>22 DEF UsbEmpty
<1>23. ASSUME NEW n \in 1 .. run, UsbWrite(n) PROVE Room
  BY <1>23 DEF UsbWrite
<1>24. CASE UsbBlocked
  BY <1>24 DEF UsbBlocked
<1>25. CASE UsbConsume
  BY <1>25 DEF UsbConsume
<1>26. CASE UsbWake
  BY <1>26 DEF UsbWake
<1>27. CASE UNCHANGED vars
  BY <1>27 DEF vars, codeVars, fifoVars, txVars, guestVars, usbVars
<1> QED
  BY <1>1, <1>2, <1>3, <1>4, <1>5, <1>6, <1>7, <1>8, <1>9, <1>10, <1>11,
     <1>12, <1>13, <1>14, <1>15, <1>16, <1>17, <1>18, <1>19, <1>20,
     <1>21, <1>22, <1>23, <1>24, <1>25, <1>26, <1>27, CalmStep,
     StepActions

-----------------------------------------------------------------------------
LEMMA InvInit == Init => Inv
<1> SUFFICES ASSUME Init PROVE Inv
  OBVIOUS
<1>1. FifoInv
  BY FifoInvInit DEF Init
<1>2. Count = 0 /\ Room
  <2>1. Count = 0
    BY DEF Init, FifoInit, Count, Distance
  <2> QED
    BY <2>1, FifoAssumption, OutputAssumption DEF Free, Room
<1>3. /\ pc["cpu"] = "home" /\ pc["clk"] = "home" /\ pc["usbout"] = "top"
      /\ Places
  BY DEF Init, Places, CpuPlace, ClkPlace, UsbPlace, Task
<1>4. Types /\ Todo
  <2>1. Types
    BY DEF Init, Types
  <2>2. Todo
    BY <1>3, OutputAssumption DEF Init, Todo, Pushing
  <2> QED
    BY <2>1, <2>2
<1>5. Asked /\ Cleared /\ Emptied
  BY <1>2, <1>3 DEF Init, Asked, Asking, Cleared, Emptied
<1>6. Tasks /\ DoneRoom /\ Fits
  BY <1>2, <1>3 DEF Init, Tasks, DoneRoom, Fits, Calm, Pushing
<1> QED
  BY <1>1, <1>3, <1>4, <1>5, <1>6 DEF Inv

LEMMA InvStep == ASSUME Inv, [Next]_vars PROVE Inv'
<1>1. FifoInv' /\ Types' /\ Places' /\ Todo'
  BY RingInv, TypesStep, PlacesStep, TodoStep DEF Inv
<1>2. Asked' /\ Cleared' /\ Emptied'
  BY AskedStep, ClearedStep, EmptiedStep DEF Inv
<1>3. Tasks' /\ DoneRoom' /\ Fits'
  BY TasksStep, DoneRoomStep, FitsStep DEF Inv
<1> QED
  BY <1>1, <1>2, <1>3 DEF Inv

LEMMA Invariance == SafeSpec => []Inv
<1>1. Inv /\ [Next]_vars => Inv'
  BY InvStep
<1> QED
  BY <1>1, InvInit, PTL DEF SafeSpec

(***************************************************************************)
(* The ring's cursors, the registers of the transmitter and the places of  *)
(* the three tasks keep their types, whoever stops where.                  *)
(***************************************************************************)
THEOREM OutputTypes == SafeSpec => []TypeOK
<1>1. Inv => TypeOK
  BY DEF Inv, FifoInv, Types, Places, Todo, CpuPlace, UsbPlace, TypeOK
<1> QED
  BY <1>1, Invariance, PTL

(***************************************************************************)
(* queue_serial_out never drops a byte of a guest that waits for DONE,     *)
(* for every burst the reserve covers.                                     *)
(***************************************************************************)
THEOREM OutputNeverDropped == SafeSpec => []NothingDropped
<1>1. Inv => NothingDropped
  BY DEF Inv, Fits, NothingDropped
<1> QED
  BY <1>1, Invariance, PTL

(***************************************************************************)
(* When kl11::reset has its answer, the ring is empty, whatever usbout was *)
(* doing when it was asked.                                                *)
(***************************************************************************)
THEOREM ResetEmptiesOutput == SafeSpec => []ResetDiscards
<1>1. Inv => ResetDiscards
  BY DEF Inv, Emptied, ResetDiscards
<1> QED
  BY <1>1, Invariance, PTL

(***************************************************************************)
(* service_deferred and both resets set DONE only with the reserve free.   *)
(***************************************************************************)
THEOREM DoneHasRoom == SafeSpec => DoneMeansRoom
<1>1. Inv /\ Inv' /\ [Next]_vars
        => [calm' /\ ~done /\ done' => Free >= Reserve]_vars
  BY DoneRises DEF Room
<1> QED
  BY <1>1, Invariance, PTL DEF SafeSpec, DoneMeansRoom

(***************************************************************************)
(* The guest's pushes, usbout's reads and its clears use the ring as one   *)
(* producer and one consumer may: the console's ring is a byte channel.    *)
(***************************************************************************)
THEOREM ConsoleIsChannel == SafeSpec => OutputIsChannel
<1>1. Init => Channel!Init
  <2> SUFFICES ASSUME Init PROVE Channel!Init
    OBVIOUS
  <2>1. Count = 0
    BY DEF Init, FifoInit, Count, Distance
  <2>2. Contents = <<>>
    BY <2>1 DEF Contents
  <2> QED
    BY <2>2 DEF Init, FifoInit, Channel!Init
<1>2. Inv /\ Inv' /\ [Next]_vars => [Channel!Next]_<<Contents, out, accepted>>
  <2> SUFFICES ASSUME Inv, Inv', [Next]_vars
               PROVE  [Channel!Next]_<<Contents, out, accepted>>
    OBVIOUS
  <2>1. CASE [FifoNext]_fifoVars
    BY <2>1, FifoStepImplements DEF Inv
  <2>2. CASE UsbBlocked
    BY <2>2, BlockedKeepsRing DEF Inv
  <2> QED
    BY <2>1, <2>2, RingKinds
<1> QED
  BY <1>1, <1>2, Invariance, PTL
     DEF SafeSpec, OutputIsChannel, ImplementsChannel, Channel!Spec,
         Channel!channelVars

-----------------------------------------------------------------------------

(***************************************************************************)
(* The boot script.  A prompt is never missed if its first character does  *)
(* not come again in it, but perhaps at its end: a failed match begins     *)
(* again with the last character only.                                     *)
(***************************************************************************)
FirstOnce ==
  \A i \in 1 .. Len(Steps) : \A j \in 2 .. Len(Steps[i].expect) - 1 :
    Steps[i].expect[j] # Steps[i].expect[1]

Script == [step : 1 .. Len(Steps) + 1, match : Nat, pending : BOOLEAN,
           heard : Seq(Char)]

(* What is matched of the prompt was heard, and is not all of it; an       *)
(* answer is due when all of it was heard.                                 *)
Following(s) ==
  /\ s.pending => s.step > 1 /\ Ends(Steps[s.step - 1].expect, s.heard)
  /\ s.pending => s.match = 0
  /\ ~s.pending /\ Armed(s) =>
       LET prompt == Steps[s.step].expect
       IN  /\ prompt = <<>> => s.heard = <<>> /\ s.match = 0
           /\ prompt # <<>> => /\ s.match < Len(prompt)
                               /\ Shows(prompt, s.match, s.heard, Len(s.heard))

(* No more of the prompt was heard last than is matched, and all of it at  *)
(* no time.                                                                *)
Attentive(s) ==
  ~s.pending /\ Armed(s) =>
    LET prompt == Steps[s.step].expect
    IN  /\ \A k \in s.match + 1 .. Len(prompt) :
             ~Shows(prompt, k, s.heard, Len(s.heard))
        /\ ~Within(prompt, s.heard)

(* The number of answers typed. *)
Typed(s) == IF s.pending THEN s.step - 2 ELSE s.step - 1

Reliable(s, n) ==
  s \in Script /\ Following(s) /\ Typed(s) = n /\ (FirstOnce => Attentive(s))

(* One more character. *)
LEMMA ShowsNext ==
  ASSUME NEW x \in Seq(Char), NEW h \in Seq(Char), NEW c \in Char,
         NEW k \in 1 .. Len(x)
  PROVE  Shows(x, k, Append(h, c), Len(h) + 1)
           <=> Shows(x, k - 1, h, Len(h)) /\ c = x[k]
<1> DEFINE t == Append(h, c)
<1>1. /\ Len(h) \in Nat /\ Len(x) \in Nat /\ k \in Nat
      /\ t[Len(h) + 1] = c /\ \A i \in 1 .. Len(h) : t[i] = h[i]
  BY AppendProperties
<1> HIDE DEF t
<1>2. ASSUME Shows(x, k, t, Len(h) + 1)
      PROVE  Shows(x, k - 1, h, Len(h)) /\ c = x[k]
  <2>1. /\ k <= Len(h) + 1
        /\ \A j \in 1 .. k : t[Len(h) + 1 - k + j] = x[j]
    BY <1>2 DEF Shows
  <2>2. c = x[k]
    <3>1. Len(h) + 1 - k + k = Len(h) + 1 /\ k \in 1 .. k
      BY <1>1
    <3> QED
      BY <1>1, <2>1, <3>1
  <2>3. ASSUME NEW j \in 1 .. k - 1
        PROVE  h[Len(h) - (k - 1) + j] = x[j]
    <3>1. /\ j \in 1 .. k /\ Len(h) + 1 - k + j \in 1 .. Len(h)
          /\ Len(h) - (k - 1) + j = Len(h) + 1 - k + j
      BY <1>1, <2>1
    <3> QED
      BY <1>1, <2>1, <3>1
  <2> QED
    BY <1>1, <2>1, <2>2, <2>3 DEF Shows
<1>3. ASSUME Shows(x, k - 1, h, Len(h)), c = x[k]
      PROVE  Shows(x, k, t, Len(h) + 1)
  <2>1. /\ k - 1 <= Len(h)
        /\ \A j \in 1 .. k - 1 : h[Len(h) - (k - 1) + j] = x[j]
    BY <1>3 DEF Shows
  <2>2. ASSUME NEW j \in 1 .. k
        PROVE  t[Len(h) + 1 - k + j] = x[j]
    <3>1. CASE j = k
      <4>1. Len(h) + 1 - k + j = Len(h) + 1
        BY <1>1, <3>1
      <4> QED
        BY <1>1, <1>3, <3>1, <4>1
    <3>2. CASE j # k
      <4>1. /\ j \in 1 .. k - 1 /\ Len(h) + 1 - k + j \in 1 .. Len(h)
            /\ Len(h) - (k - 1) + j = Len(h) + 1 - k + j
        BY <1>1, <2>1, <3>2
      <4> QED
        BY <1>1, <2>1, <4>1
    <3> QED
      BY <3>1, <3>2
  <2>3. k \in Nat /\ k <= Len(h) + 1
    BY <1>1, <2>1
  <2> QED
    BY <2>2, <2>3 DEF Shows
<1> QED
  BY <1>2, <1>3 DEF t

LEMMA WithinNext ==
  ASSUME NEW x \in Seq(Char), NEW h \in Seq(Char), NEW c \in Char,
         Within(x, Append(h, c))
  PROVE  Within(x, h) \/ Shows(x, Len(x), Append(h, c), Len(h) + 1)
<1> DEFINE t == Append(h, c)
<1>1. /\ Len(h) \in Nat /\ Len(x) \in Nat /\ Len(t) = Len(h) + 1
      /\ \A i \in 1 .. Len(h) : t[i] = h[i]
  BY AppendProperties
<1> HIDE DEF t
<1>2. PICK i \in 1 .. Len(h) + 1 : Shows(x, Len(x), t, i)
  BY <1>1 DEF Within, t
<1>3. CASE i = Len(h) + 1
  BY <1>2, <1>3 DEF t
<1>4. CASE i # Len(h) + 1
  <2>1. i \in 1 .. Len(h) /\ Len(x) <= i
    BY <1>1, <1>2, <1>4 DEF Shows
  <2>2. ASSUME NEW j \in 1 .. Len(x)
        PROVE  h[i - Len(x) + j] = x[j]
    <3>1. i - Len(x) + j \in 1 .. Len(h)
      BY <1>1, <2>1
    <3> QED
      BY <1>1, <1>2, <3>1 DEF Shows
  <2> QED
    BY <2>1, <2>2 DEF Within, Shows
<1> QED
  BY <1>3, <1>4

LEMMA MatchedShows ==
  ASSUME NEW s \in Script, Armed(s), NEW c \in Char,
         Steps[s.step].expect # <<>>,
         s.match < Len(Steps[s.step].expect),
         Shows(Steps[s.step].expect, s.match, s.heard, Len(s.heard))
  PROVE  /\ Matched(s, c) \in 0 .. Len(Steps[s.step].expect)
         /\ Shows(Steps[s.step].expect, Matched(s, c),
                  Append(s.heard, c), Len(s.heard) + 1)
<1> DEFINE x == Steps[s.step].expect
           m == s.match
           h == s.heard
<1>1. /\ x \in Seq(Char) /\ x # <<>> /\ m \in Nat /\ m < Len(x)
      /\ h \in Seq(Char) /\ Shows(x, m, h, Len(h))
  BY TextAssumption DEF Script, Armed
<1>2. Matched(s, c) = CASE c = x[m + 1] -> m + 1
                        [] c # x[m + 1] /\ c = x[1] -> 1
                        [] OTHER -> 0
  BY DEF Matched
<1> HIDE DEF x, m, h
<1>3. Len(x) \in Nat /\ Len(x) >= 1 /\ Len(h) \in Nat
  BY <1>1
<1>4. \A k : k = 0 => Shows(x, k, h, Len(h)) /\ Shows(x, k, Append(h, c), Len(h) + 1)
  BY <1>3 DEF Shows
<1>5. CASE c = x[m + 1]
  <2>1. Matched(s, c) = m + 1
    BY <1>2, <1>5
  <2>2. m + 1 \in 1 .. Len(x) /\ (m + 1) - 1 = m
    BY <1>1, <1>3
  <2>3. Shows(x, m + 1, Append(h, c), Len(h) + 1)
    BY <1>1, <1>5, <2>2, ShowsNext
  <2> QED
    BY <2>1, <2>2, <2>3 DEF x, h
<1>6. CASE c # x[m + 1] /\ c = x[1]
  <2>1. Matched(s, c) = 1
    BY <1>2, <1>6
  <2>2. 1 \in 1 .. Len(x) /\ 1 - 1 = 0
    BY <1>3
  <2>3. Shows(x, 1, Append(h, c), Len(h) + 1)
    BY <1>1, <1>4, <1>6, <2>2, ShowsNext
  <2> QED
    BY <2>1, <2>2, <2>3 DEF x, h
<1>7. CASE c # x[m + 1] /\ c # x[1]
  <2>1. Matched(s, c) = 0
    BY <1>2, <1>7
  <2> QED
    BY <1>3, <1>4, <2>1 DEF x, h
<1> QED
  BY <1>5, <1>6, <1>7

(* No longer beginning of the prompt is heard than the one matched.        *)
LEMMA MatchedLongest ==
  ASSUME NEW s \in Script, Armed(s), NEW c \in Char,
         Steps[s.step].expect # <<>>,
         s.match < Len(Steps[s.step].expect),
         Shows(Steps[s.step].expect, s.match, s.heard, Len(s.heard)),
         FirstOnce,
         \A k \in s.match + 1 .. Len(Steps[s.step].expect) :
           ~Shows(Steps[s.step].expect, k, s.heard, Len(s.heard))
  PROVE  \A k \in Matched(s, c) + 1 .. Len(Steps[s.step].expect) :
           ~Shows(Steps[s.step].expect, k, Append(s.heard, c), Len(s.heard) + 1)
<1> DEFINE x == Steps[s.step].expect
           m == s.match
           h == s.heard
<1>1. /\ x \in Seq(Char) /\ x # <<>> /\ m \in Nat /\ m < Len(x)
      /\ h \in Seq(Char) /\ Shows(x, m, h, Len(h))
      /\ \A k \in m + 1 .. Len(x) : ~Shows(x, k, h, Len(h))
  BY TextAssumption DEF Script, Armed
<1>2. Matched(s, c) = CASE c = x[m + 1] -> m + 1
                        [] c # x[m + 1] /\ c = x[1] -> 1
                        [] OTHER -> 0
  BY DEF Matched
<1>3. \A j \in 2 .. Len(x) - 1 : x[j] # x[1]
  BY DEF FirstOnce, Armed, Script
<1> HIDE DEF x, m, h
<1>4. Len(x) \in Nat /\ Len(x) >= 1 /\ Len(h) \in Nat
  BY <1>1
<1>a. Matched(s, c) \in {0, 1, m + 1}
  BY <1>2
<1> SUFFICES ASSUME NEW k \in Matched(s, c) + 1 .. Len(x),
                    Shows(x, k, Append(h, c), Len(h) + 1)
             PROVE  FALSE
  BY DEF x, h
<1>5. k \in 1 .. Len(x)
  BY <1>a, <1>1, <1>4
<1>6. Shows(x, k - 1, h, Len(h)) /\ c = x[k]
  BY <1>1, <1>5, ShowsNext
<1>7. k - 1 <= m
  <2> SUFFICES ASSUME k - 1 > m PROVE FALSE
    BY <1>1, <1>5
  <2>1. k - 1 \in m + 1 .. Len(x)
    BY <1>1, <1>4, <1>5
  <2> QED
    BY <1>1, <1>6, <2>1
<1>8. CASE c = x[m + 1]
  <2>1. k > m + 1
    BY <1>2, <1>8, <1>1, <1>4
  <2> QED
    BY <1>1, <1>5, <1>7, <2>1
<1>9. CASE c # x[m + 1]
  <2>1. k - 1 # m
    BY <1>6, <1>9, <1>5
  <2>2. k <= m
    BY <1>1, <1>5, <1>7, <2>1
  <2>3. CASE c = x[1]
    <3>1. k >= 2
      BY <1>2, <1>9, <2>3, <1>5
    <3>2. k \in 2 .. Len(x) - 1
      BY <1>1, <1>4, <1>5, <2>2, <3>1
    <3> QED
      BY <1>3, <1>6, <2>3, <3>2
  <2>4. CASE c # x[1]
    <3>1. k # 1
      BY <1>6, <2>4
    <3>2. /\ 1 \in 1 .. k - 1 /\ m - (k - 1) + 1 \in 1 .. m
          /\ Len(h) - (k - 1) + 1 = Len(h) - m + (m - (k - 1) + 1)
          /\ m - (k - 1) + 1 \in 2 .. Len(x) - 1
      BY <1>1, <1>4, <1>5, <2>2, <3>1
    <3>3. h[Len(h) - (k - 1) + 1] = x[1]
      BY <1>6, <3>2 DEF Shows
    <3>4. h[Len(h) - m + (m - (k - 1) + 1)] = x[m - (k - 1) + 1]
      BY <1>1, <3>2 DEF Shows
    <3> QED
      BY <1>3, <3>2, <3>3, <3>4
  <2> QED
    BY <2>3, <2>4
<1> QED
  BY <1>8, <1>9

LEMMA ScheduledReliable ==
  ASSUME NEW s \in Script, NEW h \in Seq(Char), Armed(s), ~s.pending,
         Ends(Steps[s.step].expect, h)
  PROVE  Reliable(Scheduled([s EXCEPT !.heard = h]), Typed(s))
<1> DEFINE t == Scheduled([s EXCEPT !.heard = h])
<1>1. /\ s.step \in 1 .. Len(Steps) /\ Len(Steps) \in Nat
  BY TextAssumption DEF Armed, Script
<1>2. /\ t \in [step : Nat, match : Nat, pending : BOOLEAN, heard : Seq(Char)]
      /\ t.step = s.step + 1 /\ t.match = 0 /\ t.pending /\ t.heard = h
  <2> DEFINE r == [s EXCEPT !.heard = h]
  <2>1. /\ r \in [step : Nat, match : Nat, pending : BOOLEAN, heard : Seq(Char)]
        /\ r.step = s.step /\ r.heard = h
    BY <1>1 DEF Script
  <2> HIDE DEF r
  <2> DEFINE q == [r EXCEPT !.pending = TRUE, !.step = @ + 1, !.match = 0]
  <2>2. q \in [step : Nat, match : Nat, pending : BOOLEAN, heard : Seq(Char)]
    <3>1. [r EXCEPT !.pending = TRUE]
            \in [step : Nat, match : Nat, pending : BOOLEAN, heard : Seq(Char)]
      BY <2>1
    <3> DEFINE a == [r EXCEPT !.pending = TRUE]
    <3>2. a.step \in Nat /\ a.step + 1 \in Nat /\ a.step = r.step
      BY <2>1
    <3>3. q = [a EXCEPT !.step = @ + 1, !.match = 0]
      OBVIOUS
    <3> HIDE DEF a, q
    <3>4. [a EXCEPT !.step = @ + 1, !.match = 0]
            \in [step : Nat, match : Nat, pending : BOOLEAN, heard : Seq(Char)]
      BY <3>1, <3>2 DEF a
    <3> QED
      BY <3>3, <3>4
  <2>3. q.step = s.step + 1 /\ q.match = 0 /\ q.heard = h
    BY <2>1
  <2>4. q.pending = TRUE
    BY <2>1
  <2> QED
    BY <2>2, <2>3, <2>4 DEF Scheduled, r
<1> HIDE DEF t
<1>3. t \in Script
  BY <1>1, <1>2 DEF Script
<1>4. t.step - 1 = s.step /\ t.step > 1 /\ t.step - 2 = s.step - 1
  BY <1>1, <1>2
<1>5. Following(t)
  BY <1>2, <1>4 DEF Following
<1>6. Typed(t) = Typed(s)
  BY <1>2, <1>4 DEF Typed
<1> QED
  BY <1>2, <1>3, <1>5, <1>6 DEF Reliable, Attentive, t

LEMMA ObserveReliable ==
  ASSUME NEW s, NEW n, Reliable(s, n), NEW c \in Char
  PROVE  Reliable(Observe(s, c), n)
<1>1. s \in Script /\ Following(s) /\ Typed(s) = n /\ (FirstOnce => Attentive(s))
  BY DEF Reliable
<1>2. CASE ~Armed(s) \/ s.pending
  BY <1>2 DEF Observe
<1>3. CASE Armed(s) /\ ~s.pending
  <2> DEFINE x == Steps[s.step].expect
             h == Append(s.heard, c)
             t == [s EXCEPT !.heard = h]
             u == [t EXCEPT !.match = Matched(s, c)]
  <2>1. /\ x \in Seq(Char) /\ s.heard \in Seq(Char) /\ h \in Seq(Char)
        /\ Len(h) = Len(s.heard) + 1
    BY <1>1, <1>3, TextAssumption DEF Script, Armed
  <2>2. CASE x = <<>>
    <3>1. Observe(s, c) = Scheduled(t)
      BY <1>3, <2>2 DEF Observe
    <3>2. Ends(x, h)
      BY <2>1, <2>2 DEF Ends, Shows
    <3> QED
      BY <1>1, <1>3, <2>1, <3>1, <3>2, ScheduledReliable
  <2>3. CASE x # <<>> /\ Matched(s, c) = Len(x)
    <3>1. Observe(s, c) = Scheduled(t)
      BY <1>3, <2>3 DEF Observe
    <3>2. s.match < Len(x) /\ Shows(x, s.match, s.heard, Len(s.heard))
      BY <1>1, <1>3, <2>3 DEF Following
    <3>3. Shows(x, Matched(s, c), h, Len(h))
      BY <1>1, <1>3, <2>1, <2>3, <3>2, MatchedShows
    <3>4. Ends(x, h)
      BY <2>3, <3>3 DEF Ends
    <3> QED
      BY <1>1, <1>3, <2>1, <3>1, <3>4, ScheduledReliable
  <2>4. CASE x # <<>> /\ Matched(s, c) # Len(x)
    <3>1. Observe(s, c) = u
      BY <1>3, <2>4 DEF Observe
    <3>2. s.match < Len(x) /\ Shows(x, s.match, s.heard, Len(s.heard))
      BY <1>1, <1>3, <2>4 DEF Following
    <3>3. /\ Matched(s, c) \in 0 .. Len(x)
          /\ Shows(x, Matched(s, c), h, Len(h))
      BY <1>1, <1>3, <2>1, <2>4, <3>2, MatchedShows
    <3>4. /\ u \in [step : Nat, match : Nat, pending : BOOLEAN, heard : Seq(Char)]
          /\ u.step = s.step /\ u.match = Matched(s, c) /\ ~u.pending
          /\ u.heard = h
      <4>1. /\ t \in [step : Nat, match : Nat, pending : BOOLEAN, heard : Seq(Char)]
            /\ t.step = s.step /\ ~t.pending /\ t.heard = h
        BY <1>1, <1>3, <2>1 DEF Script
      <4>2. Matched(s, c) \in Nat
        BY <2>1, <3>3
      <4> HIDE DEF t
      <4> QED
        BY <4>1, <4>2
    <3>5. Len(x) \in Nat /\ Matched(s, c) < Len(x)
      BY <2>1, <2>4, <3>3
    <3>6. ASSUME FirstOnce
          PROVE  /\ \A k \in Matched(s, c) + 1 .. Len(x) :
                      ~Shows(x, k, h, Len(h))
                 /\ ~Within(x, h)
      <4>1. /\ \A k \in s.match + 1 .. Len(x) :
                 ~Shows(x, k, s.heard, Len(s.heard))
            /\ ~Within(x, s.heard)
        BY <1>1, <1>3, <3>6 DEF Attentive
      <4>2. \A k \in Matched(s, c) + 1 .. Len(x) : ~Shows(x, k, h, Len(h))
        BY <1>1, <1>3, <2>1, <2>4, <3>2, <3>6, <4>1, MatchedLongest
      <4>3. Len(x) \in Matched(s, c) + 1 .. Len(x)
        BY <3>3, <3>5
      <4> QED
        BY <2>1, <4>1, <4>2, <4>3, WithinNext
    <3> HIDE DEF x, h, u, t
    <3>7. u \in Script
      BY <1>1, <2>1, <3>3, <3>4, <3>5 DEF Script
    <3>8. /\ u.step = s.step /\ ~u.pending /\ u.heard = h
          /\ u.match = Matched(s, c)
      BY <3>4
    <3>9. Following(u)
      BY <2>4, <3>3, <3>5, <3>8 DEF Following, x
    <3>10. Typed(u) = n
      BY <1>1, <1>3, <3>8 DEF Typed
    <3>11. FirstOnce => Attentive(u)
      BY <3>6, <3>8 DEF Attentive, x
    <3> QED
      BY <3>1, <3>7, <3>9, <3>10, <3>11 DEF Reliable
  <2> QED
    BY <2>2, <2>3, <2>4
<1> QED
  BY <1>2, <1>3

(***************************************************************************)
(* Least counterexamples.                                                  *)
(***************************************************************************)
LEMMA Least ==
  ASSUME NEW S \in SUBSET Nat, S # {}
  PROVE  \E x \in S : \A y \in S : x <= y
<1> DEFINE R == OpToRel(<, Nat)
<1>1. IsWellFoundedOn(R, Nat)
  BY NatLessThanWellFounded
<1>2. \A x, y \in Nat : <<y, x>> \in R <=> y < x
  BY DEF OpToRel
<1> HIDE DEF R
<1>3. PICK x \in S : \A y \in S : ~ (<<y, x>> \in R)
  BY <1>1, WFMin
<1>4. \A y \in S : x <= y
  <2> TAKE y \in S
  <2>1. x \in Nat /\ y \in Nat /\ ~ (y < x)
    BY <1>2, <1>3
  <2> QED
    BY <2>1
<1> QED
  BY <1>4

(* What holds of no number, or of a number whose predecessor it does not   *)
(* hold of, holds of none: S is the set of counterexamples.                *)
LEMMA NoLeast ==
  ASSUME NEW S \in SUBSET Nat, 0 \notin S,
         \A n \in S : n # 0 => n - 1 \in S
  PROVE  S = {}
<1> SUFFICES ASSUME S # {} PROVE FALSE
  OBVIOUS
<1>1. PICK x \in S : \A y \in S : x <= y
  BY Least
<1> QED
  BY <1>1

(* The recursion over a text is defined, and follows the script.           *)
LEMMA ObservedReliable ==
  ASSUME NEW s, NEW n, Reliable(s, n), NEW text \in Seq(Char)
  PROVE  Reliable(Observed(s, text), n)
<1> DEFINE N == Len(text)
           Made(f, m) == IF m = 0 THEN s ELSE Observe(f[m - 1], text[m])
           After(f) == f = [m \in 0 .. N |-> Made(f, m)]
           Upto(k) == \E f : \A m \in 0 .. N : m <= k => f[m] = Made(f, m)
           S == {k \in 0 .. N : ~Upto(k)}
<1>1. N \in Nat /\ \A m \in 1 .. N : text[m] \in Char
  BY ElementOfSeq
<1>2. 0 \notin S
  <2>1. \A m \in 0 .. N : m <= 0 => [k \in 0 .. N |-> s][m] = Made([k \in 0 .. N |-> s], m)
    BY <1>1
  <2> QED
    BY <2>1
<1>3. ASSUME NEW k \in 0 .. N, k # 0, Upto(k - 1)
      PROVE  Upto(k)
  <2>1. PICK f : \A m \in 0 .. N : m <= k - 1 => f[m] = Made(f, m)
    BY <1>3
  <2> DEFINE g == [m \in 0 .. N |-> IF m = k THEN Made(f, k) ELSE f[m]]
  <2>2. ASSUME NEW m \in 0 .. N, m <= k
        PROVE  g[m] = Made(g, m)
    <3>1. m = 0 \/ (m - 1 \in 0 .. N /\ m - 1 # k)
      BY <1>1, <1>3, <2>2
    <3>2. Made(g, m) = Made(f, m)
      BY <3>1
    <3>3. CASE m = k
      BY <3>2, <3>3
    <3>4. CASE m # k
      <4>1. m <= k - 1
        BY <1>1, <1>3, <2>2, <3>4
      <4> QED
        BY <2>1, <3>2, <3>4, <4>1
    <3> QED
      BY <3>3, <3>4
  <2> QED
    BY <2>2
<1>4. S = {}
  <2>1. S \in SUBSET Nat
    BY <1>1
  <2>2. ASSUME NEW k \in S, k # 0
        PROVE  k - 1 \in S
    <3>1. k \in 0 .. N /\ ~Upto(k)
      OBVIOUS
    <3>2. k - 1 \in 0 .. N
      BY <1>1, <2>2, <3>1
    <3>3. ~Upto(k - 1)
      BY <1>3, <2>2, <3>1
    <3> QED
      BY <3>2, <3>3
  <2> HIDE DEF S
  <2> QED
    BY <1>2, <2>1, <2>2, NoLeast
<1>5. \E f : After(f)
  <2>1. Upto(N)
    BY <1>1, <1>4
  <2>2. PICK f : \A m \in 0 .. N : m <= N => f[m] = Made(f, m)
    BY <2>1
  <2> DEFINE g == [m \in 0 .. N |-> f[m]]
  <2>3. \A m \in 0 .. N : g[m] = Made(g, m)
    <3> TAKE m \in 0 .. N
    <3>1. m = 0 \/ m - 1 \in 0 .. N
      BY <1>1
    <3>2. Made(g, m) = Made(f, m)
      BY <3>1
    <3> QED
      BY <1>1, <2>2, <3>2
  <2>4. After(g)
    BY <2>3
  <2> QED
    BY <2>4
<1> DEFINE A == CHOOSE f : After(f)
<1>6. After(A)
  BY <1>5
<1>7. Observed(s, text) = A[N]
  BY DEF Observed
<1> HIDE DEF A
<1>8. A[0] = s /\ \A m \in 1 .. N : A[m] = Observe(A[m - 1], text[m])
  BY <1>1, <1>6
<1> DEFINE T == {m \in 0 .. N : ~Reliable(A[m], n)}
<1>9. T = {}
  <2>1. T \in SUBSET Nat /\ 0 \notin T
    BY <1>1, <1>8
  <2>2. ASSUME NEW k \in T, k # 0
        PROVE  k - 1 \in T
    <3>1. k \in 1 .. N /\ k - 1 \in 0 .. N
      BY <1>1, <2>2
    <3>2. ~Reliable(A[k - 1], n)
      BY <1>1, <1>8, <3>1, ObserveReliable
    <3> QED
      BY <3>1, <3>2
  <2> HIDE DEF T
  <2> QED
    BY <2>1, <2>2, NoLeast
<1> QED
  BY <1>1, <1>7, <1>9

-----------------------------------------------------------------------------
(***************************************************************************)
(* The reading of a whole text.                                            *)
(***************************************************************************)
Result == [shown : Seq(Char), commands : Seq(Seq(Char))]

LEMMA Constants ==
  /\ Len(Prefix) \in Nat /\ Len(Prefix) >= 2 /\ Prefix \in Seq(Char)
  /\ \A i \in 1 .. Len(Prefix) : Prefix[i] \in Char \ {NulChar}
  /\ Starts \subseteq Char \ {NulChar} /\ CommandMax \in Nat
<1>1. /\ Len(Prefix) \in Nat /\ Len(Prefix) >= 2 /\ Prefix \in Seq(Char)
      /\ CommandMax \in Nat
  BY TextAssumption
<1>2. \A i \in 1 .. Len(Prefix) : Prefix[i] \in Char \ {NulChar}
  BY TextAssumption, ElementOfSeq
<1>3. 1 \in 1 .. Len(Prefix)
  BY <1>1
<1> QED
  BY <1>1, <1>2, <1>3, TextAssumption DEF Starts

LEMMA VisibleTyped == ASSUME NEW c \in Char PROVE Visible(c) \in Seq(Char)
BY DEF Visible

LEMMA StopFirst ==
  ASSUME NEW w \in Seq(Char), NEW i \in 1 .. Len(w) + 1, Stops(w, i) # {}
  PROVE  /\ Stop(w, i) \in Stops(w, i)
         /\ \A j \in Stops(w, i) : Stop(w, i) <= j
         /\ Stop(w, i) \in i + Len(Prefix) .. Len(w)
<1>1. Stops(w, i) \subseteq i + Len(Prefix) .. Len(w)
  BY DEF Stops
<1>2. Stops(w, i) \in SUBSET Nat
  BY <1>1, Constants
<1>3. \E k \in Stops(w, i) : \A j \in Stops(w, i) : k <= j
  BY <1>2, Least
<1>4. /\ Stop(w, i) \in Stops(w, i)
      /\ \A j \in Stops(w, i) : Stop(w, i) <= j
  BY <1>3 DEF Stop
<1> QED
  BY <1>1, <1>4

LEMMA ShowTyped ==
  ASSUME NEW r \in Result, NEW t \in Seq(Char)
  PROVE  /\ Show(t, r) \in Result /\ Command(t, r) \in Result
         /\ Show(t, r).shown = t \o r.shown
         /\ Show(t, r).commands = r.commands
         /\ Command(t, r).shown = r.shown
         /\ Command(t, r).commands = <<t>> \o r.commands
<1>1. r.shown \in Seq(Char) /\ r.commands \in Seq(Seq(Char))
  BY DEF Result
<1>2. t \o r.shown \in Seq(Char)
  BY <1>1, ConcatProperties
<1>3. <<t>> \in Seq(Seq(Char))
  OBVIOUS
<1>4. <<t>> \o r.commands \in Seq(Seq(Char))
  BY <1>1, <1>3, ConcatProperties
<1> QED
  BY <1>1, <1>2, <1>4 DEF Result, Show, Command

LEMMA TextTyped ==
  ASSUME NEW w \in Seq(Char), NEW i \in 1 .. Len(w) + 1, NEW k \in i .. Len(w)
  PROVE  Text(w, i, k) \in Seq(Char)
<1> DEFINE m == IF k - i < CommandMax THEN k - 1 ELSE i + CommandMax - 1
<1>1. Len(w) \in Nat /\ CommandMax \in Nat
  BY Constants
<1>2. m \in i - 1 .. Len(w)
  BY <1>1
<1>3. \A j \in i .. m : w[j] \in Char
  <2>1. \A j \in i .. m : j \in 1 .. Len(w)
    BY <1>1, <1>2
  <2> QED
    BY <2>1, ElementOfSeq
<1> HIDE DEF m
<1>4. SubSeq(w, i, m) \in Seq(Char)
  BY <1>1, <1>2, <1>3, SubSeqProperties
<1> QED
  BY <1>4 DEF Text, m

LEMMA ReadAtTyped ==
  ASSUME NEW w \in Seq(Char), NEW i \in 1 .. Len(w) + 1, NEW from,
         \A k \in i + 1 .. Len(w) + 1 : from[k] \in Result
  PROVE  ReadAt(w, i, from) \in Result
<1>1. Nothing \in Result
  BY DEF Nothing, Result
<1>2. Len(w) \in Nat /\ Len(Prefix) \in Nat /\ Len(Prefix) >= 2
  BY Constants
<1>3. ASSUME Stops(w, i) # {}
      PROVE  /\ w[Stop(w, i)] \in Char
             /\ from[Stop(w, i) + 1] \in Result
             /\ Text(w, i + Len(Prefix), Stop(w, i)) \in Seq(Char)
  <2>1. Stop(w, i) \in i + Len(Prefix) .. Len(w)
    BY <1>3, StopFirst
  <2>2. /\ Stop(w, i) \in 1 .. Len(w) /\ Stop(w, i) + 1 \in i + 1 .. Len(w) + 1
        /\ i + Len(Prefix) \in 1 .. Len(w) + 1
    BY <1>2, <2>1
  <2> QED
    BY <2>1, <2>2, TextTyped, ElementOfSeq
<1>4. ASSUME i <= Len(w)
      PROVE  w[i] \in Char /\ from[i + 1] \in Result
  <2>1. i \in 1 .. Len(w) /\ i + 1 \in i + 1 .. Len(w) + 1
    BY <1>2, <1>4
  <2> QED
    BY <2>1, ElementOfSeq
<1>5. CASE i > Len(w)
  BY <1>1, <1>2, <1>5 DEF ReadAt
<1>6. CASE i <= Len(w) /\ OpensAt(w, i)
  <2>1. ReadAt(w, i, from) =
          IF Stops(w, i) = {} THEN Nothing
          ELSE IF w[Stop(w, i)] \in End
            THEN Command(Text(w, i + Len(Prefix), Stop(w, i)),
                         from[Stop(w, i) + 1])
            ELSE Show(Visible(w[Stop(w, i)]), from[Stop(w, i) + 1])
    BY <1>2, <1>6 DEF ReadAt
  <2> QED
    BY <1>1, <1>3, <2>1, ShowTyped, VisibleTyped
<1>7. CASE i <= Len(w) /\ ~OpensAt(w, i) /\ HeldFrom(w, i)
  BY <1>1, <1>2, <1>7 DEF ReadAt
<1>8. CASE i <= Len(w) /\ ~OpensAt(w, i) /\ ~HeldFrom(w, i)
  <2>1. ReadAt(w, i, from) = Show(Visible(w[i]), from[i + 1])
    BY <1>2, <1>8 DEF ReadAt
  <2> QED
    BY <1>4, <1>8, <2>1, ShowTyped, VisibleTyped
<1> QED
  BY <1>2, <1>5, <1>6, <1>7, <1>8

LEMMA ReadAtLocal ==
  ASSUME NEW w \in Seq(Char), NEW i \in 1 .. Len(w) + 1, NEW f, NEW g,
         \A k \in i + 1 .. Len(w) + 1 : f[k] = g[k]
  PROVE  ReadAt(w, i, f) = ReadAt(w, i, g)
<1>2. Len(w) \in Nat /\ Len(Prefix) \in Nat /\ Len(Prefix) >= 2
  BY Constants
<1>3. ASSUME Stops(w, i) # {}
      PROVE  f[Stop(w, i) + 1] = g[Stop(w, i) + 1]
  <2>1. Stop(w, i) \in i + Len(Prefix) .. Len(w)
    BY <1>3, StopFirst
  <2>2. Stop(w, i) + 1 \in i + 1 .. Len(w) + 1
    BY <1>2, <2>1
  <2> QED
    BY <2>2
<1>4. ASSUME i <= Len(w)
      PROVE  f[i + 1] = g[i + 1]
  <2>1. i + 1 \in i + 1 .. Len(w) + 1
    BY <1>2, <1>4
  <2> QED
    BY <2>1
<1>5. CASE i > Len(w)
  BY <1>2, <1>5 DEF ReadAt
<1>6. CASE i <= Len(w) /\ OpensAt(w, i)
  BY <1>2, <1>3, <1>6 DEF ReadAt
<1>7. CASE i <= Len(w) /\ ~OpensAt(w, i) /\ HeldFrom(w, i)
  BY <1>2, <1>7 DEF ReadAt
<1>8. CASE i <= Len(w) /\ ~OpensAt(w, i) /\ ~HeldFrom(w, i)
  BY <1>2, <1>4, <1>8 DEF ReadAt
<1> QED
  BY <1>2, <1>5, <1>6, <1>7, <1>8

(* The recursion from the end of the text is defined.                      *)
LEMMA ReadingsExist ==
  ASSUME NEW w \in Seq(Char)
  PROVE  \E f : f = [i \in 1 .. Len(w) + 1 |-> ReadAt(w, i, f)]
<1> DEFINE N == Len(w) + 1
           From(k) == \E f : \A i \in 1 .. N : i >= N - k => f[i] = ReadAt(w, i, f)
           S == {k \in 0 .. N : ~From(k)}
<1>1. Len(w) \in Nat /\ N \in Nat /\ N >= 1
  OBVIOUS
<1>2. From(0)
  <2> DEFINE f == [i \in 1 .. N |-> ReadAt(w, i, [k \in {} |-> 0])]
  <2>1. ASSUME NEW i \in 1 .. N, i >= N - 0
        PROVE  f[i] = ReadAt(w, i, f)
    <3>1. i = Len(w) + 1
      BY <1>1, <2>1
    <3>2. ReadAt(w, i, [k \in {} |-> 0]) = ReadAt(w, i, f)
      BY <1>1, <3>1, ReadAtLocal
    <3> QED
      BY <3>2
  <2> QED
    BY <2>1
<1>3. ASSUME NEW k \in 1 .. N, From(k - 1)
      PROVE  From(k)
  <2>1. PICK f : \A i \in 1 .. N : i >= N - (k - 1) => f[i] = ReadAt(w, i, f)
    BY <1>3
  <2> DEFINE g == [i \in 1 .. N |-> IF i = N - k THEN ReadAt(w, i, f) ELSE f[i]]
  <2>2. ASSUME NEW i \in 1 .. N, i >= N - k
        PROVE  g[i] = ReadAt(w, i, g)
    <3>1. \A j \in i + 1 .. Len(w) + 1 : j \in 1 .. N /\ j # N - k
      BY <1>1, <2>2
    <3>2. \A j \in i + 1 .. Len(w) + 1 : f[j] = g[j]
      BY <3>1
    <3>3. ReadAt(w, i, f) = ReadAt(w, i, g)
      BY <3>2, ReadAtLocal
    <3>4. CASE i = N - k
      BY <3>3, <3>4
    <3>5. CASE i # N - k
      <4>1. i >= N - (k - 1)
        BY <1>1, <2>2, <3>5
      <4> QED
        BY <2>1, <3>3, <3>5, <4>1
    <3> QED
      BY <3>4, <3>5
  <2> QED
    BY <2>2
<1>4. S = {}
  <2>1. S \in SUBSET Nat
    BY <1>1
  <2>2. 0 \notin S
    BY <1>2
  <2>3. ASSUME NEW k \in S, k # 0
        PROVE  k - 1 \in S
    <3>1. k \in 0 .. N /\ ~From(k)
      OBVIOUS
    <3>2. k \in 1 .. N /\ k - 1 \in 0 .. N
      BY <1>1, <2>3, <3>1
    <3>3. ~From(k - 1)
      BY <1>3, <3>1, <3>2
    <3> QED
      BY <3>2, <3>3
  <2> HIDE DEF S
  <2> QED
    BY <2>1, <2>2, <2>3, NoLeast
<1>5. From(N)
  BY <1>1, <1>4
<1>6. PICK f : \A i \in 1 .. N : i >= N - N => f[i] = ReadAt(w, i, f)
  BY <1>5
<1> DEFINE g == [i \in 1 .. N |-> f[i]]
<1>7. ASSUME NEW i \in 1 .. N
      PROVE  g[i] = ReadAt(w, i, g)
  <2>1. \A j \in i + 1 .. Len(w) + 1 : j \in 1 .. N
    BY <1>1
  <2>2. ReadAt(w, i, f) = ReadAt(w, i, g)
    BY <2>1, ReadAtLocal
  <2> QED
    BY <1>1, <1>6, <2>2
<1>8. g = [i \in 1 .. Len(w) + 1 |-> ReadAt(w, i, g)]
  BY <1>7
<1> QED
  BY <1>8

LEMMA ReadingsAre ==
  ASSUME NEW w \in Seq(Char), NEW i \in 1 .. Len(w) + 1
  PROVE  /\ Readings(w)[i] = ReadAt(w, i, Readings(w))
         /\ Readings(w)[i] \in Result
<1> DEFINE N == Len(w) + 1
           A == CHOOSE f : f = [j \in 1 .. Len(w) + 1 |-> ReadAt(w, j, f)]
<1>1. A = [j \in 1 .. Len(w) + 1 |-> ReadAt(w, j, A)]
  BY ReadingsExist
<1>2. Readings(w) = A
  BY DEF Readings
<1> HIDE DEF A
<1>3. \A j \in 1 .. N : A[j] = ReadAt(w, j, A)
  BY <1>1
<1> DEFINE S == {k \in 0 .. N - 1 : A[N - k] \notin Result}
<1>4. S = {}
  <2>1. S \in SUBSET Nat /\ N \in Nat
    OBVIOUS
  <2> SUFFICES ASSUME S # {} PROVE FALSE
    OBVIOUS
  <2> HIDE DEF S
  <2>2. PICK x \in S : \A y \in S : x <= y
    BY <2>1, Least
  <2>3. x \in 0 .. N - 1 /\ A[N - x] \notin Result
    BY DEF S
  <2>4. N - x \in 1 .. Len(w) + 1
    BY <2>1, <2>3
  <2>5. ASSUME NEW k \in N - x + 1 .. Len(w) + 1
        PROVE  A[k] \in Result
    <3>1. /\ N - k \in 0 .. N - 1 /\ N - k < x /\ N - (N - k) = k
      BY <2>1, <2>3
    <3>2. N - k \notin S
      BY <2>1, <2>2, <2>3, <3>1
    <3> QED
      BY <3>1, <3>2 DEF S
  <2>6. ReadAt(w, N - x, A) \in Result
    BY <2>4, <2>5, ReadAtTyped
  <2> QED
    BY <1>3, <2>3, <2>4, <2>6
<1>5. A[i] \in Result
  <2>1. /\ N - i \in 0 .. N - 1 /\ N - (N - i) = i
    OBVIOUS
  <2> QED
    BY <1>4, <2>1
<1> QED
  BY <1>2, <1>3, <1>5

-----------------------------------------------------------------------------
(***************************************************************************)
(* What is read of a text does not change when more is printed.            *)
(***************************************************************************)
After(text, orders, r) ==
  [shown |-> text \o r.shown, commands |-> orders \o r.commands]

LEMMA Associative ==
  /\ \A x, y, z \in Seq(Char) : (x \o y) \o z = x \o (y \o z)
  /\ \A x, y, z \in Seq(Seq(Char)) : (x \o y) \o z = x \o (y \o z)
<1>1. \A x, y, z \in Seq(Char) : (x \o y) \o z = x \o (y \o z)
  BY ConcatAssociative
<1>2. \A x, y, z \in Seq(Seq(Char)) : (x \o y) \o z = x \o (y \o z)
  BY ConcatAssociative
<1> QED
  BY <1>1, <1>2

LEMMA ShowTwice ==
  ASSUME NEW t \in Seq(Char), NEW u \in Seq(Char), NEW r \in Result
  PROVE  Show(t, Show(u, r)) = Show(t \o u, r)
<1>1. r.shown \in Seq(Char) /\ r.commands \in Seq(Seq(Char))
  BY DEF Result
<1>2. t \o (u \o r.shown) = (t \o u) \o r.shown
  BY <1>1, Associative
<1> QED
  BY <1>1, <1>2 DEF Show, Result

LEMMA AfterMoves ==
  ASSUME NEW text \in Seq(Char), NEW orders \in Seq(Seq(Char)),
         NEW t \in Seq(Char), NEW r \in Result
  PROVE  /\ After(text, orders, Show(t, r)) = After(text \o t, orders, r)
         /\ After(text, orders, Command(t, r)) = After(text, Append(orders, t), r)
         /\ After(text, orders, Nothing) = [shown |-> text, commands |-> orders]
         /\ After(<<>>, <<>>, r) = r
         /\ Show(<<>>, r) = r
<1>1. r.shown \in Seq(Char) /\ r.commands \in Seq(Seq(Char))
  BY DEF Result
<1>2. text \o (t \o r.shown) = (text \o t) \o r.shown
  BY <1>1, Associative
<1>3. <<t>> \in Seq(Seq(Char))
  OBVIOUS
<1>4. orders \o (<<t>> \o r.commands) = (orders \o <<t>>) \o r.commands
  BY <1>1, <1>3, Associative
<1>5. Append(orders, t) = orders \o <<t>>
  BY AppendIsConcat
<1>6. /\ <<>> \o r.shown = r.shown /\ <<>> \o r.commands = r.commands
  BY <1>1, ConcatEmptySeq
<1>7. text \o <<>> = text /\ orders \o <<>> = orders
  BY ConcatEmptySeq
<1>8. r = [shown |-> r.shown, commands |-> r.commands]
  BY DEF Result
<1>9. Show(<<>>, r) = r
  BY <1>6, <1>8 DEF Show
<1> QED
  BY <1>2, <1>4, <1>5, <1>6, <1>7, <1>8, <1>9, ShowTyped DEF After, Nothing

Extends(v, w) == Len(w) <= Len(v) /\ \A i \in 1 .. Len(w) : v[i] = w[i]

LEMMA PrefixKept ==
  ASSUME NEW v \in Seq(Char), NEW w \in Seq(Char), Extends(v, w),
         NEW b \in 1 .. Len(w) + 1, NEW n \in Nat, b + n <= Len(w) + 1
  PROVE  PrefixFrom(v, b, n) <=> PrefixFrom(w, b, n)
<1>1. \A k \in 1 .. n : b + k - 1 \in 1 .. Len(w) /\ b \in 1 .. Len(w)
  <2>1. Len(w) \in Nat
    OBVIOUS
  <2> QED
    BY <2>1
<1>2. \A i \in 1 .. Len(w) : v[i] = w[i]
  BY DEF Extends
<1>3. \A k \in 1 .. n : v[b + k - 1] = w[b + k - 1] /\ v[b] = w[b]
  BY <1>1, <1>2
<1> QED
  BY <1>3 DEF PrefixFrom

LEMMA PrefixNext ==
  ASSUME NEW v \in Seq(Char), NEW b \in Nat, NEW n \in Nat, n >= 1
  PROVE  PrefixFrom(v, b, n + 1) <=> PrefixFrom(v, b, n) /\ v[b + n] = Prefix[n + 1]
<1>1. n + 1 \in 1 .. n + 1 /\ n + 1 # 1 /\ b + (n + 1) - 1 = b + n
  OBVIOUS
<1>2. \A k \in 1 .. n + 1 : k \in 1 .. n \/ k = n + 1
  OBVIOUS
<1>3. 1 .. n \subseteq 1 .. n + 1
  OBVIOUS
<1>4. ASSUME PrefixFrom(v, b, n + 1)
      PROVE  PrefixFrom(v, b, n) /\ v[b + n] = Prefix[n + 1]
  <2>1. v[b + (n + 1) - 1] = Prefix[n + 1]
    BY <1>1, <1>4 DEF PrefixFrom
  <2> QED
    BY <1>1, <1>3, <1>4, <2>1 DEF PrefixFrom
<1>5. ASSUME PrefixFrom(v, b, n), v[b + n] = Prefix[n + 1]
      PROVE  PrefixFrom(v, b, n + 1)
  <2> SUFFICES ASSUME NEW k \in 1 .. n + 1
               PROVE  IF k = 1 THEN v[b] \in Starts ELSE v[b + k - 1] = Prefix[k]
    BY DEF PrefixFrom
  <2>1. CASE k \in 1 .. n
    BY <1>5, <2>1 DEF PrefixFrom
  <2>2. CASE k = n + 1
    <3>1. k # 1 /\ b + k - 1 = b + n
      BY <2>2
    <3> QED
      BY <1>5, <2>2, <3>1
  <2> QED
    BY <1>2, <2>1, <2>2
<1> QED
  BY <1>4, <1>5

LEMMA PrefixStarts ==
  ASSUME NEW v, NEW b, NEW n \in Nat, n >= 1, PrefixFrom(v, b, n)
  PROVE  v[b] \in Starts
<1>1. 1 \in 1 .. n
  OBVIOUS
<1> QED
  BY <1>1 DEF PrefixFrom

(* A part of a prefix is one. *)
LEMMA PrefixShorter ==
  ASSUME NEW v, NEW b, NEW n \in Nat, NEW m \in 0 .. n, PrefixFrom(v, b, n)
  PROVE  PrefixFrom(v, b, m)
<1>1. 1 .. m \subseteq 1 .. n
  OBVIOUS
<1> QED
  BY <1>1 DEF PrefixFrom

LEMMA ReadPlain ==
  ASSUME NEW v \in Seq(Char), NEW b \in 1 .. Len(v), v[b] \notin Starts
  PROVE  Readings(v)[b] = Show(Visible(v[b]), Readings(v)[b + 1])
<1>1. Len(v) \in Nat /\ Len(Prefix) \in Nat /\ Len(Prefix) >= 2 /\ b \in 1 .. Len(v) + 1
  BY Constants
<1>2. ~OpensAt(v, b)
  BY <1>1, PrefixStarts DEF OpensAt
<1>3. ~HeldFrom(v, b)
  <2>1. Len(v) - b + 1 \in Nat /\ Len(v) - b + 1 >= 1
    BY <1>1
  <2> QED
    BY <2>1, PrefixStarts DEF HeldFrom
<1>4. ReadAt(v, b, Readings(v)) = Show(Visible(v[b]), Readings(v)[b + 1])
  BY <1>1, <1>2, <1>3 DEF ReadAt
<1> QED
  BY <1>1, <1>4, ReadingsAre

(* A failed match is read character by character: none of those that were  *)
(* held back begins a frame.                                               *)
LEMMA ReadFailed ==
  ASSUME NEW v \in Seq(Char), NEW b \in 1 .. Len(v),
         NEW n \in 1 .. Len(Prefix) - 1, b + n <= Len(v),
         PrefixFrom(v, b, n), v[b + n] # Prefix[n + 1], ~Overlap(v)
  PROVE  Readings(v)[b]
           = Show(<<v[b]>> \o SubSeq(Prefix, 2, n) \o Visible(v[b + n]),
                  Readings(v)[b + n + 1])
<1>1. /\ Len(v) \in Nat /\ Len(Prefix) \in Nat /\ Len(Prefix) >= 2
      /\ Prefix \in Seq(Char) /\ b \in 1 .. Len(v) + 1 /\ n \in Nat
  BY Constants
<1>2. v[b] \in Char \ {NulChar}
  BY <1>1, PrefixStarts, Constants
<1>3. \A k \in 1 .. n : v[b + k] \notin Starts
  <2> TAKE k \in 1 .. n
  <2>1. k \in 1 .. Len(Prefix) - 1 /\ b + k <= Len(v) /\ k \in 0 .. n
    BY <1>1
  <2>2. PrefixFrom(v, b, k)
    BY <1>1, <2>1, PrefixShorter
  <2> QED
    BY <2>1, <2>2 DEF Overlap
<1>4. \A k \in 2 .. n : v[b + k - 1] = Prefix[k] /\ k \in 1 .. Len(Prefix)
  BY <1>1 DEF PrefixFrom
<1>5. ~PrefixFrom(v, b, n + 1)
  <2>1. b \in Nat /\ n \in Nat /\ n >= 1
    BY <1>1
  <2> QED
    BY <2>1, PrefixNext
<1>6. ~OpensAt(v, b) /\ ~HeldFrom(v, b)
  <2>1. ~OpensAt(v, b)
    <3>1. n + 1 \in 0 .. Len(Prefix)
      BY <1>1
    <3> QED
      BY <1>1, <1>5, <3>1, PrefixShorter DEF OpensAt
  <2>2. ~HeldFrom(v, b)
    <3>1. n + 1 \in 0 .. Len(v) - b + 1 /\ Len(v) - b + 1 \in Nat
      BY <1>1
    <3> QED
      BY <1>5, <3>1, PrefixShorter DEF HeldFrom
  <2> QED
    BY <2>1, <2>2
<1> DEFINE R == Readings(v)
           Held(k) == <<v[b]>> \o SubSeq(Prefix, 2, k)
<1>7. R[b] = Show(<<v[b]>>, R[b + 1])
  <2>1. ReadAt(v, b, R) = Show(Visible(v[b]), R[b + 1])
    BY <1>1, <1>6 DEF ReadAt
  <2> QED
    BY <1>1, <1>2, <2>1, ReadingsAre DEF Visible
<1>8. \A k \in 1 .. Len(v) + 1 : R[k] \in Result
  BY ReadingsAre
<1>9. \A k \in 1 .. n : b + k \in 1 .. Len(v) /\ b + k + 1 \in 1 .. Len(v) + 1
  BY <1>1
<1>10. \A k \in 1 .. n : R[b + k] = Show(Visible(v[b + k]), R[b + k + 1])
  BY <1>3, <1>9, ReadPlain
<1>11. \A k \in 1 .. n : SubSeq(Prefix, 2, k) \in Seq(Char) /\ Held(k) \in Seq(Char)
  <2> TAKE k \in 1 .. n
  <2>1. \A j \in 2 .. k : Prefix[j] \in Char
    BY <1>1, Constants
  <2>2. SubSeq(Prefix, 2, k) \in Seq(Char)
    BY <1>1, <2>1, SubSeqProperties
  <2>3. <<v[b]>> \in Seq(Char)
    BY <1>2
  <2> QED
    BY <2>2, <2>3, ConcatProperties
<1> HIDE DEF R
<1> DEFINE S == {k \in 1 .. n : R[b] # Show(Held(k), R[b + k])}
<1>13. S = {}
  <2> SUFFICES ASSUME S # {} PROVE FALSE
    OBVIOUS
  <2>1. S \in SUBSET Nat
    BY <1>1
  <2> HIDE DEF S
  <2>2. PICK k \in S : \A j \in S : k <= j
    BY <2>1, Least
  <2>3. k \in 1 .. n /\ R[b] # Show(Held(k), R[b + k])
    BY DEF S
  <2>4. k # 1
    <3>1. SubSeq(Prefix, 2, 1) = <<>>
      BY SubSeqEmpty
    <3>2. <<v[b]>> \in Seq(Char)
      BY <1>2
    <3>3. Held(1) = <<v[b]>>
      BY <3>1, <3>2, ConcatEmptySeq
    <3> QED
      BY <1>7, <2>3, <3>3
  <2>5. k - 1 \in 1 .. n /\ b + (k - 1) + 1 = b + k /\ k \in 2 .. n
    BY <1>1, <2>3, <2>4
  <2>6. R[b] = Show(Held(k - 1), R[b + (k - 1)])
    <3>1. k - 1 \notin S
      BY <2>1, <2>2, <2>5
    <3> QED
      BY <2>5, <3>1 DEF S
  <2>7. R[b + (k - 1)] = Show(<<Prefix[k]>>, R[b + k])
    <3>1. v[b + (k - 1)] = Prefix[k] /\ Prefix[k] # NulChar
      <4>1. b + (k - 1) = b + k - 1
        BY <2>5
      <4> QED
        BY <1>4, <2>5, <4>1, Constants
    <3> QED
      BY <1>10, <2>5, <3>1 DEF Visible
  <2>8. Held(k - 1) \o <<Prefix[k]>> = Held(k)
    <3>1. <<v[b]>> \in Seq(Char) /\ <<Prefix[k]>> \in Seq(Char)
      BY <1>2, <1>4, <2>5, Constants
    <3>2. SubSeq(Prefix, 2, k) = SubSeq(Prefix, 2, k - 1) \o <<Prefix[k]>>
      <4>1. 2 \in 1 .. Len(Prefix) /\ k \in 2 .. Len(Prefix)
        BY <1>1, <2>5
      <4> QED
        BY <1>1, <4>1, SubSeqRecursiveSecond
    <3>3. SubSeq(Prefix, 2, k - 1) \in Seq(Char)
      <4>1. 2 \in Nat /\ k - 1 \in Nat /\ k - 1 <= Len(Prefix)
        BY <1>1, <2>5
      <4> QED
        BY <1>1, <4>1, SubSeqProperties
    <3>4. (<<v[b]>> \o SubSeq(Prefix, 2, k - 1)) \o <<Prefix[k]>>
            = <<v[b]>> \o (SubSeq(Prefix, 2, k - 1) \o <<Prefix[k]>>)
      BY <3>1, <3>3, Associative
    <3> QED
      BY <3>2, <3>4
  <2>9. Show(Held(k - 1), Show(<<Prefix[k]>>, R[b + k])) = Show(Held(k), R[b + k])
    <3>1. /\ Held(k - 1) \in Seq(Char) /\ <<Prefix[k]>> \in Seq(Char)
          /\ R[b + k] \in Result
      BY <1>1, <1>4, <1>8, <1>9, <1>11, <2>5, Constants
    <3> QED
      <4>1. \A t, u \in Seq(Char) : Show(t, Show(u, R[b + k])) = Show(t \o u, R[b + k])
        BY <3>1, ShowTwice
      <4> HIDE DEF Held
      <4> QED
        BY <2>8, <3>1, <4>1
  <2> QED
    BY <2>3, <2>6, <2>7, <2>9
<1>14. R[b] = Show(Held(n), Show(Visible(v[b + n]), R[b + n + 1]))
  <2>1. n \in 1 .. n
    BY <1>1
  <2> QED
    BY <1>10, <1>13, <2>1
<1>15. /\ Held(n) \in Seq(Char) /\ Visible(v[b + n]) \in Seq(Char)
       /\ R[b + n + 1] \in Result
  <2>1. n \in 1 .. n /\ b + n \in 1 .. Len(v) /\ b + n + 1 \in 1 .. Len(v) + 1
    BY <1>1
  <2>2. v[b + n] \in Char
    BY <2>1, ElementOfSeq
  <2> QED
    BY <1>8, <1>11, <2>1, <2>2, VisibleTyped
<1> QED
  BY <1>14, <1>15, ShowTwice DEF R

(* A frame that is closed at s. *)
LEMMA ReadFrame ==
  ASSUME NEW v \in Seq(Char), NEW b \in 1 .. Len(v), OpensAt(v, b),
         NEW s \in b + Len(Prefix) .. Len(v), v[s] \in End \union Abort,
         \A k \in b + Len(Prefix) .. s - 1 : v[k] \notin End \union Abort
  PROVE  Readings(v)[b] =
           IF v[s] \in End
             THEN Command(Text(v, b + Len(Prefix), s), Readings(v)[s + 1])
             ELSE Show(Visible(v[s]), Readings(v)[s + 1])
<1>1. /\ Len(v) \in Nat /\ Len(Prefix) \in Nat /\ Len(Prefix) >= 2
      /\ b \in 1 .. Len(v) + 1
  BY Constants
<1>2. s \in Stops(v, b) /\ Stops(v, b) # {}
  BY DEF Stops
<1>3. Stop(v, b) = s
  <2>1. /\ Stop(v, b) \in Stops(v, b) /\ Stop(v, b) <= s
        /\ Stop(v, b) \in b + Len(Prefix) .. Len(v)
    BY <1>1, <1>2, StopFirst
  <2>2. v[Stop(v, b)] \in End \union Abort
    BY <2>1 DEF Stops
  <2>3. ~ (Stop(v, b) \in b + Len(Prefix) .. s - 1)
    BY <2>2
  <2> QED
    BY <1>1, <2>1, <2>3
<1>4. ReadAt(v, b, Readings(v)) =
        IF v[s] \in End
          THEN Command(Text(v, b + Len(Prefix), s), Readings(v)[s + 1])
          ELSE Show(Visible(v[s]), Readings(v)[s + 1])
  BY <1>1, <1>2, <1>3 DEF ReadAt
<1> QED
  BY <1>1, <1>4, ReadingsAre

-----------------------------------------------------------------------------
(***************************************************************************)
(* The parser.  It is in the middle of something that begins at b, and has *)
(* passed on what a reader of any longer text finds before b.              *)
(***************************************************************************)
Parser == [state : {"idle", "prefix", "text"}, pos : Nat, first : Char,
           text : Seq(Char)]

Position(p, w, b) ==
  /\ b \in 1 .. Len(w) + 1
  /\ p.state = "idle" => b = Len(w) + 1
  /\ p.state = "prefix" => /\ p.pos \in 1 .. Len(Prefix) - 1
                           /\ b + p.pos = Len(w) + 1
                           /\ PrefixFrom(w, b, p.pos) /\ p.first = w[b]
  /\ p.state = "text" => /\ OpensAt(w, b) /\ Stops(w, b) = {}
                         /\ p.text = Text(w, b + Len(Prefix), Len(w) + 1)

PassedOn(w, text, orders, b) ==
  \A v \in Seq(Char) : Extends(v, w) /\ ~Overlap(v)
    => Reading(v) = After(text, orders, Readings(v)[b])

LEMMA ExtendsOne ==
  ASSUME NEW w \in Seq(Char), NEW c \in Char, NEW v \in Seq(Char),
         Extends(v, Append(w, c))
  PROVE  /\ Extends(v, w) /\ v[Len(w) + 1] = c /\ Len(w) + 1 <= Len(v)
<1> DEFINE t == Append(w, c)
<1>1. /\ Len(w) \in Nat /\ Len(t) = Len(w) + 1 /\ t[Len(w) + 1] = c
      /\ \A i \in 1 .. Len(w) : t[i] = w[i]
  BY AppendProperties
<1>2. Len(v) \in Nat /\ Len(t) <= Len(v) /\ \A i \in 1 .. Len(t) : v[i] = t[i]
  BY DEF Extends
<1> HIDE DEF t
<1>3. Len(w) + 1 \in 1 .. Len(t) /\ \A i \in 1 .. Len(w) : i \in 1 .. Len(t)
  BY <1>1
<1> QED
  BY <1>1, <1>2, <1>3 DEF Extends

LEMMA AppendExtends ==
  ASSUME NEW w \in Seq(Char), NEW c \in Char
  PROVE  /\ Extends(Append(w, c), w) /\ Append(w, c) \in Seq(Char)
         /\ Len(Append(w, c)) = Len(w) + 1 /\ Append(w, c)[Len(w) + 1] = c
         /\ Extends(w, w)
BY AppendProperties DEF Extends

LEMMA PassedKept ==
  ASSUME NEW w \in Seq(Char), NEW c \in Char, NEW text, NEW orders, NEW b,
         PassedOn(w, text, orders, b)
  PROVE  PassedOn(Append(w, c), text, orders, b)
BY ExtendsOne DEF PassedOn

LEMMA PassedShow ==
  ASSUME NEW w \in Seq(Char), NEW c \in Char, NEW text \in Seq(Char),
         NEW orders \in Seq(Seq(Char)), NEW b, NEW t \in Seq(Char),
         PassedOn(w, text, orders, b),
         \A v \in Seq(Char) : Extends(v, Append(w, c)) /\ ~Overlap(v)
           => Readings(v)[b] = Show(t, Readings(v)[Len(w) + 2])
  PROVE  PassedOn(Append(w, c), text \o t, orders, Len(w) + 2)
<1> SUFFICES ASSUME NEW v \in Seq(Char), Extends(v, Append(w, c)), ~Overlap(v)
             PROVE  Reading(v)
                      = After(text \o t, orders, Readings(v)[Len(w) + 2])
  BY DEF PassedOn
<1>1. Extends(v, w) /\ Len(w) + 1 <= Len(v)
  BY ExtendsOne
<1>2. Len(w) + 2 \in 1 .. Len(v) + 1
  BY <1>1
<1>3. Readings(v)[Len(w) + 2] \in Result
  BY <1>2, ReadingsAre
<1>4. Reading(v) = After(text, orders, Show(t, Readings(v)[Len(w) + 2]))
  BY <1>1 DEF PassedOn
<1> QED
  BY <1>3, <1>4, AfterMoves

LEMMA PassedOrder ==
  ASSUME NEW w \in Seq(Char), NEW c \in Char, NEW text \in Seq(Char),
         NEW orders \in Seq(Seq(Char)), NEW b, NEW t \in Seq(Char),
         PassedOn(w, text, orders, b),
         \A v \in Seq(Char) : Extends(v, Append(w, c)) /\ ~Overlap(v)
           => Readings(v)[b] = Command(t, Readings(v)[Len(w) + 2])
  PROVE  PassedOn(Append(w, c), text, Append(orders, t), Len(w) + 2)
<1> SUFFICES ASSUME NEW v \in Seq(Char), Extends(v, Append(w, c)), ~Overlap(v)
             PROVE  Reading(v)
                      = After(text, Append(orders, t), Readings(v)[Len(w) + 2])
  BY DEF PassedOn
<1>1. Extends(v, w) /\ Len(w) + 1 <= Len(v)
  BY ExtendsOne
<1>2. Len(w) + 2 \in 1 .. Len(v) + 1
  BY <1>1
<1>3. Readings(v)[Len(w) + 2] \in Result
  BY <1>2, ReadingsAre
<1>4. Reading(v) = After(text, orders, Command(t, Readings(v)[Len(w) + 2]))
  BY <1>1 DEF PassedOn
<1> QED
  BY <1>3, <1>4, AfterMoves

LEMMA SubSeqKept ==
  ASSUME NEW v \in Seq(Char), NEW w \in Seq(Char), Extends(v, w),
         NEW f \in 1 .. Len(w) + 1, NEW m \in f - 1 .. Len(w)
  PROVE  /\ SubSeq(v, f, m) = SubSeq(w, f, m)
         /\ SubSeq(w, f, m) \in Seq(Char) /\ Len(SubSeq(w, f, m)) = m - f + 1
<1>1. Len(v) \in Nat /\ Len(w) \in Nat /\ Len(w) <= Len(v)
  BY DEF Extends
<1>2. \A i \in f .. m : i \in 1 .. Len(w) /\ i \in 1 .. Len(v)
  BY <1>1
<1>3. \A i \in f .. m : w[i] \in Char /\ v[i] \in Char
  BY <1>2, ElementOfSeq
<1> DEFINE s == SubSeq(v, f, m)
           t == SubSeq(w, f, m)
<1>4. /\ s \in Seq(Char) /\ Len(s) = m - f + 1
      /\ \A i \in 1 .. m - f + 1 : s[i] = v[f + i - 1]
  BY <1>1, <1>3, SubSeqProperties
<1>5. /\ t \in Seq(Char) /\ Len(t) = m - f + 1
      /\ \A i \in 1 .. m - f + 1 : t[i] = w[f + i - 1]
  BY <1>1, <1>3, SubSeqProperties
<1> HIDE DEF s, t
<1>6. \A i \in 1 .. m - f + 1 : s[i] = t[i]
  <2> TAKE i \in 1 .. m - f + 1
  <2>1. f + i - 1 \in 1 .. Len(w)
    BY <1>1
  <2> QED
    BY <1>4, <1>5, <2>1 DEF Extends
<1>7. s = t
  BY <1>4, <1>5, <1>6, SeqEqual
<1> QED
  BY <1>5, <1>7 DEF s, t

LEMMA TextKept ==
  ASSUME NEW v \in Seq(Char), NEW w \in Seq(Char), Extends(v, w),
         NEW f \in 1 .. Len(w) + 1
  PROVE  /\ Text(v, f, Len(w) + 1) = Text(w, f, Len(w) + 1)
         /\ Text(w, f, Len(w) + 1) \in Seq(Char)
         /\ Len(Text(w, f, Len(w) + 1)) < CommandMax
              <=> Len(w) + 1 - f < CommandMax
<1> DEFINE m == IF Len(w) + 1 - f < CommandMax THEN Len(w)
                ELSE f + CommandMax - 1
<1>1. Len(w) \in Nat /\ CommandMax \in Nat /\ Len(w) + 1 - 1 = Len(w)
  BY Constants
<1>2. m \in f - 1 .. Len(w)
  BY <1>1
<1>3. (m - f + 1 < CommandMax) <=> (Len(w) + 1 - f < CommandMax)
  BY <1>1
<1>4. Text(v, f, Len(w) + 1) = SubSeq(v, f, m) /\ Text(w, f, Len(w) + 1) = SubSeq(w, f, m)
  BY <1>1 DEF Text
<1> HIDE DEF m
<1> QED
  BY <1>2, <1>3, <1>4, SubSeqKept

LEMMA TextGrows ==
  ASSUME NEW w \in Seq(Char), NEW c \in Char, NEW f \in 1 .. Len(w) + 1
  PROVE  Text(Append(w, c), f, Len(w) + 2)
           = IF Len(w) + 1 - f < CommandMax
               THEN Append(Text(w, f, Len(w) + 1), c)
               ELSE Text(w, f, Len(w) + 1)
<1> DEFINE t == Append(w, c)
           n == Len(w)
<1>1. /\ n \in Nat /\ CommandMax \in Nat /\ t \in Seq(Char) /\ Len(t) = n + 1
      /\ t[n + 1] = c /\ Extends(t, w)
  BY Constants, AppendExtends
<1> HIDE DEF t
<1>2. CASE n + 1 - f < CommandMax
  <2>1. Text(t, f, n + 2) = SubSeq(t, f, n + 1)
    <3>1. n + 2 - 1 = n + 1 /\ (~(n + 2 - f < CommandMax) => f + CommandMax - 1 = n + 1)
      BY <1>1, <1>2
    <3> QED
      BY <3>1 DEF Text
  <2>2. Text(w, f, n + 1) = SubSeq(w, f, n)
    <3>1. n + 1 - 1 = n
      BY <1>1
    <3> QED
      BY <1>2, <3>1 DEF Text
  <2>3. SubSeq(t, f, n + 1) = SubSeq(t, f, n) \o <<t[n + 1]>>
    <3>1. f \in 1 .. Len(t) /\ n + 1 \in f .. Len(t) /\ n + 1 - 1 = n
      BY <1>1
    <3> QED
      <4>1. \A k \in 1 .. Len(t) : \A m \in k .. Len(t) :
              SubSeq(t, k, m) = SubSeq(t, k, m - 1) \o <<t[m]>>
        BY <1>1, SubSeqRecursiveSecond
      <4> QED
        BY <3>1, <4>1
  <2>4. SubSeq(t, f, n) = SubSeq(w, f, n) /\ SubSeq(w, f, n) \in Seq(Char)
    <3>1. n \in f - 1 .. Len(w)
      BY <1>1
    <3> QED
      BY <1>1, <3>1, SubSeqKept
  <2>5. SubSeq(w, f, n) \o <<c>> = Append(SubSeq(w, f, n), c)
    BY <2>4, AppendIsConcat
  <2> QED
    BY <1>1, <1>2, <2>1, <2>2, <2>3, <2>4, <2>5 DEF t
<1>3. CASE ~(n + 1 - f < CommandMax)
  <2>1. Text(t, f, n + 2) = SubSeq(t, f, f + CommandMax - 1)
    <3>1. ~(n + 2 - f < CommandMax)
      BY <1>1, <1>3
    <3> QED
      BY <1>1, <3>1 DEF Text
  <2>2. Text(w, f, n + 1) = SubSeq(w, f, f + CommandMax - 1)
    BY <1>1, <1>3 DEF Text
  <2>3. f + CommandMax - 1 \in f - 1 .. Len(w)
    BY <1>1, <1>3
  <2>4. SubSeq(t, f, f + CommandMax - 1) = SubSeq(w, f, f + CommandMax - 1)
    BY <1>1, <2>3, SubSeqKept
  <2> QED
    BY <1>3, <2>1, <2>2, <2>4 DEF t
<1> QED
  BY <1>2, <1>3

Passed(b) == Position(parser, written, b) /\ PassedOn(written, shown, submitted, b)

Parsed ==
  /\ parser \in Parser /\ written \in Seq(Char)
  /\ shown \in Seq(Char) /\ submitted \in Seq(Seq(Char))
  /\ \E b : Passed(b)

(* What the script is given are characters. *)
Given == \/ UNCHANGED script
         \/ \E text \in Seq(Char) : script' = Observed(script, text)

LEMMA EmitText ==
  ASSUME NEW text \in Seq(Char), Emit(text), shown \in Seq(Char)
  PROVE  Given /\ shown' = shown \o text /\ shown' \in Seq(Char)
BY ConcatProperties DEF Emit, Given

LEMMA IdleParser == Idle \in Parser /\ Idle.state = "idle"
<1>1. NulChar \in Char
  BY TextAssumption
<1> QED
  BY <1>1 DEF Idle, Parser

LEMMA PlainStep ==
  ASSUME Parsed, NEW c \in Char, written' = Append(written, c), Plain(c)
  PROVE  Parsed' /\ Given
<1> DEFINE n == Len(written)
<1>1. /\ parser \in Parser /\ written \in Seq(Char) /\ n \in Nat
      /\ shown \in Seq(Char) /\ submitted \in Seq(Seq(Char))
      /\ parser.state = "idle" /\ c \notin Starts /\ parser' = parser
      /\ submitted' = submitted /\ Emit(Visible(c))
  BY DEF Parsed, Plain
<1>2. PassedOn(written, shown, submitted, n + 1)
  BY <1>1 DEF Parsed, Passed, Position
<1>3. Given /\ shown' = shown \o Visible(c) /\ shown' \in Seq(Char)
  BY <1>1, EmitText, VisibleTyped
<1>4. ASSUME NEW v \in Seq(Char), Extends(v, Append(written, c)), ~Overlap(v)
      PROVE  Readings(v)[n + 1] = Show(Visible(c), Readings(v)[n + 2])
  <2>1. v[n + 1] = c /\ n + 1 <= Len(v)
    BY <1>1, <1>4, ExtendsOne
  <2>2. n + 1 \in 1 .. Len(v) /\ n + 1 + 1 = n + 2
    BY <1>1, <2>1
  <2> QED
    BY <1>1, <2>1, <2>2, ReadPlain
<1>5. PassedOn(Append(written, c), shown \o Visible(c), submitted, n + 2)
  BY <1>1, <1>2, <1>4, PassedShow, VisibleTyped
<1>6. Append(written, c) \in Seq(Char) /\ Len(Append(written, c)) = n + 1
  BY <1>1, AppendExtends
<1>7. Position(parser, Append(written, c), n + 2)
  BY <1>1, <1>6 DEF Position
<1> QED
  BY <1>1, <1>3, <1>5, <1>6, <1>7 DEF Parsed, Passed

LEMMA BeginStep ==
  ASSUME Parsed, NEW c \in Char, written' = Append(written, c), BeginPrefix(c)
  PROVE  Parsed' /\ Given
<1> DEFINE n == Len(written)
           w == Append(written, c)
<1>1. /\ parser \in Parser /\ written \in Seq(Char) /\ n \in Nat
      /\ shown \in Seq(Char) /\ submitted \in Seq(Seq(Char))
      /\ parser.state = "idle" /\ c \in Starts
      /\ parser' = [Idle EXCEPT !.state = "prefix", !.pos = 1, !.first = c]
      /\ submitted' = submitted /\ shown' = shown /\ script' = script
  BY DEF Parsed, BeginPrefix, Swallow
<1>2. PassedOn(written, shown, submitted, n + 1)
  BY <1>1 DEF Parsed, Passed, Position
<1>3. PassedOn(w, shown, submitted, n + 1)
  BY <1>1, <1>2, PassedKept
<1>4. w \in Seq(Char) /\ Len(w) = n + 1 /\ w[n + 1] = c
  BY <1>1, AppendExtends
<1>5. /\ parser' \in Parser /\ parser'.state = "prefix" /\ parser'.pos = 1
      /\ parser'.first = c
  BY <1>1, IdleParser DEF Parser
<1> HIDE DEF w
<1>6. PrefixFrom(w, n + 1, 1)
  BY <1>1, <1>4 DEF PrefixFrom
<1>7. Position(parser', w, n + 1)
  <2>1. 1 \in 1 .. Len(Prefix) - 1 /\ n + 1 \in 1 .. Len(w) + 1
    BY <1>1, <1>4, Constants
  <2> QED
    BY <1>1, <1>4, <1>5, <1>6, <2>1 DEF Position
<1> QED
  BY <1>1, <1>3, <1>4, <1>5, <1>7 DEF Parsed, Passed, Given, w

LEMMA MatchStep ==
  ASSUME Parsed, NEW c \in Char, written' = Append(written, c), MatchPrefix(c)
  PROVE  Parsed' /\ Given
<1> DEFINE n == Len(written)
           w == Append(written, c)
           p == parser.pos
<1>1. /\ parser \in Parser /\ written \in Seq(Char) /\ n \in Nat
      /\ shown \in Seq(Char) /\ submitted \in Seq(Seq(Char))
      /\ parser.state = "prefix" /\ c = Prefix[p + 1]
      /\ parser' = IF p + 1 < Len(Prefix) THEN [parser EXCEPT !.pos = @ + 1]
                   ELSE [Idle EXCEPT !.state = "text"]
      /\ submitted' = submitted /\ shown' = shown /\ script' = script
  BY DEF Parsed, MatchPrefix, Swallow
<1>2. PICK b : Passed(b)
  BY DEF Parsed
<1>3. /\ b \in 1 .. n + 1 /\ p \in 1 .. Len(Prefix) - 1 /\ b + p = n + 1
      /\ PrefixFrom(written, b, p) /\ parser.first = written[b]
  BY <1>1, <1>2 DEF Passed, Position
<1>4. /\ w \in Seq(Char) /\ Len(w) = n + 1 /\ w[n + 1] = c
      /\ Extends(w, written)
  BY <1>1, AppendExtends
<1>5. PassedOn(w, shown, submitted, b)
  BY <1>1, <1>2, PassedKept DEF Passed
<1> HIDE DEF w
<1>6. Len(Prefix) \in Nat /\ Len(Prefix) >= 2
  BY Constants
<1>n. n \in Nat /\ Len(w) = n + 1
  BY <1>1, <1>4
<1>7. PrefixFrom(w, b, p + 1)
  <2>1. p \in Nat /\ p >= 1 /\ b \in Nat /\ b + p <= n + 1
    BY <1>1, <1>3, <1>6
  <2>2. PrefixFrom(w, b, p)
    BY <1>1, <1>3, <1>4, <2>1, PrefixKept
  <2> QED
    BY <1>1, <1>3, <1>4, <2>1, <2>2, PrefixNext
<1>8. w[b] = written[b]
  <2>1. b \in 1 .. Len(written)
    BY <1>1, <1>3, <1>6
  <2> QED
    BY <1>4, <2>1 DEF Extends
<1>9. CASE p + 1 < Len(Prefix)
  <2>1. /\ parser' \in Parser /\ parser'.state = "prefix"
        /\ parser'.pos = p + 1 /\ parser'.first = parser.first
    <3>1. parser' = [parser EXCEPT !.pos = @ + 1] /\ parser \in Parser
      BY <1>1, <1>9
    <3>2. p + 1 \in Nat
      BY <1>3, <1>6
    <3> QED
      BY <1>1, <3>1, <3>2 DEF Parser
  <2>2. /\ p + 1 \in 1 .. Len(Prefix) - 1 /\ b + (p + 1) = Len(w) + 1
        /\ b \in 1 .. Len(w) + 1
    BY <1>n, <1>3, <1>6, <1>9
  <2>3. Position(parser', w, b)
    BY <1>3, <1>7, <1>8, <2>1, <2>2 DEF Position
  <2> QED
    BY <1>1, <1>4, <1>5, <2>1, <2>3 DEF Parsed, Passed, Given, w
<1>10. CASE ~(p + 1 < Len(Prefix))
  <2>1. /\ parser' \in Parser /\ parser'.state = "text"
        /\ parser'.text = <<>>
    BY <1>1, <1>10, IdleParser DEF Parser, Idle
  <2>2. /\ p + 1 = Len(Prefix) /\ b + Len(Prefix) = n + 2
        /\ b + Len(Prefix) - 1 <= Len(w) /\ b \in 1 .. Len(w) + 1
    <3>1. p + 1 = Len(Prefix)
      BY <1>3, <1>6, <1>10
    <3>5. n \in Nat /\ b \in 1 .. n + 1 /\ b + p = n + 1 /\ p \in Nat
      <4>1. p \in Nat
        BY <1>3, <1>6
      <4> QED
        BY <1>n, <1>3, <4>1
    <3> HIDE DEF n, p
    <3>2. b + p + 1 = n + 2 /\ b + (p + 1) = n + 2 /\ b \in Nat /\ b \in 1 .. n + 2
      BY <3>5
    <3>3. b + Len(Prefix) = n + 2
      BY <3>1, <3>2
    <3>4. n + 2 - 1 = n + 1 /\ Len(w) + 1 = n + 2 /\ n + 1 <= Len(w)
      BY <1>n
    <3> QED
      BY <3>1, <3>2, <3>3, <3>4
  <2>3. OpensAt(w, b)
    BY <1>7, <2>2 DEF OpensAt
  <2>4. Stops(w, b) = {}
    BY <1>1, <1>4, <2>2 DEF Stops
  <2>5. Text(w, n + 2, n + 2) = <<>>
    <3>1. /\ n + 2 - 1 = n + 1 /\ n + 2 \in Int /\ n + 1 \in Int /\ n + 1 < n + 2
          /\ CommandMax \in Nat
          /\ (~(n + 2 - (n + 2) < CommandMax) => n + 2 + CommandMax - 1 = n + 1)
      BY <1>1, Constants
    <3>2. Text(w, n + 2, n + 2) = SubSeq(w, n + 2, n + 1)
      BY <3>1 DEF Text
    <3> QED
      BY <3>1, <3>2, SubSeqEmpty
  <2>6. Len(w) + 1 = n + 2
    BY <1>1, <1>4
  <2>7. Position(parser', w, b)
    BY <2>1, <2>2, <2>3, <2>4, <2>5, <2>6 DEF Position
  <2> QED
    BY <1>1, <1>4, <1>5, <2>1, <2>7 DEF Parsed, Passed, Given, w
<1> QED
  BY <1>9, <1>10

LEMMA FailStep ==
  ASSUME Parsed, NEW c \in Char, written' = Append(written, c), FailPrefix(c)
  PROVE  Parsed' /\ Given
<1> DEFINE n == Len(written)
           p == parser.pos
           t == <<parser.first>> \o SubSeq(Prefix, 2, p) \o Visible(c)
<1>1. /\ parser \in Parser /\ written \in Seq(Char) /\ n \in Nat
      /\ shown \in Seq(Char) /\ submitted \in Seq(Seq(Char))
      /\ parser.state = "prefix" /\ c # Prefix[p + 1]
      /\ parser' = Idle /\ submitted' = submitted /\ Emit(t)
  BY DEF Parsed, FailPrefix
<1>2. PICK b : Passed(b)
  BY DEF Parsed
<1>3. /\ b \in 1 .. n + 1 /\ p \in 1 .. Len(Prefix) - 1 /\ b + p = n + 1
      /\ PrefixFrom(written, b, p) /\ parser.first = written[b]
      /\ PassedOn(written, shown, submitted, b)
  BY <1>1, <1>2 DEF Passed, Position
<1>4. /\ Append(written, c) \in Seq(Char) /\ Len(Append(written, c)) = n + 1
  BY <1>1, AppendExtends
<1>5. Len(Prefix) \in Nat /\ Len(Prefix) >= 2
  BY Constants
<1>6. t \in Seq(Char)
  <2>1. \A j \in 2 .. p : Prefix[j] \in Char
    BY <1>3, <1>5, Constants
  <2>2. SubSeq(Prefix, 2, p) \in Seq(Char)
    BY <1>3, <1>5, <2>1, SubSeqProperties
  <2>3. <<parser.first>> \in Seq(Char) /\ Visible(c) \in Seq(Char)
    BY <1>1, VisibleTyped DEF Parser
  <2> QED
    BY <2>2, <2>3, ConcatProperties
<1> HIDE DEF t
<1>7. Given /\ shown' = shown \o t /\ shown' \in Seq(Char)
  BY <1>1, <1>6, EmitText
<1>8. ASSUME NEW v \in Seq(Char), Extends(v, Append(written, c)), ~Overlap(v)
      PROVE  Readings(v)[b] = Show(t, Readings(v)[n + 2])
  <2>1. v[n + 1] = c /\ n + 1 <= Len(v) /\ Extends(v, written)
    BY <1>1, <1>8, ExtendsOne
  <2>2. /\ b \in 1 .. Len(v) /\ b + p <= Len(v) /\ b + p + 1 = n + 2
        /\ b \in 1 .. n /\ p \in Nat /\ b + p <= n + 1
    BY <1>1, <1>3, <1>5, <2>1
  <2>3. PrefixFrom(v, b, p)
    BY <1>1, <1>3, <2>1, <2>2, PrefixKept
  <2>4. v[b] = parser.first
    BY <1>3, <2>1, <2>2 DEF Extends
  <2>5. v[b + p] = c
    BY <1>3, <2>1
  <2>6. Readings(v)[b] = Show(<<v[b]>> \o SubSeq(Prefix, 2, p) \o Visible(v[b + p]),
                              Readings(v)[b + p + 1])
    BY <1>1, <1>3, <1>8, <2>2, <2>3, <2>5, ReadFailed
  <2> QED
    BY <2>2, <2>4, <2>5, <2>6 DEF t
<1>9. PassedOn(Append(written, c), shown \o t, submitted, n + 2)
  BY <1>1, <1>3, <1>6, <1>8, PassedShow
<1>10. Position(Idle, Append(written, c), n + 2)
  BY <1>1, <1>4, IdleParser DEF Position
<1> QED
  BY <1>1, <1>4, <1>7, <1>9, <1>10, IdleParser DEF Parsed, Passed

(* In a frame that opened at b and has no end yet. *)
InFrame(b) ==
  /\ b \in 1 .. Len(written) /\ b + Len(Prefix) \in 1 .. Len(written) + 1
  /\ OpensAt(written, b) /\ Stops(written, b) = {}
  /\ parser.text = Text(written, b + Len(Prefix), Len(written) + 1)
  /\ PassedOn(written, shown, submitted, b)

LEMMA FrameOpen ==
  ASSUME Parsed, parser.state = "text"
  PROVE  \E b : InFrame(b)
<1>1. PICK b : Passed(b)
  BY DEF Parsed
<1>2. /\ b \in 1 .. Len(written) + 1 /\ OpensAt(written, b)
      /\ Stops(written, b) = {}
      /\ parser.text = Text(written, b + Len(Prefix), Len(written) + 1)
      /\ PassedOn(written, shown, submitted, b)
  BY <1>1 DEF Passed, Position
<1>3. b + Len(Prefix) - 1 <= Len(written)
  BY <1>2 DEF OpensAt
<1>4. Len(Prefix) \in Nat /\ Len(Prefix) >= 2 /\ Len(written) \in Nat
  BY Constants DEF Parsed
<1>5. b \in 1 .. Len(written) /\ b + Len(Prefix) \in 1 .. Len(written) + 1
  BY <1>2, <1>3, <1>4
<1> QED
  BY <1>2, <1>5 DEF InFrame

(* What a longer text says of a frame that is closed by c. *)
LEMMA FrameClosed ==
  ASSUME Parsed, NEW b, InFrame(b), NEW c \in End \union Abort,
         NEW v \in Seq(Char), Extends(v, Append(written, c))
  PROVE  Readings(v)[b] =
           IF c \in End THEN Command(parser.text, Readings(v)[Len(written) + 2])
           ELSE Show(Visible(c), Readings(v)[Len(written) + 2])
<1> DEFINE n == Len(written)
           f == b + Len(Prefix)
<1>1. written \in Seq(Char) /\ n \in Nat /\ c \in Char
  BY TextAssumption DEF Parsed
<1>2. Extends(v, written) /\ v[n + 1] = c /\ n + 1 <= Len(v) /\ Len(v) \in Nat
  BY <1>1, ExtendsOne
<1>3. /\ b \in 1 .. n /\ f \in 1 .. n + 1 /\ f <= n + 1
      /\ OpensAt(written, b) /\ Stops(written, b) = {}
      /\ parser.text = Text(written, f, n + 1)
  BY <1>1 DEF InFrame
<1>4. Len(Prefix) \in Nat
  BY Constants
<1>5. OpensAt(v, b)
  <2>1. /\ b \in 1 .. n + 1 /\ b + Len(Prefix) <= n + 1
        /\ b + Len(Prefix) - 1 <= Len(v)
    BY <1>1, <1>2, <1>3, <1>4
  <2>2. PrefixFrom(written, b, Len(Prefix))
    BY <1>3 DEF OpensAt
  <2>3. PrefixFrom(v, b, Len(Prefix))
    BY <1>1, <1>2, <1>4, <2>1, <2>2, PrefixKept
  <2> QED
    BY <2>1, <2>3 DEF OpensAt
<1>6. n + 1 \in f .. Len(v)
  BY <1>1, <1>2, <1>3
<1>7. \A k \in f .. n + 1 - 1 : v[k] \notin End \union Abort
  <2> TAKE k \in f .. n + 1 - 1
  <2>1. k \in f .. n /\ k \in 1 .. n
    BY <1>1, <1>3
  <2>2. written[k] \notin End \union Abort
    BY <1>3, <2>1 DEF Stops
  <2> QED
    BY <1>2, <2>1, <2>2 DEF Extends
<1>8. Text(v, f, n + 1) = parser.text
  BY <1>1, <1>2, <1>3, TextKept
<1>9. b \in 1 .. Len(v) /\ n + 1 + 1 = n + 2
  BY <1>1, <1>2, <1>3
<1>10. Readings(v)[b] =
         IF v[n + 1] \in End THEN Command(Text(v, f, n + 1), Readings(v)[n + 1 + 1])
         ELSE Show(Visible(v[n + 1]), Readings(v)[n + 1 + 1])
  BY <1>2, <1>5, <1>6, <1>7, <1>9, ReadFrame
<1> QED
  BY <1>2, <1>8, <1>9, <1>10

LEMMA EndStep ==
  ASSUME Parsed, NEW c \in Char, written' = Append(written, c), EndFrame(c)
  PROVE  Parsed' /\ Given
<1> DEFINE n == Len(written)
<1>1. /\ parser \in Parser /\ written \in Seq(Char) /\ n \in Nat
      /\ shown \in Seq(Char) /\ submitted \in Seq(Seq(Char))
      /\ parser.state = "text" /\ c \in End /\ c \in End \union Abort
      /\ parser' = Idle /\ submitted' = Append(submitted, parser.text)
      /\ shown' = shown /\ script' = script /\ parser.text \in Seq(Char)
  BY DEF Parsed, EndFrame, Parser
<1>2. PICK b : InFrame(b)
  BY <1>1, FrameOpen
<1>3. ASSUME NEW v \in Seq(Char), Extends(v, Append(written, c)), ~Overlap(v)
      PROVE  Readings(v)[b] = Command(parser.text, Readings(v)[n + 2])
  BY <1>1, <1>2, <1>3, FrameClosed
<1>4. PassedOn(Append(written, c), shown, Append(submitted, parser.text), n + 2)
  BY <1>1, <1>2, <1>3, PassedOrder DEF InFrame
<1>5. Append(written, c) \in Seq(Char) /\ Len(Append(written, c)) = n + 1
  BY <1>1, AppendExtends
<1>6. Position(Idle, Append(written, c), n + 2)
  BY <1>1, <1>5, IdleParser DEF Position
<1>7. submitted' \in Seq(Seq(Char))
  BY <1>1, AppendProperties
<1> QED
  BY <1>1, <1>4, <1>5, <1>6, <1>7, IdleParser DEF Parsed, Passed, Given

LEMMA AbortStep ==
  ASSUME Parsed, NEW c \in Char, written' = Append(written, c), AbortFrame(c)
  PROVE  Parsed' /\ Given
<1> DEFINE n == Len(written)
<1>1. /\ parser \in Parser /\ written \in Seq(Char) /\ n \in Nat
      /\ shown \in Seq(Char) /\ submitted \in Seq(Seq(Char))
      /\ parser.state = "text" /\ c \in Abort /\ c \in End \union Abort
      /\ parser' = Idle /\ submitted' = submitted /\ Emit(Visible(c))
  BY DEF Parsed, AbortFrame
<1>2. c \notin End
  BY <1>1, TextAssumption
<1>3. PICK b : InFrame(b)
  BY <1>1, FrameOpen
<1>4. Given /\ shown' = shown \o Visible(c) /\ shown' \in Seq(Char)
  BY <1>1, EmitText, VisibleTyped
<1>5. ASSUME NEW v \in Seq(Char), Extends(v, Append(written, c)), ~Overlap(v)
      PROVE  Readings(v)[b] = Show(Visible(c), Readings(v)[n + 2])
  BY <1>1, <1>2, <1>3, <1>5, FrameClosed
<1>6. PassedOn(Append(written, c), shown \o Visible(c), submitted, n + 2)
  BY <1>1, <1>3, <1>5, PassedShow, VisibleTyped DEF InFrame
<1>7. Append(written, c) \in Seq(Char) /\ Len(Append(written, c)) = n + 1
  BY <1>1, AppendExtends
<1>8. Position(Idle, Append(written, c), n + 2)
  BY <1>1, <1>7, IdleParser DEF Position
<1> QED
  BY <1>1, <1>4, <1>6, <1>7, <1>8, IdleParser DEF Parsed, Passed

LEMMA KeepStep ==
  ASSUME Parsed, NEW c \in Char, written' = Append(written, c), KeepText(c)
  PROVE  Parsed' /\ Given
<1> DEFINE n == Len(written)
           w == Append(written, c)
<1>1. /\ parser \in Parser /\ written \in Seq(Char) /\ n \in Nat
      /\ shown \in Seq(Char) /\ submitted \in Seq(Seq(Char))
      /\ parser.state = "text" /\ c \notin End \union Abort
      /\ parser' = IF Len(parser.text) < CommandMax
                     THEN [parser EXCEPT !.text = Append(@, c)] ELSE parser
      /\ submitted' = submitted /\ shown' = shown /\ script' = script
      /\ parser.text \in Seq(Char)
  BY DEF Parsed, KeepText, Swallow, Parser
<1>2. PICK b : InFrame(b)
  BY <1>1, FrameOpen
<1> DEFINE f == b + Len(Prefix)
<1>3. /\ b \in 1 .. n /\ f \in 1 .. n + 1
      /\ OpensAt(written, b) /\ Stops(written, b) = {}
      /\ parser.text = Text(written, f, n + 1)
      /\ PassedOn(written, shown, submitted, b)
  BY <1>1, <1>2 DEF InFrame
<1>4. /\ w \in Seq(Char) /\ Len(w) = n + 1 /\ w[n + 1] = c /\ Extends(w, written)
  BY <1>1, AppendExtends
<1>5. PassedOn(w, shown, submitted, b)
  BY <1>1, <1>3, PassedKept
<1>6. Text(w, f, n + 2) = IF Len(parser.text) < CommandMax
                            THEN Append(parser.text, c) ELSE parser.text
  <2>1. Len(parser.text) < CommandMax <=> n + 1 - f < CommandMax
    BY <1>1, <1>3, <1>4, TextKept
  <2> QED
    BY <1>1, <1>3, <2>1, TextGrows
<1> HIDE DEF w
<1>7. /\ parser' \in Parser /\ parser'.state = "text"
      /\ parser'.text = Text(w, f, n + 2)
  <2>1. CASE Len(parser.text) < CommandMax
    <3>1. Append(parser.text, c) \in Seq(Char)
      BY <1>1, AppendProperties
    <3> QED
      BY <1>1, <1>6, <2>1, <3>1 DEF Parser
  <2>2. CASE ~(Len(parser.text) < CommandMax)
    BY <1>1, <1>6, <2>2
  <2> QED
    BY <2>1, <2>2
<1>8. OpensAt(w, b)
  <2>1. Len(Prefix) \in Nat
    BY Constants
  <2>2. /\ b \in 1 .. n + 1 /\ b + Len(Prefix) <= n + 1
        /\ b + Len(Prefix) - 1 <= Len(w)
    BY <1>1, <1>3, <1>4, <2>1
  <2>3. PrefixFrom(w, b, Len(Prefix))
    BY <1>1, <1>3, <1>4, <2>1, <2>2, PrefixKept DEF OpensAt
  <2> QED
    BY <2>2, <2>3 DEF OpensAt
<1>9. Stops(w, b) = {}
  <2> SUFFICES ASSUME NEW k \in f .. Len(w)
               PROVE  w[k] \notin End \union Abort
    BY DEF Stops
  <2>1. CASE k = n + 1
    BY <1>1, <1>4, <2>1
  <2>2. CASE k # n + 1
    <3>1. k \in f .. n /\ k \in 1 .. n
      BY <1>1, <1>3, <1>4, <2>2
    <3>2. written[k] \notin End \union Abort
      BY <1>3, <3>1 DEF Stops
    <3> QED
      BY <1>4, <3>1, <3>2 DEF Extends
  <2> QED
    BY <2>1, <2>2
<1>10. Position(parser', w, b)
  <2>1. b \in 1 .. Len(w) + 1 /\ Len(w) + 1 = n + 2
    BY <1>1, <1>3, <1>4
  <2> QED
    BY <1>7, <1>8, <1>9, <2>1 DEF Position
<1> QED
  BY <1>1, <1>4, <1>5, <1>7, <1>10 DEF Parsed, Passed, Given, w

LEMMA PrintStep ==
  ASSUME Parsed, NEW c \in Char, PrintOne(c)
  PROVE  Parsed' /\ Given
BY PlainStep, BeginStep, MatchStep, FailStep, EndStep, AbortStep, KeepStep
   DEF PrintOne

LEMMA ParsedStart ==
  /\ parser = Idle /\ written = <<>> /\ shown = <<>> /\ submitted = <<>> => Parsed
  /\ parser' = Idle /\ written' = <<>> /\ shown' = <<>> /\ submitted' = <<>>
       => Parsed'
<1>1. Position(Idle, <<>>, 1)
  BY IdleParser DEF Position
<1>2. PassedOn(<<>>, <<>>, <<>>, 1)
  <2> SUFFICES ASSUME NEW v \in Seq(Char)
               PROVE  Reading(v) = After(<<>>, <<>>, Readings(v)[1])
    BY DEF PassedOn
  <2>1. 1 \in 1 .. Len(v) + 1
    OBVIOUS
  <2>2. Readings(v)[1] \in Result
    BY <2>1, ReadingsAre
  <2>3. <<>> \in Seq(Char) /\ <<>> \in Seq(Seq(Char))
    OBVIOUS
  <2> QED
    BY <2>2, <2>3, AfterMoves DEF Reading
<1>3. <<>> \in Seq(Char) /\ <<>> \in Seq(Seq(Char))
  OBVIOUS
<1> QED
  BY <1>1, <1>2, <1>3, IdleParser DEF Parsed, Passed

-----------------------------------------------------------------------------
(***************************************************************************)
(* The script and its answers.                                             *)
(***************************************************************************)
Scripted ==
  /\ Reliable(script, Typed(script))
  /\ answers = [i \in 1 .. Typed(script) |-> Steps[i].reply]

LEMMA ScriptedStart ==
  /\ script = ArmedScript /\ answers = <<>> => Scripted
  /\ script' = ArmedScript /\ answers' = <<>> => Scripted'
<1> DEFINE s == ArmedScript
<1>1. /\ s.step = 1 /\ s.match = 0 /\ s.pending = FALSE /\ s.heard = <<>>
  BY DEF ArmedScript
<1>2. s \in Script
  <2>1. 1 \in 1 .. Len(Steps) + 1
    BY TextAssumption
  <2> QED
    BY <2>1 DEF ArmedScript, Script
<1> HIDE DEF s
<1>3. Typed(s) = 0
  BY <1>1 DEF Typed
<1>4. Following(s) /\ Attentive(s)
  <2> SUFFICES ASSUME Armed(s) PROVE Following(s) /\ Attentive(s)
    BY <1>1 DEF Following, Attentive
  <2> DEFINE x == Steps[s.step].expect
  <2>1. x \in Seq(Char)
    BY <1>1, TextAssumption DEF Armed
  <2> HIDE DEF x
  <2>2. x # <<>> => 0 < Len(x)
    BY <2>1
  <2>3. Shows(x, 0, <<>>, 0)
    BY DEF Shows
  <2>4. \A k \in 0 + 1 .. Len(x) : ~Shows(x, k, <<>>, 0)
    BY <2>1 DEF Shows
  <2>5. ~Within(x, <<>>)
    BY DEF Within
  <2> QED
    BY <1>1, <2>2, <2>3, <2>4, <2>5 DEF Following, Attentive, x
<1>5. <<>> = [i \in 1 .. 0 |-> Steps[i].reply]
  OBVIOUS
<1> QED
  BY <1>2, <1>3, <1>4, <1>5 DEF Scripted, Reliable, s

LEMMA AnswerStep ==
  ASSUME Scripted, Answer
  PROVE  Scripted'
<1> DEFINE s == script
           t == [script EXCEPT !.pending = FALSE, !.heard = <<>>]
           k == s.step - 2
           R == {Steps[i].reply : i \in 1 .. k + 1}
<1>1. /\ s \in Script /\ Following(s) /\ s.pending /\ Typed(s) = k
      /\ script' = t /\ answers' = Append(answers, Steps[s.step - 1].reply)
      /\ answers = [i \in 1 .. k |-> Steps[i].reply]
  BY DEF Scripted, Reliable, Answer, Typed
<1>2. k \in Nat /\ s.match = 0 /\ s.step - 1 = k + 1
  BY <1>1, TextAssumption DEF Following, Script
<1>3. answers' = [i \in 1 .. k + 1 |-> Steps[i].reply]
  <2> DEFINE a == answers
             b == [i \in 1 .. k + 1 |-> Steps[i].reply]
             e == Steps[k + 1].reply
  <2>1. a \in Seq(R) /\ Len(a) = k /\ \A i \in 1 .. k : a[i] = Steps[i].reply
    <3>1. \A i \in 1 .. k : Steps[i].reply \in R
      BY <1>2
    <3> HIDE DEF R
    <3> QED
      BY <1>1, <1>2, <3>1
  <2>2. b \in Seq(R) /\ Len(b) = k + 1 /\ \A i \in 1 .. k + 1 : b[i] = Steps[i].reply
    <3>1. \A i \in 1 .. k + 1 : Steps[i].reply \in R
      BY <1>2
    <3> HIDE DEF R
    <3> QED
      BY <1>2, <3>1
  <2>3. e \in R
    BY <1>2
  <2> HIDE DEF R, a, b, e
  <2>4. /\ Append(a, e) \in Seq(R) /\ Len(Append(a, e)) = k + 1
        /\ Append(a, e)[k + 1] = e /\ \A i \in 1 .. k : Append(a, e)[i] = a[i]
    BY <2>1, <2>3, AppendProperties
  <2>5. \A i \in 1 .. k + 1 : Append(a, e)[i] = b[i]
    <3> TAKE i \in 1 .. k + 1
    <3>1. CASE i = k + 1
      BY <2>2, <2>4, <3>1 DEF e
    <3>2. CASE i # k + 1
      <4>1. i \in 1 .. k
        BY <1>2, <3>2
      <4> QED
        BY <2>1, <2>2, <2>4, <4>1
    <3> QED
      BY <3>1, <3>2
  <2>6. Append(a, e) = b
    BY <2>2, <2>4, <2>5, SeqEqual
  <2> QED
    BY <1>1, <1>2, <2>6 DEF a, b, e
<1>4. /\ t \in Script /\ t.step = s.step /\ t.match = 0 /\ ~t.pending
      /\ t.heard = <<>>
  <2>1. s \in Script /\ <<>> \in Seq(Char)
    BY <1>1
  <2> HIDE DEF s
  <2>2. t \in Script
    BY <2>1 DEF Script, s
  <2>3. t.step = s.step /\ t.match = s.match /\ t.heard = <<>>
    BY <2>1 DEF Script, s
  <2>4. t.pending = FALSE
    BY <2>1 DEF Script, s
  <2> QED
    BY <1>2, <2>2, <2>3, <2>4
<1> HIDE DEF s, t, k, R
<1>5. Typed(t) = k + 1
  BY <1>2, <1>4 DEF Typed
<1>6. Following(t) /\ Attentive(t)
  <2> SUFFICES ASSUME Armed(t) PROVE Following(t) /\ Attentive(t)
    BY <1>4 DEF Following, Attentive
  <2> DEFINE x == Steps[t.step].expect
  <2>1. x \in Seq(Char)
    BY <1>4, TextAssumption DEF Armed, Script
  <2> HIDE DEF x
  <2>2. x # <<>> => 0 < Len(x)
    BY <2>1
  <2>3. Shows(x, 0, <<>>, 0)
    BY DEF Shows
  <2>4. \A j \in 0 + 1 .. Len(x) : ~Shows(x, j, <<>>, 0)
    BY <2>1 DEF Shows
  <2>5. ~Within(x, <<>>)
    BY DEF Within
  <2> QED
    BY <1>4, <2>2, <2>3, <2>4, <2>5 DEF Following, Attentive, x
<1> QED
  BY <1>1, <1>3, <1>4, <1>5, <1>6 DEF Scripted, Reliable

LEMMA GivenStep ==
  ASSUME Scripted, Given, answers' = answers
  PROVE  Scripted'
<1>1. CASE UNCHANGED script
  BY <1>1 DEF Scripted
<1>2. ASSUME NEW text \in Seq(Char), script' = Observed(script, text)
      PROVE  Scripted'
  <2>1. Reliable(script', Typed(script))
    BY <1>2, ObservedReliable DEF Scripted
  <2>2. Typed(script') = Typed(script)
    BY <2>1 DEF Reliable
  <2> QED
    BY <2>1, <2>2 DEF Scripted
<1> QED
  BY <1>1, <1>2 DEF Given

-----------------------------------------------------------------------------
GuestInv == Parsed /\ Scripted

LEMMA GuestInvInit == GuestInit => GuestInv
BY ParsedStart, ScriptedStart DEF GuestInit, GuestInv

LEMMA GuestInvStep == GuestInv /\ [GuestNext]_textVars => GuestInv'
<1> SUFFICES ASSUME GuestInv, [GuestNext]_textVars PROVE GuestInv'
  OBVIOUS
<1>1. Parsed /\ Scripted
  BY DEF GuestInv
<1>2. CASE Answer
  <2>1. Scripted'
    BY <1>1, <1>2, AnswerStep
  <2>2. Parsed'
    BY <1>1, <1>2 DEF Answer, Parsed, Passed
  <2> QED
    BY <2>1, <2>2 DEF GuestInv
<1>3. CASE Reset
  BY <1>3, ParsedStart, ScriptedStart DEF Reset, Disarm, GuestInv
<1>4. ASSUME NEW c \in Char, PrintOne(c)
      PROVE  GuestInv'
  BY <1>1, <1>4, PrintStep, GivenStep DEF PrintOne, GuestInv
<1>5. CASE UNCHANGED textVars
  BY <1>1, <1>5 DEF textVars, GuestInv, Parsed, Passed, Scripted
<1> QED
  BY <1>2, <1>3, <1>4, <1>5 DEF GuestNext

LEMMA GuestInvariance == GuestSpec => []GuestInv
BY GuestInvInit, GuestInvStep, PTL DEF GuestSpec

(* Frames and nothing else are taken out of what the guest prints, for     *)
(* every alphabet, prefix and text in which no failed match hides another. *)
THEOREM FramesTaken == GuestSpec => []Transparent
<1>1. ASSUME Parsed, ~Overlap(written)
      PROVE  Reading(written) = [shown |-> shown, commands |-> submitted]
  <2> DEFINE n == Len(written)
  <2>1. PICK b : Passed(b)
    BY <1>1 DEF Parsed
  <2>2. /\ written \in Seq(Char) /\ n \in Nat /\ b \in 1 .. n + 1
        /\ shown \in Seq(Char) /\ submitted \in Seq(Seq(Char))
        /\ Extends(written, written)
    BY <1>1, <2>1 DEF Parsed, Passed, Position, Extends
  <2>3. Reading(written) = After(shown, submitted, Readings(written)[b])
    BY <1>1, <2>1, <2>2 DEF Passed, PassedOn
  <2>c. Len(Prefix) \in Nat /\ Len(Prefix) >= 2
    BY Constants
  <2>4. ReadAt(written, b, Readings(written)) = Nothing
    <3>1. CASE parser.state = "idle"
      <4>1. b > n
        BY <2>1, <2>2, <3>1 DEF Passed, Position
      <4> QED
        BY <2>2, <4>1 DEF ReadAt
    <3>2. CASE parser.state = "prefix"
      <4>1. /\ parser.pos \in 1 .. Len(Prefix) - 1 /\ b + parser.pos = n + 1
            /\ PrefixFrom(written, b, parser.pos)
        BY <2>1, <3>2 DEF Passed, Position
      <4>2. /\ n - b + 1 = parser.pos /\ b <= n /\ n - b + 1 < Len(Prefix)
            /\ ~(b + Len(Prefix) - 1 <= n)
        <5> DEFINE p == parser.pos
                   m == Len(Prefix)
        <5>1. /\ p \in 1 .. m - 1 /\ b + p = n + 1 /\ n \in Nat
              /\ b \in 1 .. n + 1 /\ m \in Nat
          BY <2>2, <2>c, <4>1
        <5> HIDE DEF n, p, m
        <5>2. n - b + 1 = p /\ b <= n /\ n - b + 1 < m /\ ~(b + m - 1 <= n)
          BY <5>1
        <5> QED
          BY <5>2 DEF p, m
      <4>3. HeldFrom(written, b) /\ ~OpensAt(written, b)
        BY <4>1, <4>2 DEF HeldFrom, OpensAt
      <4> QED
        BY <2>2, <4>2, <4>3 DEF ReadAt
    <3>3. CASE parser.state = "text"
      <4>1. PICK d : InFrame(d)
        BY <1>1, <3>3, FrameOpen
      <4>2. OpensAt(written, b) /\ Stops(written, b) = {}
        BY <2>1, <3>3 DEF Passed, Position
      <4>3. b <= n
        BY <2>2, <2>c, <4>2 DEF OpensAt
      <4> QED
        BY <2>2, <4>2, <4>3 DEF ReadAt
    <3> QED
      BY <1>1, <3>1, <3>2, <3>3 DEF Parsed, Parser
  <2>5. Readings(written)[b] = Nothing
    BY <2>2, <2>4, ReadingsAre
  <2>6. Nothing \in Result /\ <<>> \in Seq(Char)
    BY DEF Nothing, Result
  <2> QED
    BY <2>2, <2>3, <2>5, <2>6, AfterMoves
<1>2. GuestInv => Transparent
  BY <1>1 DEF GuestInv, Transparent
<1> QED
  BY <1>2, GuestInvariance, PTL

(* An answer is only due when its prompt has just been shown, and the      *)
(* answers typed are those of the script, in order and each once, whatever *)
(* the prompts are.                                                        *)
AnswersAsked ==
  /\ script.pending =>
       /\ script.step > 1
       /\ Ends(Steps[script.step - 1].expect, script.heard)
  /\ answers = [i \in 1 .. Typed(script) |-> Steps[i].reply]

THEOREM AnswersGiven == GuestSpec => []AnswersAsked
<1>1. GuestInv => AnswersAsked
  BY DEF GuestInv, Scripted, Reliable, Following, AnswersAsked
<1> QED
  BY <1>1, GuestInvariance, PTL

(* No prompt is missed either, for scripts in which the first character of *)
(* a prompt does not come again in it.                                     *)
THEOREM PromptsAnswered ==
  ASSUME FirstOnce
  PROVE  GuestSpec => []AnswersPrompts
<1>1. GuestInv => AnswersPrompts
  <2> SUFFICES ASSUME Scripted PROVE AnswersPrompts
    BY DEF GuestInv
  <2>1. /\ script \in Script /\ Following(script) /\ Attentive(script)
        /\ answers = [i \in 1 .. Typed(script) |-> Steps[i].reply]
    BY DEF Scripted, Reliable
  <2>2. /\ script.step - 1 - 1 = script.step - 2
        /\ script.step > 1 => script.step - 1 > 0
    BY <2>1, TextAssumption DEF Script
  <2>3. Typed(script) = IF script.pending THEN script.step - 1 - 1
                        ELSE script.step - 1
    BY <2>2 DEF Typed
  <2> QED
    BY <2>1, <2>2, <2>3 DEF Following, Attentive, AnswersPrompts
<1> QED
  BY <1>1, GuestInvariance, PTL
=============================================================================
