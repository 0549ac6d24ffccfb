------------------------------ MODULE SpscFifo ------------------------------
(***************************************************************************)
(* class Fifo: the lock-free byte ring between a producer task and a       *)
(* consumer task.  There is one step per access to a cursor or a slot that *)
(* the other task may access too.  A task reads its own cursor without     *)
(* synchronisation; the release store of a cursor and the acquire load by  *)
(* the other side order the slots around it, so steps are sequentially     *)
(* consistent.                                                             *)
(***************************************************************************)
EXTENDS Naturals, Sequences

CONSTANTS
  Size,     (* slots of the storage, a power of two; one stays free        *)
  Byte,     (* byte values                                                 *)
  Nul       (* the value of zeroed storage                                 *)

ASSUME FifoAssumption ==
  /\ Size \in Nat /\ Size >= 2
  /\ Nul \in Byte

Cursor == 0 .. Size - 1

(* (i + n) & mask and (h - t) & mask, for i, h, t \in Cursor, n <= Size.   *)
Advance(i, n) == IF i + n < Size THEN i + n ELSE i + n - Size
Distance(t, h) == IF t <= h THEN h - t ELSE h + Size - t

VARIABLES
  head,     (* next slot to write, owned by the producer                   *)
  tail,     (* next slot to read, owned by the consumer                    *)
  buf,      (* the storage                                                 *)
  wpc,      (* the next access of push                                     *)
  wbyte,    (* the argument of push                                        *)
  accepted, (* what the last push returned                                 *)
  rpc,      (* the next access of pop, peek and consume, or clear          *)
  run,      (* the consumer's count of bytes to read, consume or discard   *)
  got,      (* the bytes the consumer has read and not yet consumed        *)
  out       (* the bytes of the last pop, or peek and consume              *)

writerVars == <<wpc, wbyte, accepted>>
readerVars == <<rpc, run, got, out>>
fifoVars == <<head, tail, buf, writerVars, readerVars>>

Count == Distance(tail, head)
Contents == [i \in 1 .. Count |-> buf[Advance(tail, i - 1)]]

-----------------------------------------------------------------------------
(***************************************************************************)
(* push.                                                                   *)
(***************************************************************************)
(* Mutant: no slot is kept free. *)
PushTestFills(b) ==
  /\ wpc = "idle"
  /\ wbyte' = b
  /\ wpc' = "store"
  /\ UNCHANGED <<head, tail, buf, accepted, readerVars>>

(* The load of tail, which decides whether there is room. *)
PushTest(b) ==
  /\ wpc = "idle"
  /\ Advance(head, 1) # tail
  /\ wbyte' = b
  /\ wpc' = "store"
  /\ UNCHANGED <<head, tail, buf, accepted, readerVars>>

PushFull ==
  /\ wpc = "idle"
  /\ Advance(head, 1) = tail
  /\ accepted' = FALSE
  /\ UNCHANGED <<head, tail, buf, wpc, wbyte, readerVars>>

PushStore ==
  /\ wpc = "store"
  /\ buf' = [buf EXCEPT ![head] = wbyte]
  /\ wpc' = "publish"
  /\ UNCHANGED <<head, tail, wbyte, accepted, readerVars>>

(* Mutant: the cursor is not masked. *)
PushPublishUnmasked ==
  /\ wpc = "publish"
  /\ head' = head + 1
  /\ accepted' = TRUE
  /\ wpc' = "idle"
  /\ UNCHANGED <<tail, buf, wbyte, readerVars>>

PushPublish ==
  /\ wpc = "publish"
  /\ head' = Advance(head, 1)
  /\ accepted' = TRUE
  /\ wpc' = "idle"
  /\ UNCHANGED <<tail, buf, wbyte, readerVars>>

-----------------------------------------------------------------------------
(***************************************************************************)
(* peek and consume.  peek returns the length of the contiguous run at     *)
(* tail; the caller uses n of its bytes and consumes them.  pop is the     *)
(* same with n = 1.                                                        *)
(***************************************************************************)
Peek ==
  /\ rpc = "idle"
  /\ head # tail
  /\ run' = IF Count < Size - tail THEN Count ELSE Size - tail
  /\ rpc' = "read"
  /\ UNCHANGED <<head, tail, buf, writerVars, got, out>>

Read(n) ==
  /\ rpc = "read"
  /\ got' = [i \in 1 .. n |-> buf[tail + i - 1]]
  /\ run' = n
  /\ rpc' = "consume"
  /\ UNCHANGED <<head, tail, buf, writerVars, out>>

(* Mutant: the whole run is consumed, not the part that was used. *)
ConsumeRun ==
  /\ rpc = "consume"
  /\ tail' = head
  /\ out' = got
  /\ rpc' = "idle" /\ run' = 0 /\ got' = <<>>
  /\ UNCHANGED <<head, buf, writerVars>>

Consume ==
  /\ rpc = "consume"
  /\ tail' = Advance(tail, run)
  /\ out' = got
  /\ rpc' = "idle" /\ run' = 0 /\ got' = <<>>
  /\ UNCHANGED <<head, buf, writerVars>>

(* clear, called by the consumer: the load of head and the store of tail.  *)
ClearLoad ==
  /\ rpc = "idle"
  /\ run' = Count
  /\ rpc' = "clear"
  /\ UNCHANGED <<head, tail, buf, writerVars, got, out>>

ClearStore ==
  /\ rpc = "clear"
  /\ tail' = Advance(tail, run)
  /\ rpc' = "idle" /\ run' = 0
  /\ UNCHANGED <<head, buf, writerVars, got, out>>

-----------------------------------------------------------------------------
FifoInit ==
  /\ head = 0 /\ tail = 0
  /\ buf = [i \in Cursor |-> Nul]
  /\ wpc = "idle" /\ wbyte = Nul /\ accepted = TRUE
  /\ rpc = "idle" /\ run = 0 /\ got = <<>> /\ out = <<>>

Producer == (\E b \in Byte : PushTest(b)) \/ PushFull \/ PushStore \/ PushPublish

Consumer ==
  Peek \/ (\E n \in 1 .. run : Read(n)) \/ Consume \/ ClearLoad \/ ClearStore

FifoNext == Producer \/ Consumer

FifoSpec == FifoInit /\ [][FifoNext]_fifoVars

-----------------------------------------------------------------------------
(***************************************************************************)
(* Properties.                                                             *)
(***************************************************************************)
FifoTypeOK ==
  /\ head \in Cursor /\ tail \in Cursor
  /\ buf \in [Cursor -> Byte]
  /\ wpc \in {"idle", "store", "publish"}
  /\ wbyte \in Byte
  /\ accepted \in BOOLEAN
  /\ rpc \in {"idle", "read", "consume", "clear"}
  /\ run \in 0 .. Size - 1

(***************************************************************************)
(* The slot push is about to write lies outside the published bytes, and   *)
(* publishing it will not make the ring look empty.                        *)
(***************************************************************************)
RoomKept == wpc \in {"store", "publish"} => Count < Size - 1

(***************************************************************************)
(* The bytes the consumer has read are still the first ones when it        *)
(* consumes them, and it never moves tail past head.                       *)
(***************************************************************************)
ReadStable ==
  /\ run <= Count
  /\ rpc = "consume" =>
       /\ got = [i \in 1 .. run |-> buf[Advance(tail, i - 1)]]

(***************************************************************************)
(* The ring is a queue: every accepted byte is read once and in order, and *)
(* a push fails only on a ring that holds Size - 1 bytes.                  *)
(***************************************************************************)
Channel == INSTANCE ByteChannel WITH
             Capacity <- Size - 1, pending <- Contents
ImplementsChannel == Channel!Spec
=============================================================================
