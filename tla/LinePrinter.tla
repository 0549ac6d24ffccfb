---------------------------- MODULE LinePrinter ----------------------------
(***************************************************************************)
(* The LP11 and the capture of what it prints.  Three tasks share it:      *)
(* "cpu" runs the guest on core 1, "clk" is the 1 ms line clock task of    *)
(* core 0, which ends prints and retries a stashed character, and "lp" is  *)
(* the capture's consumer on core 0, which writes the ring to a file of    *)
(* the SD card.  Nothing but the ring's cursors protects the state.        *)
(*                                                                         *)
(* One step per access that another task can see.  The history `clean`     *)
(* becomes FALSE in the step in which an unlucky order of two of them does *)
(* its harm; what is claimed is claimed until then.                        *)
(***************************************************************************)
EXTENDS Naturals, Sequences

CONSTANTS
  Size,         (* slots of the capture ring (FIFO_SIZE)                   *)
  Chunk,        (* bytes the consumer writes at once (CHUNK_BYTES)         *)
  MaxPrints,    (* bound: characters the guest prints in all               *)
  MaxSessions   (* bound: resets, the one at power-up included             *)

ASSUME PrinterAssumption ==
  /\ Size \in Nat \ {0, 1}
  /\ Chunk \in 1 .. Size - 1
  /\ MaxPrints \in Nat
  /\ MaxSessions \in Nat \ {0}

VARIABLES
  lps,      (* DONE and interrupt enable of the status register            *)
  until,    (* busy_until_instr: "none", ahead of the guest, or "due"      *)
  irq,      (* irq_pending                                                 *)
  queued,   (* the CPU's queue holds (4, 0200)                             *)
  stash,    (* have_stashed and stashed_char                               *)
  head, tail, buf,   (* the capture ring                                   *)
  stamped,  (* last_push_ms is not 0                                       *)
  rotate,   (* rotate_requested                                            *)
  current,  (* current_name: index of the file, 0 for none                 *)
  files,    (* contents of LP0.TXT, LP1.TXT, ...                           *)
  chunk,    (* the consumer's buffer                                       *)
  want,     (* bytes it is popping                                         *)
  run,      (* bytes of it popped by the last peek                         *)
  seen,     (* seen[t]: a copy of lps between its load and its store       *)
  slot,     (* slot[t]: a cursor between its load and its store            *)
  char,     (* the character the guest is writing                          *)
  pc,       (* pc[t]: the next access of task t                            *)
  session, total, printed, opened, clean   (* history                      *)

device == <<lps, until, irq, queued, stash, char>>
ring == <<head, tail, buf, stamped>>
capture == <<rotate, current, files, chunk, want, run>>
history == <<session, total, printed, opened, clean>>
vars == <<device, ring, capture, seen, slot, pc, history>>

Task == {"cpu", "clk", "lp"}
Nul == 0
Text == 1 .. MaxPrints
Busy == [done |-> FALSE, ie |-> FALSE]
Idle == [done |-> TRUE, ie |-> FALSE]

After(i, n) == (i + n) % Size
Count == (head + Size - tail) % Size
(* n slots of the ring from slot i on. *)
Slots(i, n) == [k \in 1 .. n |-> buf[After(i, k - 1)]]

Goto(t, where) == pc' = [pc EXCEPT ![t] = where]
Meets(harmless) == clean' = (clean /\ harmless)
(* The consumer is putting a chunk back that it could not write. *)
PuttingBack == pc["lp"] \in {"push", "publish", "full"}
Running == pc["cpu"] = "run"

-----------------------------------------------------------------------------
(***************************************************************************)
(* Fifo::push, by any of the three tasks: the test for room, and the byte  *)
(* with the new head.  The ring is meant for one producer.                 *)
(***************************************************************************)
PushTest(t) ==
  /\ pc[t] = "push"
  /\ slot' = [slot EXCEPT ![t] = head]
  /\ Goto(t, IF After(head, 1) = tail THEN "full" ELSE "publish")
  /\ UNCHANGED <<device, ring, capture, seen, history>>

(* Mutant: the new head is not masked. *)
PublishUnmasked(t, b) ==
  /\ pc[t] = "publish"
  /\ buf' = [buf EXCEPT ![slot[t]] = b]
  /\ head' = slot[t] + 1
  /\ slot' = [slot EXCEPT ![t] = 0]
  /\ UNCHANGED tail

Publish(t, b) ==
  /\ pc[t] = "publish"
  /\ buf' = [buf EXCEPT ![slot[t]] = b]
  /\ head' = After(slot[t], 1)
  /\ slot' = [slot EXCEPT ![t] = 0]
  /\ UNCHANGED tail

-----------------------------------------------------------------------------
(***************************************************************************)
(* The guest writes the status register: a load, a store with the "does it *)
(* interrupt?" probe of a rising enable, and the bus write path's          *)
(* take_interrupt.                                                         *)
(***************************************************************************)
WriteLPS(ie) ==
  /\ Running
  /\ seen' = [seen EXCEPT !["cpu"] = lps]
  /\ Goto("cpu", IF ie THEN "enable" ELSE "disable")
  /\ UNCHANGED <<device, ring, capture, slot, history>>

StoreLPS ==
  /\ pc["cpu"] \in {"enable", "disable"}
  /\ LET ie == pc["cpu"] = "enable" IN
       /\ lps' = [seen["cpu"] EXCEPT !.ie = ie]
       /\ irq' = (ie /\ (irq \/ (~seen["cpu"].ie /\ seen["cpu"].done)))
       /\ Goto("cpu", "bus")
  /\ Meets(lps = seen["cpu"])
  /\ seen' = [seen EXCEPT !["cpu"] = Busy]
  /\ UNCHANGED <<until, queued, stash, char, ring, capture, slot,
                 session, total, printed, opened>>

BusWrite ==
  /\ pc["cpu"] = "bus"
  /\ irq' = FALSE
  /\ queued' = (irq \/ (queued /\ lps.ie))
  /\ Goto("cpu", "run")
  /\ UNCHANGED <<lps, until, stash, char, ring, capture, seen, slot,
                 history>>

(***************************************************************************)
(* It writes the data register, when DONE lets it.  NUL is accepted and    *)
(* not captured.  A character the ring has no room for is stashed.         *)
(***************************************************************************)
PrintByte(c) ==
  /\ Running
  /\ lps.done
  /\ lps' = [lps EXCEPT !.done = FALSE]
  /\ irq' = FALSE
  /\ char' = c
  /\ total' = total + 1
  /\ printed' = IF c = Nul THEN printed ELSE Append(printed, c)
  /\ Goto("cpu", IF c = Nul THEN "arm" ELSE "push")
  /\ UNCHANGED <<until, queued, stash, ring, capture, seen, slot,
                 session, opened, clean>>

(* The print is armed once the character is in the ring. *)
PublishPrint ==
  /\ Publish("cpu", char)
  /\ until' = "running"
  /\ stamped' = TRUE
  /\ char' = Nul
  /\ Meets(~PuttingBack)
  /\ Goto("cpu", "bus")
  /\ UNCHANGED <<lps, irq, queued, stash, capture, seen, session, total,
                 printed, opened>>

ArmNul ==
  /\ pc["cpu"] = "arm"
  /\ until' = "running"
  /\ Goto("cpu", "bus")
  /\ UNCHANGED <<lps, irq, queued, stash, char, ring, capture, seen, slot,
                 history>>

(* have_stashed is set before the character it announces. *)
StashFlag ==
  /\ pc["cpu"] = "full"
  /\ stash' = [stash EXCEPT !.full = TRUE]
  /\ slot' = [slot EXCEPT !["cpu"] = 0]
  /\ Goto("cpu", "stash")
  /\ UNCHANGED <<lps, until, irq, queued, char, ring, capture, seen,
                 history>>

StashChar ==
  /\ pc["cpu"] = "stash"
  /\ stash' = [stash EXCEPT !.char = char]
  /\ until' = "none"
  /\ char' = Nul
  /\ Goto("cpu", "bus")
  /\ UNCHANGED <<lps, irq, queued, ring, capture, seen, slot, history>>

(***************************************************************************)
(* Instructions.  A print is over when the guest has executed a hundred    *)
(* more.  In WAIT it executes none: a guest that waits for the printer     *)
(* goes on only because another device, its clock, interrupts it.          *)
(***************************************************************************)
Execute ==
  /\ Running
  /\ until = "running"
  /\ until' = "due"
  /\ UNCHANGED <<lps, irq, queued, stash, char, ring, capture, seen,
                 slot, pc, history>>

AcceptInterrupt ==
  /\ pc["cpu"] = "run"
  /\ queued
  /\ queued' = FALSE
  /\ UNCHANGED <<lps, until, irq, stash, char, ring, capture, seen, slot, pc,
                 history>>

(***************************************************************************)
(* RESET or a boot: the request is withdrawn, the controller cleared, the  *)
(* ring emptied from the producer's side and a new file asked for.         *)
(***************************************************************************)
ResetDevice ==
  /\ Running
  /\ session < MaxSessions
  /\ lps' = Idle /\ until' = "none" /\ irq' = FALSE /\ queued' = FALSE
  /\ stash' = [full |-> FALSE, char |-> Nul]
  /\ Meets(pc["clk"] = "idle")
  /\ Goto("cpu", "clear")
  /\ UNCHANGED <<char, ring, capture, seen, slot, session, total, printed,
                 opened>>

ClearLoad ==
  /\ pc["cpu"] = "clear"
  /\ slot' = [slot EXCEPT !["cpu"] = head]
  /\ Goto("cpu", "cleared")
  /\ UNCHANGED <<device, ring, capture, seen, history>>

(* From here on what is printed belongs to the next session. *)
ClearStore ==
  /\ pc["cpu"] = "cleared"
  /\ tail' = slot["cpu"]
  /\ slot' = [slot EXCEPT !["cpu"] = 0]
  /\ session' = session + 1 /\ printed' = <<>> /\ opened' = FALSE
  /\ UNCHANGED total
  /\ Meets(head = slot["cpu"] /\ pc["lp"] # "consume")
  /\ Goto("cpu", "mark")
  /\ UNCHANGED <<device, head, buf, stamped, capture, seen>>

BeginSession ==
  /\ pc["cpu"] = "mark"
  /\ stamped' = FALSE
  /\ rotate' = TRUE
  /\ Goto("cpu", "run")
  /\ UNCHANGED <<device, head, tail, buf, current, files, chunk, want, run,
                 seen, slot, history>>

-----------------------------------------------------------------------------
(***************************************************************************)
(* tick, called by the clock task, and what service_line_clock does with   *)
(* its interrupt; a pass with nothing to do is no step.  A stashed         *)
(* character is tried again; a print that is due is ended: DONE first,     *)
(* then busy_until_instr, then the request.                                *)
(***************************************************************************)
TickRetry ==
  /\ pc["clk"] = "idle"
  /\ stash.full
  /\ Meets(pc["cpu"] # "stash")
  /\ Goto("clk", "push")
  /\ UNCHANGED <<device, ring, capture, seen, slot, session, total, printed,
                 opened>>

RetryFull ==
  /\ pc["clk"] = "full"
  /\ slot' = [slot EXCEPT !["clk"] = 0]
  /\ Goto("clk", "idle")
  /\ UNCHANGED <<device, ring, capture, seen, history>>

(* Mutant: a retried character gets no completion time. *)
PublishRetryUnarmed ==
  /\ Publish("clk", stash.char)
  /\ stash' = [stash EXCEPT !.full = FALSE]
  /\ stamped' = TRUE
  /\ Meets(~PuttingBack)
  /\ Goto("clk", "idle")
  /\ UNCHANGED <<lps, until, irq, queued, char, capture, seen, session, total,
                 printed, opened>>

PublishRetry ==
  /\ Publish("clk", stash.char)
  /\ until' = "running"
  /\ stash' = [stash EXCEPT !.full = FALSE]
  /\ stamped' = TRUE
  /\ Meets(~PuttingBack)
  /\ Goto("clk", "idle")
  /\ UNCHANGED <<lps, irq, queued, char, capture, seen, session, total,
                 printed, opened>>

TickDue ==
  /\ pc["clk"] = "idle"
  /\ ~stash.full /\ ~lps.done /\ until = "due"
  /\ seen' = [seen EXCEPT !["clk"] = lps]
  /\ Goto("clk", "done")
  /\ UNCHANGED <<device, ring, capture, slot, history>>

CompleteDone ==
  /\ pc["clk"] = "done"
  /\ lps' = [seen["clk"] EXCEPT !.done = TRUE]
  /\ Meets(lps = seen["clk"])
  /\ seen' = [seen EXCEPT !["clk"] = Busy]
  /\ Goto("clk", "zero")
  /\ UNCHANGED <<until, irq, queued, stash, char, ring, capture, slot,
                 session, total, printed, opened>>

(* A guest that has answered DONE already loses its completion time. *)
CompleteUntil ==
  /\ pc["clk"] = "zero"
  /\ until' = "none"
  /\ Meets(lps.done)
  /\ Goto("clk", "request")
  /\ UNCHANGED <<lps, irq, queued, stash, char, ring, capture, seen,
                 slot, session, total, printed, opened>>

CompleteRequest ==
  /\ pc["clk"] = "request"
  /\ irq' = (irq \/ (lps.ie /\ lps.done))
  /\ Goto("clk", "idle")
  /\ UNCHANGED <<lps, until, queued, stash, char, ring, capture, seen,
                 slot, history>>

TakeInterrupt ==
  /\ pc["clk"] = "idle"
  /\ irq
  /\ irq' = FALSE
  /\ Goto("clk", "queue")
  /\ UNCHANGED <<lps, until, queued, stash, char, ring, capture, seen,
                 slot, history>>

QueueInterrupt ==
  /\ pc["clk"] = "queue"
  /\ queued' = TRUE
  /\ Goto("clk", "idle")
  /\ UNCHANGED <<lps, until, irq, stash, char, ring, capture, seen,
                 slot, history>>

-----------------------------------------------------------------------------
(***************************************************************************)
(* consumer_loop.  When a reset has asked for it the next file is picked:  *)
(* the first empty one, or a new one.  Without a card the wish is kept.    *)
(***************************************************************************)
EmptyFiles == {f \in 1 .. Len(files) : files[f] = <<>>}
Picked ==
  IF EmptyFiles = {} THEN Len(files) + 1
  ELSE CHOOSE f \in EmptyFiles : \A g \in EmptyFiles : f <= g

OpenNoCard ==
  /\ pc["lp"] = "sleep" /\ rotate
  /\ current' = 0
  /\ opened' = FALSE
  /\ UNCHANGED <<device, ring, rotate, files, chunk, want, run, seen, slot, pc,
                 session, total, printed, clean>>

(* Mutant: the newest file is taken, whatever it holds. *)
OpenNewest ==
  /\ pc["lp"] = "sleep" /\ rotate
  /\ LET f == IF files = <<>> THEN 1 ELSE Len(files) IN
       /\ current' = f
       /\ files' = IF f > Len(files) THEN Append(files, <<>>) ELSE files
  /\ opened' = TRUE
  /\ Goto("lp", "opened")
  /\ UNCHANGED <<device, ring, rotate, chunk, want, run, seen, slot, session,
                 total, printed, clean>>

OpenSessionFile ==
  /\ pc["lp"] = "sleep" /\ rotate
  /\ current' = Picked
  /\ files' = IF Picked > Len(files) THEN Append(files, <<>>) ELSE files
  /\ opened' = TRUE
  /\ Goto("lp", "opened")
  /\ UNCHANGED <<device, ring, rotate, chunk, want, run, seen, slot, session,
                 total, printed, clean>>

(* A reset between the look at rotate_requested and this store is lost. *)
RotateDone ==
  /\ pc["lp"] = "opened"
  /\ rotate' = FALSE
  /\ Meets(opened \/ pc["cpu"] = "mark")
  /\ Goto("lp", "drain")
  /\ UNCHANGED <<device, ring, current, files, chunk, want, run, seen, slot,
                 session, total, printed, opened>>

NoRotate ==
  /\ pc["lp"] = "sleep" /\ ~rotate /\ current # 0
  /\ Goto("lp", "drain")
  /\ UNCHANGED <<device, ring, capture, seen, slot, history>>

-----------------------------------------------------------------------------
(***************************************************************************)
(* drain_policy: full chunks as long as there are any, then a rest that    *)
(* has not grown for two seconds.                                          *)
(***************************************************************************)
DrainChunk ==
  /\ pc["lp"] = "drain"
  /\ Count >= Chunk
  /\ want' = Chunk
  /\ Goto("lp", "pop")
  /\ UNCHANGED <<device, ring, rotate, current, files, chunk, run, seen, slot,
                 history>>

DrainRest ==
  /\ pc["lp"] = "drain"
  /\ Count \in 1 .. Chunk - 1 /\ stamped
  /\ want' = Count
  /\ Goto("lp", "pop")
  /\ UNCHANGED <<device, ring, rotate, current, files, chunk, run, seen, slot,
                 history>>

DrainNothing ==
  /\ pc["lp"] = "drain"
  /\ Count < Chunk
  /\ Goto("lp", "sleep")
  /\ UNCHANGED <<device, ring, capture, seen, slot, history>>

(* pop_bytes: the bytes up to the end of the storage are copied ...        *)
Least(m, n) == IF m < n THEN m ELSE n

Pop ==
  /\ pc["lp"] = "pop"
  /\ LET n == Least(want - Len(chunk), Least(Count, Size - tail)) IN
       /\ chunk' = chunk \o Slots(tail, n)
       /\ run' = n
       /\ slot' = [slot EXCEPT !["lp"] = tail]
       /\ Meets(n = 0 \/ (opened /\ ~rotate))
       /\ Goto("lp", IF n > 0 THEN "consume"
                     ELSE IF chunk # <<>> THEN "write" ELSE "sleep")
  /\ UNCHANGED <<device, ring, rotate, current, files, want, seen, session,
                 total, printed, opened>>

(* ... and given back; consume loads the cursor again before it stores it. *)
Consume ==
  /\ pc["lp"] = "consume"
  /\ \E t \in {tail, slot["lp"]} : tail' = After(t, run)
  /\ run' = 0
  /\ slot' = [slot EXCEPT !["lp"] = 0]
  /\ Goto("lp", IF Len(chunk) < want THEN "pop" ELSE "write")
  /\ UNCHANGED <<device, head, buf, stamped, rotate, current, files, chunk,
                 want, seen, history>>

(***************************************************************************)
(* write_chunk may fail at any byte, and the whole chunk is put back.      *)
(***************************************************************************)
WriteChunk ==
  /\ pc["lp"] = "write"
  /\ files' = [files EXCEPT ![current] = @ \o chunk]
  /\ chunk' = <<>>
  /\ want' = 0
  /\ Goto("lp", IF want = Chunk THEN "drain" ELSE "sleep")
  /\ UNCHANGED <<device, ring, rotate, current, run, seen, slot, history>>

WriteFails ==
  /\ pc["lp"] = "write"
  /\ \E n \in 0 .. Len(chunk) - 1 :
       /\ files' = [files EXCEPT ![current] = @ \o SubSeq(chunk, 1, n)]
       /\ Meets(n = 0 /\ Count = 0)
  /\ want' = 0
  /\ Goto("lp", "push")
  /\ UNCHANGED <<device, ring, rotate, current, chunk, run, seen, slot,
                 session, total, printed, opened>>

(* requeue: harmless only if nothing was printed since the chunk was taken *)
(* and no reset has begun a session, or old bytes are put among new ones;  *)
(* a producer between its test and its store overwrites what is put back.  *)
Requeue ==
  /\ Publish("lp", Head(chunk))
  /\ chunk' = Tail(chunk)
  /\ Meets(opened /\ pc["cpu"] # "publish" /\ pc["clk"] # "publish")
  /\ Goto("lp", IF Len(chunk) = 1 THEN "sleep" ELSE "push")
  /\ UNCHANGED <<device, stamped, rotate, current, files, want, run, seen,
                 session, total, printed, opened>>

(* A full ring ends it, and the rest of the chunk is gone. *)
RequeueEnds ==
  /\ pc["lp"] = "full"
  /\ chunk' = <<>>
  /\ slot' = [slot EXCEPT !["lp"] = 0]
  /\ Meets(FALSE)
  /\ Goto("lp", "sleep")
  /\ UNCHANGED <<device, ring, rotate, current, files, want, run, seen,
                 session, total, printed, opened>>

-----------------------------------------------------------------------------
(* After the first boot's reset: the first session's file is still to be   *)
(* picked.                                                                 *)
Init ==
  /\ lps = Idle /\ until = "none" /\ irq = FALSE /\ queued = FALSE
  /\ stash = [full |-> FALSE, char |-> Nul] /\ char = Nul
  /\ head = 0 /\ tail = 0 /\ buf = [i \in 0 .. Size - 1 |-> Nul]
  /\ stamped = FALSE /\ rotate = TRUE /\ current = 0 /\ files = <<>>
  /\ chunk = <<>> /\ want = 0 /\ run = 0
  /\ seen = [t \in Task |-> Busy] /\ slot = [t \in Task |-> 0]
  /\ pc = [cpu |-> "run", clk |-> "idle", lp |-> "sleep"]
  /\ session = 1 /\ total = 0 /\ printed = <<>>
  /\ opened = FALSE /\ clean = TRUE

GuestWrites ==
  \/ \E ie \in BOOLEAN : WriteLPS(ie)
  \/ total < MaxPrints /\ \E c \in {Nul, total + 1} : PrintByte(c)

Access ==
  \/ StoreLPS \/ BusWrite
  \/ PushTest("cpu") \/ PublishPrint \/ ArmNul \/ StashFlag \/ StashChar
  \/ ClearLoad \/ ClearStore \/ BeginSession

Guest ==
  \/ GuestWrites \/ Access \/ Execute \/ AcceptInterrupt \/ ResetDevice

Clock ==
  \/ TickRetry \/ PushTest("clk") \/ RetryFull \/ PublishRetry
  \/ TickDue \/ CompleteDone \/ CompleteUntil \/ CompleteRequest
  \/ TakeInterrupt \/ QueueInterrupt

Consumer ==
  \/ OpenNoCard \/ OpenSessionFile \/ RotateDone \/ NoRotate
  \/ DrainChunk \/ DrainRest \/ DrainNothing \/ Pop \/ Consume
  \/ WriteChunk \/ WriteFails \/ PushTest("lp") \/ Requeue \/ RequeueEnds

Next == Guest \/ Clock \/ Consumer

Spec == Init /\ [][Next]_vars

-----------------------------------------------------------------------------
(***************************************************************************)
(* Properties.                                                             *)
(***************************************************************************)
TypeOK ==
  /\ lps \in [done : BOOLEAN, ie : BOOLEAN]
  /\ until \in {"none", "running", "due"}
  /\ irq \in BOOLEAN /\ queued \in BOOLEAN
  /\ stash \in [full : BOOLEAN, char : Text \union {Nul}]
  /\ char \in Text \union {Nul}
  /\ head \in 0 .. Size - 1 /\ tail \in 0 .. Size - 1
  /\ buf \in [0 .. Size - 1 -> Text \union {Nul}]
  /\ stamped \in BOOLEAN /\ rotate \in BOOLEAN
  /\ current \in 0 .. Len(files)
  /\ Len(chunk) <= Chunk /\ want \in 0 .. Chunk /\ run \in 0 .. Chunk
  /\ seen \in [Task -> [done : BOOLEAN, ie : BOOLEAN]]
  /\ slot \in [Task -> 0 .. Size - 1]
  /\ session \in 1 .. MaxSessions /\ total \in 0 .. MaxPrints
  /\ printed \in Seq(Text)
  /\ opened \in BOOLEAN /\ clean \in BOOLEAN

(* Where the characters of a session are, from the oldest on. *)
InFile == IF opened THEN files[current] ELSE <<>>
InChunk == IF opened THEN chunk ELSE <<>>
InRing == LET from == IF pc["lp"] = "consume" THEN After(tail, run) ELSE tail
          IN  Slots(from, (head + Size - from) % Size)
InStash == IF stash.full /\ pc["cpu"] # "stash"
             THEN <<stash.char>> ELSE <<>>
InHand == IF pc["cpu"] \in {"push", "publish", "full", "stash"}
            THEN <<char>> ELSE <<>>

(***************************************************************************)
(* Every text character of a session is in exactly one place, and in       *)
(* order: in the session's own file, in the consumer's chunk (behind what  *)
(* was put back of it), in the ring, in the stash or in the guest's hand.  *)
(* While a reset drops them, nothing is said.                              *)
(***************************************************************************)
Captured ==
  clean /\ pc["cpu"] \notin {"clear", "cleared"} =>
    InFile \o (IF PuttingBack THEN InRing \o InChunk ELSE InChunk \o InRing)
           \o InStash \o InHand = printed

(***************************************************************************)
(* Nothing hangs.  While DONE is clear somebody will set it: the guest is  *)
(* still in its write, the character waits in the stash for the next tick, *)
(* or the completion time is set.  And what is in the ring will be written *)
(* even if it never fills a chunk, because the time of the last push is    *)
(* known.                                                                  *)
(***************************************************************************)
NeverStuck ==
  clean =>
    /\ ~lps.done => \/ pc["cpu"] \in {"push", "publish", "full", "arm"}
                    \/ stash.full
                    \/ until # "none"
    /\ Count # 0 => stamped

(***************************************************************************)
(* The line printer interrupts a guest only while DONE and the enable bit  *)
(* are set.  The code does not keep this (README, 3): a data write         *)
(* withdraws irq_pending, but not what is already in the CPU's queue.      *)
(***************************************************************************)
InterruptMeansDone ==
  [][AcceptInterrupt => lps.done /\ lps.ie]_vars
=============================================================================
