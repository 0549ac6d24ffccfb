---------------------------- MODULE Kl11Receiver ----------------------------
(***************************************************************************)
(* The KL11 receiver as tty emulates it: TKS, TKB, the sticky request flag *)
(* rx_irq_asserted and the request of vector 060.  The guest's register    *)
(* accesses and service_deferred run on core 1 ("cpu"); the line clock     *)
(* task ("clk") on core 0 calls service_deferred every millisecond.        *)
(* Nothing locks the registers, so a step ends wherever the other task     *)
(* could change what the rest of the call reads or undo what it wrote.     *)
(*                                                                         *)
(* The guest is a usual driver: it reads TKB when DONE is set, and while   *)
(* IE is set only after the interrupt.                                     *)
(***************************************************************************)
EXTENDS Naturals, Sequences

CONSTANTS
  Limit,        (* Limit[s]: bytes that arrive from source s               *)
  GuestDrops    (* RESETs and RDR ENBs of the guest, which drop a byte     *)

(* Replies and injected lines, the USB serial keyboard, and Telnet.        *)
Source == {"control", "keys", "telnet"}
Task == {"cpu", "clk"}
NoByte == [src |-> "none", n |-> 0]

ASSUME ReceiverAssumption ==
  /\ Limit \in [Source -> Nat]
  /\ GuestDrops \in Nat

VARIABLES
  arrived,  (* arrived[s]: bytes put into the queue of s                   *)
  popped,   (* popped[s]: the tail of that queue                           *)
  telnet,   (* prefer_telnet                                               *)
  tkb,      (* TKB                                                         *)
  done,     (* TTY_DONE of TKS                                             *)
  ie,       (* TTY_IE of TKS                                               *)
  asserted, (* rx_irq_asserted                                             *)
  queued,   (* the request (4, 060) is in the CPU's queue                  *)
  isr,      (* the guest is in its receiver interrupt routine              *)
  busy,     (* tx_busy, or DONE of TPS is clear                            *)
  drops,    (* RESETs and RDR ENBs left                                    *)
  byte,     (* byte[t]: local variable of notify_rx                        *)
  csr,      (* csr[t]: the value task t is about to store in TKS           *)
  pc,       (* pc[t]: the next access of task t                            *)
  next,     (* next[t]: where t goes on after update_rx_interrupt          *)
  fresh,    (* history: TKB has not been read since it was loaded          *)
  owed,     (* history: an interrupt is due since DONE and IE became 1     *)
  taken,    (* history: the bytes the guest has read                       *)
  crossed,  (* history: a task read TKS while the other had yet to store   *)
  met       (* history: or had yet to finish with the request              *)

inputVars == <<arrived, popped, telnet>>
cpuVars == <<queued, isr, busy, drops>>
localVars == <<byte, csr, pc, next>>
meetings == <<crossed, met>>
vars == <<inputVars, tkb, done, ie, asserted, cpuVars, localVars, fresh, owed,
          taken, meetings>>

Goto(t, where) == pc' = [pc EXCEPT ![t] = where]

NoCsr == [done |-> FALSE, ie |-> FALSE]

(***************************************************************************)
(* Task t reads TKS and acts on what it read.  Histories note whether the  *)
(* other task has itself read TKS and not stored it yet, and whether it is *)
(* anywhere between such a read and the end of its call.                   *)
(***************************************************************************)
Other(t) == IF t = "cpu" THEN "clk" ELSE "cpu"
Deciding(t) ==
  pc[t] \in {"loadQueued", "pop", "popped", "loadTKB", "loadDone", "store"}
Inside(t) == pc[t] \notin {"home", "load"}

Enter(t) ==
  /\ crossed' = (crossed \/ Deciding(Other(t)))
  /\ met' = (met \/ Inside(Other(t)))

(* TKS gets a new value; DONE and IE both 1 is an interrupt condition.     *)
SetTKS(v) ==
  /\ done' = v.done /\ ie' = v.ie
  /\ owed' = (v.done /\ v.ie /\ (owed \/ ~(done /\ ie)))

-----------------------------------------------------------------------------
(***************************************************************************)
(* notify_rx: load the next host byte into TKB, if the last one was read   *)
(* and its request was accepted.                                           *)
(***************************************************************************)
(* Mutant: an unread byte is no reason not to load the next. *)
LoadTestAlways(t) ==
  /\ pc[t] = "load"
  /\ Goto(t, "loadQueued")
  /\ Enter(t)
  /\ UNCHANGED <<inputVars, tkb, done, ie, asserted, cpuVars, byte, csr,
                 next, fresh, owed, taken>>

LoadTest(t) ==
  /\ pc[t] = "load"
  /\ \/ done /\ Goto(t, "home") /\ UNCHANGED meetings
     \/ ~done /\ Goto(t, "loadQueued") /\ Enter(t)
  /\ UNCHANGED <<inputVars, tkb, done, ie, asserted, cpuVars, byte, csr,
                 next, fresh, owed, taken>>

LoadQueued(t) ==
  /\ pc[t] = "loadQueued"
  /\ Goto(t, IF queued THEN "home" ELSE "pop")
  /\ UNCHANGED <<inputVars, tkb, done, ie, asserted, cpuVars, byte, csr,
                 next, fresh, owed, taken, meetings>>

Waiting == {s \in Source : arrived[s] > popped[s]}

(* pop_host_input: replies first, then keyboard and Telnet in turn.        *)
FirstOf(S) ==
  CASE "control" \in S -> "control"
    [] "control" \notin S /\ telnet ->
         IF "telnet" \in S THEN "telnet" ELSE "keys"
    [] OTHER -> IF "keys" \in S THEN "keys" ELSE "telnet"

(* Nothing is due, because of serial_in_delay_ms, or has arrived.          *)
PopNothing(t) ==
  /\ pc[t] = "pop"
  /\ Goto(t, "home")
  /\ UNCHANGED <<inputVars, tkb, done, ie, asserted, cpuVars, byte, csr,
                 next, fresh, owed, taken, meetings>>

(* Mutant: the last queue tried is not tested for being empty. *)
PopReadEmpty(t) ==
  /\ pc[t] = "pop"
  /\ LET s == FirstOf(Waiting)
     IN  byte' = [byte EXCEPT ![t] = [src |-> s, n |-> popped[s] + 1]]
  /\ Goto(t, "popped")
  /\ UNCHANGED <<inputVars, tkb, done, ie, asserted, cpuVars, csr, next,
                 fresh, owed, taken, meetings>>

PopRead(t) ==
  /\ pc[t] = "pop" /\ Waiting # {}
  /\ LET s == FirstOf(Waiting)
     IN  byte' = [byte EXCEPT ![t] = [src |-> s, n |-> popped[s] + 1]]
  /\ Goto(t, "popped")
  /\ UNCHANGED <<inputVars, tkb, done, ie, asserted, cpuVars, csr, next,
                 fresh, owed, taken, meetings>>

(* Mutant: the tail of the queue stays where it was. *)
PopStoreAgain(t) ==
  /\ pc[t] = "popped"
  /\ telnet' = IF byte[t].src = "control" THEN telnet ELSE ~telnet
  /\ Goto(t, "loadTKB")
  /\ UNCHANGED <<arrived, popped, tkb, done, ie, asserted, cpuVars, byte,
                 csr, next, fresh, owed, taken, meetings>>

PopStore(t) ==
  /\ pc[t] = "popped"
  /\ popped' = [popped EXCEPT ![byte[t].src] = byte[t].n]
  /\ telnet' = IF byte[t].src = "control" THEN telnet ELSE ~telnet
  /\ Goto(t, "loadTKB")
  /\ UNCHANGED <<arrived, tkb, done, ie, asserted, cpuVars, byte, csr, next,
                 fresh, owed, taken, meetings>>

(* The byte is stored, and the IE bit is read to be stored with DONE.      *)
LoadTKB(t) ==
  /\ pc[t] = "loadTKB"
  /\ tkb' = byte[t]
  /\ fresh' = TRUE
  /\ byte' = [byte EXCEPT ![t] = NoByte]
  /\ csr' = [csr EXCEPT ![t] = [done |-> TRUE, ie |-> ie]]
  /\ Goto(t, "loadDone")
  /\ UNCHANGED <<inputVars, done, ie, asserted, cpuVars, next, owed, taken,
                 meetings>>

(* A rising DONE is a new request, whatever became of the last one.        *)
LoadDone(t) ==
  /\ pc[t] = "loadDone"
  /\ SetTKS(csr[t])
  /\ csr' = [csr EXCEPT ![t] = NoCsr]
  /\ next' = [next EXCEPT ![t] = "home"]
  /\ Goto(t, "forget")
  /\ UNCHANGED <<inputVars, tkb, asserted, cpuVars, byte, fresh, taken,
                 meetings>>

Forget(t) ==
  /\ pc[t] = "forget"
  /\ asserted' = FALSE
  /\ Goto(t, IF next[t] = "reset" THEN "unqueue" ELSE "update")
  /\ UNCHANGED <<inputVars, tkb, done, ie, cpuVars, byte, csr, next, fresh,
                 owed, taken, meetings>>

-----------------------------------------------------------------------------
(***************************************************************************)
(* update_rx_interrupt: reads TKS, then rx_irq_asserted, then queues or    *)
(* withdraws.                                                              *)
(***************************************************************************)
UpdateTest(t) ==
  /\ pc[t] = "update"
  /\ LET want == done /\ ie
     IN  /\ asserted' = want
         /\ Goto(t, CASE want /\ ~asserted -> "queue"
                      [] ~want /\ asserted -> "unqueue"
                      [] want = asserted -> next[t])
  /\ UNCHANGED <<inputVars, tkb, done, ie, cpuVars, byte, csr, next, fresh,
                 owed, taken, meetings>>

UpdateQueue(t) ==
  /\ pc[t] \in {"queue", "unqueue"}
  /\ queued' = (pc[t] = "queue")
  /\ Goto(t, next[t])
  /\ UNCHANGED <<inputVars, tkb, done, ie, asserted, isr, busy, drops, byte,
                 csr, next, fresh, owed, taken, meetings>>

-----------------------------------------------------------------------------
(***************************************************************************)
(* service_deferred.  The clock task calls it every millisecond, the CPU's *)
(* when needs_deferred_service asks for it.  The transmitter half may find *)
(* the transmitter ready (ConsoleOutput says when).  The receiver half     *)
(* calls notify_rx if IE is set and DONE clear, and with IE clear every    *)
(* TTY_RX_POLL_DIV calls of either task.                                   *)
(***************************************************************************)
(* Mutant: the clock task asks needs_deferred_service as well. *)
CalledByNeed(t) ==
  /\ pc[t] = "home"
  /\ ie \/ busy
  /\ busy' \in {busy, FALSE}
  /\ UNCHANGED <<inputVars, tkb, done, ie, asserted, queued, isr, drops,
                 byte, csr, next, fresh, owed, taken, meetings>>

Called(t) ==
  /\ pc[t] = "home"
  /\ t = "cpu" => ie \/ busy
  /\ busy' \in {busy, FALSE}
  /\ UNCHANGED <<inputVars, tkb, done, ie, asserted, queued, isr, drops,
                 byte, csr, next, fresh, owed, taken, meetings>>

Service(t) ==
  /\ Called(t)
  /\ ie => ~done
  /\ Goto(t, "load")

ServeNoInput(t) ==
  /\ Called(t)
  /\ ie => done
  /\ UNCHANGED pc

-----------------------------------------------------------------------------
(***************************************************************************)
(* Register accesses of the guest.                                         *)
(***************************************************************************)
ReadTKS ==
  /\ pc["cpu"] = "home"
  /\ Goto("cpu", "load")
  /\ UNCHANGED <<inputVars, tkb, done, ie, asserted, cpuVars, byte, csr,
                 next, fresh, owed, taken, meetings>>

(* Reading TKB: the value, then the copy of TKS without DONE goes back.    *)
ReadTKB ==
  /\ pc["cpu"] = "home" /\ done
  /\ ie => isr
  /\ taken' = Append(taken, tkb)
  /\ fresh' = FALSE
  /\ isr' = FALSE
  /\ csr' = [csr EXCEPT !["cpu"] = [done |-> FALSE, ie |-> ie]]
  /\ next' = [next EXCEPT !["cpu"] = "home"]
  /\ Goto("cpu", "store") /\ Enter("cpu")
  /\ UNCHANGED <<inputVars, tkb, done, ie, asserted, queued, busy, drops,
                 byte, owed>>

(* Writing TKS: IE, and RDR ENB, which clears DONE and drops the byte.     *)
WriteTKS(e, rdr) ==
  /\ pc["cpu"] = "home"
  /\ rdr => drops > 0
  /\ drops' = IF rdr THEN drops - 1 ELSE drops
  /\ csr' = [csr EXCEPT !["cpu"] = [done |-> done /\ ~rdr, ie |-> e]]
  /\ fresh' = (fresh /\ ~rdr)
  /\ isr' = (isr /\ ~rdr)
  /\ asserted' = (asserted /\ ~(e /\ ~ie /\ done /\ ~rdr))
  /\ next' = [next EXCEPT !["cpu"] = "load"]
  /\ Goto("cpu", "store") /\ Enter("cpu")
  /\ UNCHANGED <<inputVars, tkb, done, ie, queued, busy, byte, owed, taken>>

(* Mutant: the new TKS does not reach update_rx_interrupt. *)
StoreTKSSilent ==
  /\ pc["cpu"] = "store"
  /\ SetTKS(csr["cpu"])
  /\ csr' = [csr EXCEPT !["cpu"] = NoCsr]
  /\ Goto("cpu", next["cpu"])
  /\ UNCHANGED <<inputVars, tkb, asserted, cpuVars, byte, next, fresh,
                 taken, meetings>>

StoreTKS ==
  /\ pc["cpu"] = "store"
  /\ SetTKS(csr["cpu"])
  /\ csr' = [csr EXCEPT !["cpu"] = NoCsr]
  /\ Goto("cpu", "update")
  /\ UNCHANGED <<inputVars, tkb, asserted, cpuVars, byte, next, fresh,
                 taken, meetings>>

(* Writing TPB makes the transmitter busy.                                 *)
WriteTPB ==
  /\ pc["cpu"] = "home"
  /\ busy' = TRUE
  /\ UNCHANGED <<inputVars, tkb, done, ie, asserted, queued, isr, drops,
                 localVars, fresh, owed, taken, meetings>>

(* The CPU accepts the request between two instructions.                   *)
Accept ==
  /\ pc["cpu"] = "home" /\ queued
  /\ queued' = FALSE
  /\ owed' = FALSE
  /\ isr' = TRUE
  /\ UNCHANGED <<inputVars, tkb, done, ie, asserted, busy, drops, localVars,
                 fresh, taken, meetings>>

(* RESET: bus::reset resets tty, later init_interrupt_queue the queue.     *)
ResetTty ==
  /\ pc["cpu"] = "home" /\ drops > 0
  /\ drops' = drops - 1
  /\ SetTKS(NoCsr)
  /\ fresh' = FALSE /\ busy' = FALSE
  /\ next' = [next EXCEPT !["cpu"] = "reset"]
  /\ Goto("cpu", "forget") /\ Enter("cpu")
  /\ UNCHANGED <<inputVars, tkb, asserted, queued, isr, byte, csr, taken>>

ResetQueue ==
  /\ pc["cpu"] = "reset"
  /\ queued' = FALSE
  /\ isr' = FALSE
  /\ Goto("cpu", "home")
  /\ UNCHANGED <<inputVars, tkb, done, ie, asserted, busy, drops, byte, csr,
                 next, fresh, owed, taken, meetings>>

(* A byte reaches the queue of its source.                                 *)
Arrive(s) ==
  /\ arrived[s] < Limit[s]
  /\ arrived' = [arrived EXCEPT ![s] = @ + 1]
  /\ UNCHANGED <<popped, telnet, tkb, done, ie, asserted, cpuVars,
                 localVars, fresh, owed, taken, meetings>>

-----------------------------------------------------------------------------
Init ==
  /\ arrived = [s \in Source |-> 0] /\ popped = [s \in Source |-> 0]
  /\ telnet = FALSE /\ tkb = NoByte
  /\ done = FALSE /\ ie = FALSE /\ asserted = FALSE /\ queued = FALSE
  /\ isr = FALSE /\ busy = FALSE /\ drops = GuestDrops
  /\ byte = [t \in Task |-> NoByte] /\ csr = [t \in Task |-> NoCsr]
  /\ pc = [t \in Task |-> "home"] /\ next = [t \in Task |-> "home"]
  /\ fresh = FALSE /\ owed = FALSE /\ taken = <<>>
  /\ crossed = FALSE /\ met = FALSE

Load(t) ==
  \/ LoadTest(t) \/ LoadQueued(t) \/ PopRead(t) \/ PopStore(t)
  \/ LoadTKB(t) \/ LoadDone(t) \/ Forget(t)
Update(t) == UpdateTest(t) \/ UpdateQueue(t)
Continue(t) == Load(t) \/ PopNothing(t) \/ Update(t)

Guest ==
  \/ ReadTKS \/ ReadTKB \/ StoreTKS \/ WriteTPB \/ Accept
  \/ ResetTty \/ ResetQueue
  \/ \E e, rdr \in BOOLEAN : WriteTKS(e, rdr)

Next ==
  \/ \E t \in Task : Service(t) \/ ServeNoInput(t) \/ Continue(t)
  \/ Guest
  \/ \E s \in Source : Arrive(s)

SafeSpec == Init /\ [][Next]_vars

(***************************************************************************)
(* Both tasks finish what they began.  The clock task calls                *)
(* service_deferred for ever, and the calls of both advance the divider,   *)
(* so one of them calls notify_rx again and again while no byte is unread. *)
(* The delay between two bytes passes, as the guest extends it only by     *)
(* reading a byte or by one of its GuestDrops RDR ENBs.  The guest reads   *)
(* TKB when it may, and its processor priority lets the request through.   *)
(***************************************************************************)
Fairness ==
  /\ \A t \in Task : WF_vars(Continue(t)) /\ SF_vars(PopRead(t))
  /\ WF_vars(\E t \in Task : Service(t))
  /\ SF_vars(ReadTKB) /\ SF_vars(Accept)
  /\ WF_vars(StoreTKS \/ ResetQueue)

Spec == SafeSpec /\ Fairness

-----------------------------------------------------------------------------
(***************************************************************************)
(* Properties.                                                             *)
(***************************************************************************)
Byte == [src : Source, n : Nat]

TypeOK ==
  /\ \A s \in Source : popped[s] <= arrived[s] /\ arrived[s] <= Limit[s]
  /\ tkb \in Byte \union {NoByte}
  /\ telnet \in BOOLEAN /\ done \in BOOLEAN /\ ie \in BOOLEAN
  /\ asserted \in BOOLEAN /\ queued \in BOOLEAN /\ isr \in BOOLEAN
  /\ busy \in BOOLEAN /\ drops \in 0 .. GuestDrops
  /\ fresh \in BOOLEAN /\ owed \in BOOLEAN
  /\ crossed \in BOOLEAN /\ met \in BOOLEAN
  /\ \A t \in Task : /\ byte[t] \in Byte \union {NoByte}
                      /\ csr[t] \in [done : BOOLEAN, ie : BOOLEAN]
  /\ taken \in Seq(Byte)

(***************************************************************************)
(* notify_rx: "never overwrite an unread byte".                            *)
(***************************************************************************)
NeverOverwritten == [][fresh /\ fresh' => UNCHANGED tkb]_vars

(***************************************************************************)
(* What the code makes of it: whichever task loads TKB, an unread byte     *)
(* stays there, unless a task read TKS between the other's read and store. *)
(***************************************************************************)
UnreadStays == [][fresh /\ fresh' => crossed' \/ UNCHANGED tkb]_vars

(***************************************************************************)
(* The guest reads the bytes of a source in order and none of them twice,  *)
(* whichever task loaded them, under the same condition.                   *)
(***************************************************************************)
InOrder ==
  ~crossed =>
    \A i, j \in 1 .. Len(taken) :
      i < j /\ taken[i].src = taken[j].src => taken[i].n < taken[j].n

(***************************************************************************)
(* The sticky flag is the device's edge: outside of its own bookkeeping a  *)
(* request is queued exactly while the interrupt for DONE and IE is due,   *)
(* so it is withdrawn with its cause, and repeated for a new one only.     *)
(* Not so once the tasks have met: a withdrawal that is late takes the     *)
(* request of the next byte away.                                          *)
(***************************************************************************)
Quiet == \A t \in Task : pc[t] \notin {"forget", "update", "queue", "unqueue"}
RequestIsEdge == ~met /\ Quiet => (queued <=> owed)

(***************************************************************************)
(* Every byte that arrives is read by the guest, unless RDR ENB or RESET   *)
(* drops it or the tasks meet: arrivals end at Limit, and nothing is left. *)
(***************************************************************************)
InputRead == []<>(met \/ (popped = arrived /\ ~fresh))
=============================================================================
