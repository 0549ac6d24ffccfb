---------------------------- MODULE ConsoleOutput ----------------------------
(***************************************************************************)
(* The KL11 transmitter and one of its sinks: the guest ("cpu", core 1)    *)
(* writes TPB, the bytes go through the ring g_serial_out to the task      *)
(* "usbout" (core 0), and the guest may write again when DONE is set.      *)
(* tty::service_deferred, which sets DONE, runs on core 1 and on the line  *)
(* clock task ("clk", core 0).                                             *)
(*                                                                         *)
(* The guest is a polite one: it writes TPB only while DONE is set.  A     *)
(* write releases 0 to Burst bytes, since the parser of the ESC ] V P D P  *)
(* prefix holds bytes back and gives them up at once when a match fails.   *)
(***************************************************************************)
EXTENDS SpscFifo

CONSTANTS
  Burst,        (* the most bytes one TPB write releases                   *)
  Reserve       (* OUTPUT_RESERVE: room required before DONE is set        *)

ASSUME OutputAssumption ==
  /\ Burst \in Nat \ {0}
  /\ Reserve \in Burst .. Size - 1

VARIABLES
  busy,     (* tx_busy                                                     *)
  done,     (* TTY_DONE of TPS                                             *)
  dropped,  (* g_serial_dropped is not 0                                   *)
  todo,     (* bytes the current TPB write has yet to push                 *)
  empty,    (* was_empty of the current push                               *)
  resetReq, (* g_serial_reset_requested                                    *)
  notified, (* the notification count of usbout is not 0                   *)
  drained,  (* total of drain_serial_out is not 0                          *)
  short,    (* the last Serial.write accepted less than it was offered     *)
  calm,     (* history: see Calm                                           *)
  pc        (* pc[t]: the next access of task t                            *)

txVars == <<busy, done>>
guestVars == <<dropped, todo, empty>>
usbVars == <<notified, drained, short>>
codeVars == <<fifoVars, txVars, guestVars, usbVars, resetReq, pc>>
vars == <<codeVars, calm>>

Task == {"cpu", "clk", "usbout"}
Goto(t, where) == pc' = [pc EXCEPT ![t] = where]
Free == Size - 1 - Count

-----------------------------------------------------------------------------
(***************************************************************************)
(* The guest writes TPB: tty::write_word and kl11::handle_guest_output.    *)
(***************************************************************************)
WriteTPB ==
  /\ pc["cpu"] = "home" /\ done
  /\ busy' = TRUE
  /\ Goto("cpu", "undone")
  /\ UNCHANGED <<fifoVars, done, guestVars, usbVars, resetReq>>

(* Mutant: a failed match also releases the byte after the prefix. *)
ClearDoneFloods ==
  /\ pc["cpu"] = "undone"
  /\ done' = FALSE
  /\ todo' \in 0 .. Burst + 1
  /\ Goto("cpu", IF todo' = 0 THEN "home" ELSE "push")
  /\ UNCHANGED <<fifoVars, busy, dropped, empty, usbVars, resetReq>>

ClearDone ==
  /\ pc["cpu"] = "undone"
  /\ done' = FALSE
  /\ todo' \in 0 .. Burst
  /\ Goto("cpu", IF todo' = 0 THEN "home" ELSE "push")
  /\ UNCHANGED <<fifoVars, busy, dropped, empty, usbVars, resetReq>>

(* queue_serial_out: the byte is dropped on a full ring ...                *)
NextByte == todo' = todo - 1 /\ Goto("cpu", IF todo = 1 THEN "home" ELSE "push")

OutFull ==
  /\ pc["cpu"] = "push" /\ PushFull
  /\ dropped' = TRUE
  /\ NextByte
  /\ UNCHANGED <<txVars, empty, usbVars, resetReq>>

OutTest(b) ==
  /\ pc["cpu"] = "push" /\ PushTest(b)
  /\ empty' = (head = tail)
  /\ Goto("cpu", "store")
  /\ UNCHANGED <<txVars, dropped, todo, usbVars, resetReq>>

OutStore ==
  /\ pc["cpu"] = "store" /\ PushStore
  /\ Goto("cpu", "publish")
  /\ UNCHANGED <<txVars, guestVars, usbVars, resetReq>>

OutPublish ==
  /\ pc["cpu"] = "publish" /\ PushPublish
  /\ Goto("cpu", "notify")
  /\ UNCHANGED <<txVars, guestVars, usbVars, resetReq>>

(* ... and usbout is notified when the ring was empty before the push.     *)
OutNotify ==
  /\ pc["cpu"] = "notify"
  /\ notified' = (notified \/ empty)
  /\ NextByte
  /\ UNCHANGED <<fifoVars, txVars, dropped, empty, drained, short, resetReq>>

-----------------------------------------------------------------------------
(***************************************************************************)
(* tty::service_deferred, transmitter half, by the run loop and by the     *)
(* clock task.  The count of polls to TTY_TX_POLL_DIV is left out.         *)
(***************************************************************************)
ServeBusy(t) ==
  /\ pc[t] = "home" /\ busy
  /\ Goto(t, "room")
  /\ UNCHANGED <<fifoVars, txVars, guestVars, usbVars, resetReq>>

(* Mutant: the room is not looked at. *)
ServeRoomBlind(t) ==
  /\ pc[t] = "room"
  /\ Goto(t, "ready")
  /\ UNCHANGED <<fifoVars, txVars, guestVars, usbVars, resetReq>>

(* guest_output_ready. *)
ServeRoom(t) ==
  /\ pc[t] = "room"
  /\ Goto(t, IF Free >= Reserve THEN "ready" ELSE "home")
  /\ UNCHANGED <<fifoVars, txVars, guestVars, usbVars, resetReq>>

ServeReady(t) ==
  /\ pc[t] = "ready"
  /\ busy' = FALSE
  /\ Goto(t, "done")
  /\ UNCHANGED <<fifoVars, done, guestVars, usbVars, resetReq>>

(* A transmitter that is neither busy nor done becomes done. *)
ServeIdle(t) ==
  /\ pc[t] = "home" /\ ~busy /\ ~done
  /\ Goto(t, "done")
  /\ UNCHANGED <<fifoVars, txVars, guestVars, usbVars, resetReq>>

ServeDone(t) ==
  /\ pc[t] = "done"
  /\ done' = TRUE
  /\ Goto(t, "home")
  /\ UNCHANGED <<fifoVars, busy, guestVars, usbVars, resetReq>>

-----------------------------------------------------------------------------
(***************************************************************************)
(* tty::reset by the RESET instruction, and the reset of the emulator:     *)
(* kl11::reset has usbout discard what is pending and waits until it has,  *)
(* then the hardware is reset.                                             *)
(***************************************************************************)
ResetInstruction ==
  /\ pc["cpu"] = "home"
  /\ busy' = FALSE /\ done' = TRUE
  /\ UNCHANGED <<fifoVars, guestVars, usbVars, resetReq, pc>>

HostReset ==
  /\ pc["cpu"] = "home"
  /\ resetReq' = TRUE
  /\ Goto("cpu", "ask")
  /\ UNCHANGED <<fifoVars, txVars, guestVars, usbVars>>

HostResetNotify ==
  /\ pc["cpu"] = "ask"
  /\ notified' = TRUE
  /\ Goto("cpu", "await")
  /\ UNCHANGED <<fifoVars, txVars, guestVars, drained, short, resetReq>>

HostResetWait ==
  /\ pc["cpu"] = "await" /\ ~resetReq
  /\ Goto("cpu", "reset")
  /\ UNCHANGED <<fifoVars, txVars, guestVars, usbVars, resetReq>>

HostResetEnd ==
  /\ pc["cpu"] = "reset"
  /\ dropped' = FALSE
  /\ busy' = FALSE /\ done' = TRUE
  /\ Goto("cpu", "home")
  /\ UNCHANGED <<fifoVars, todo, empty, usbVars, resetReq>>

-----------------------------------------------------------------------------
(***************************************************************************)
(* serial_output_task and drain_serial_out.                                *)
(***************************************************************************)
(* Mutant: the request is answered before anything was discarded. *)
UsbTopAnswers ==
  /\ pc["usbout"] = "top"
  /\ drained' = FALSE
  /\ resetReq' = FALSE
  /\ Goto("usbout", "drain")
  /\ UNCHANGED <<fifoVars, txVars, guestVars, notified, short>>

UsbTop ==
  /\ pc["usbout"] = "top"
  /\ drained' = FALSE
  /\ Goto("usbout", IF resetReq THEN "discard" ELSE "drain")
  /\ UNCHANGED <<fifoVars, txVars, guestVars, notified, short, resetReq>>

(* g_serial_out.clear(), for a reset or because no USB host is there.      *)
UsbClearLoad ==
  /\ pc["usbout"] \in {"discard", "drain"} /\ ClearLoad
  /\ Goto("usbout", IF pc["usbout"] = "discard" THEN "discarded" ELSE "cleared")
  /\ UNCHANGED <<txVars, guestVars, usbVars, resetReq>>

UsbClearStore ==
  /\ pc["usbout"] \in {"discarded", "cleared"} /\ ClearStore
  /\ Goto("usbout", IF pc["usbout"] = "discarded" THEN "answer" ELSE "sleep")
  /\ UNCHANGED <<txVars, guestVars, usbVars, resetReq>>

UsbAnswer ==
  /\ pc["usbout"] = "answer"
  /\ resetReq' = FALSE
  /\ Goto("usbout", "drain")
  /\ UNCHANGED <<fifoVars, txVars, guestVars, usbVars>>

UsbPeek ==
  /\ pc["usbout"] = "drain" /\ Peek
  /\ Goto("usbout", "write")
  /\ UNCHANGED <<txVars, guestVars, usbVars, resetReq>>

UsbEmpty ==
  /\ pc["usbout"] = "drain" /\ head = tail
  /\ Goto("usbout", IF drained THEN "top" ELSE "sleep")
  /\ UNCHANGED <<fifoVars, txVars, guestVars, usbVars, resetReq>>

(* Serial.write takes n of the bytes, or none. *)
UsbWrite(n) ==
  /\ pc["usbout"] = "write" /\ Read(n)
  /\ short' = (n < run)
  /\ Goto("usbout", "consume")
  /\ UNCHANGED <<txVars, guestVars, notified, drained, resetReq>>

UsbBlocked ==
  /\ pc["usbout"] = "write"
  /\ rpc' = "idle" /\ run' = 0
  /\ Goto("usbout", IF drained THEN "top" ELSE "sleep")
  /\ UNCHANGED <<head, tail, buf, writerVars, got, out>>
  /\ UNCHANGED <<txVars, guestVars, usbVars, resetReq>>

(* The loop ends early after a short write or 4096 bytes. *)
UsbConsume ==
  /\ pc["usbout"] = "consume" /\ Consume
  /\ drained' = TRUE
  /\ \/ ~short /\ Goto("usbout", "drain")
     \/ Goto("usbout", "top")
  /\ UNCHANGED <<txVars, guestVars, notified, short, resetReq>>

(* Mutant: the wait has no timeout. *)
UsbWakeNotified ==
  /\ pc["usbout"] = "sleep"
  /\ notified
  /\ notified' = FALSE
  /\ Goto("usbout", "top")
  /\ UNCHANGED <<fifoVars, txVars, guestVars, drained, short, resetReq>>

(* ulTaskNotifyTake returns on a notification or after 10 ms. *)
UsbWake ==
  /\ pc["usbout"] = "sleep"
  /\ notified' = FALSE
  /\ Goto("usbout", "top")
  /\ UNCHANGED <<fifoVars, txVars, guestVars, drained, short, resetReq>>

-----------------------------------------------------------------------------
Init ==
  /\ FifoInit
  /\ busy = FALSE /\ done = TRUE /\ dropped = FALSE
  /\ todo = 0 /\ empty = FALSE /\ resetReq = FALSE /\ calm = TRUE
  /\ notified = FALSE /\ drained = FALSE /\ short = FALSE
  /\ pc = [t \in Task |-> IF t = "usbout" THEN "top" ELSE "home"]

Output ==
  \/ ClearDone \/ OutFull \/ OutStore \/ OutPublish \/ OutNotify
  \/ \E b \in Byte : OutTest(b)

Service(t) ==
  ServeBusy(t) \/ ServeRoom(t) \/ ServeReady(t) \/ ServeIdle(t) \/ ServeDone(t)

HostResetStep == HostResetNotify \/ HostResetWait \/ HostResetEnd

(* UsbBlocked is left out: it may happen, but need not. *)
UsbLoop ==
  \/ UsbTop \/ UsbClearStore \/ UsbAnswer \/ UsbEmpty \/ UsbConsume \/ UsbWake
  \/ pc["usbout"] = "discard" /\ UsbClearLoad

UsbTake == UsbClearLoad \/ UsbPeek
UsbAccept == \E n \in 1 .. run : UsbWrite(n)

Step ==
  \/ WriteTPB \/ Output \/ Service("cpu") \/ Service("clk")
  \/ HostReset \/ HostResetStep
  \/ UsbLoop \/ UsbTake \/ UsbAccept \/ UsbBlocked

(***************************************************************************)
(* Nothing locks the tty's registers.  calm: no RESET has set DONE so far, *)
(* and the clock task never was in service_deferred while the CPU worked   *)
(* on the tty.                                                             *)
(***************************************************************************)
Calm == pc["cpu"] = "home" \/ pc["clk"] = "home"

Next ==
  \/ Step /\ calm' = (calm /\ Calm')
  \/ ResetInstruction /\ calm' = FALSE

SafeSpec == Init /\ [][Next]_vars

(***************************************************************************)
(* Both cores run; service_deferred is called again and again; and writes  *)
(* to USB do not fail for ever (HWCDC discards when nobody reads).         *)
(***************************************************************************)
Fairness ==
  /\ WF_codeVars(Output)
  /\ SF_codeVars(Service("cpu"))
  /\ WF_codeVars(HostResetStep)
  /\ WF_codeVars(UsbLoop) /\ WF_codeVars(UsbTake) /\ SF_codeVars(UsbAccept)

Spec == SafeSpec /\ Fairness

-----------------------------------------------------------------------------
(***************************************************************************)
(* Properties.                                                             *)
(***************************************************************************)
TypeOK ==
  /\ FifoTypeOK
  /\ busy \in BOOLEAN /\ done \in BOOLEAN /\ dropped \in BOOLEAN
  /\ todo \in 0 .. Burst
  /\ empty \in BOOLEAN /\ resetReq \in BOOLEAN
  /\ notified \in BOOLEAN /\ drained \in BOOLEAN /\ short \in BOOLEAN
  /\ pc \in [Task -> {"home", "undone", "push", "store", "publish", "notify",
                     "room", "ready", "done", "ask", "await", "reset", "top",
                     "discard", "drain", "discarded", "cleared", "answer",
                     "write", "consume", "sleep"}]

(***************************************************************************)
(* Backpressure: a guest that waits for DONE loses no output, unless DONE  *)
(* came from a RESET or from the clock task in the middle of a TPB write.  *)
(***************************************************************************)
NothingDropped == calm => ~dropped

(***************************************************************************)
(* Nothing of the old guest's output survives a reset of the emulator.     *)
(***************************************************************************)
ResetDiscards == pc["cpu"] = "reset" => Count = 0

(***************************************************************************)
(* The guest sees DONE only when every sink has room, with the same        *)
(* exceptions.                                                             *)
(***************************************************************************)
DoneMeansRoom == [][calm' /\ ~done /\ done' => Free >= Reserve]_vars

(***************************************************************************)
(* The producer's control and usbout's control use the ring as one         *)
(* producer and one consumer: the composition is still a byte channel.     *)
(***************************************************************************)
OutputIsChannel == ImplementsChannel

(***************************************************************************)
(* Every published byte leaves the ring, whether or not anybody reads the  *)
(* USB port: a lost notification only delays usbout.                       *)
(***************************************************************************)
OutputDrains == []<>(Count = 0) \/ []<><<tail' # tail>>_vars
=============================================================================
