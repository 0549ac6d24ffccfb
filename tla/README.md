# TLA+ models of the vpdp1170 firmware

vpdp1170 emulates a PDP-11/70 on an ESP32-S3.  This directory holds TLA+ models
of the parts of the firmware where two cores, a file system and an impatient
guest meet, the TLC configurations that check them, and TLAPS proofs of the
results that do not depend on the size of the instance.  `PROJECT.json` is the
index: it maps every definition to source lines and lists runs, theorems,
hazards and the defects of the code the runs show.

    tlc -workers 2 -config InterruptQueue.cfg MCInterruptQueue.tla
    tlapm InterruptQueueProofs.tla

## 1. The system

Paths are relative to `src/`.

### 1.1 Tasks

| task | core | runs |
|---|---|---|
| `loop()` (`vpdp1170.ino`) | 1 | the CPU (`pdp_core::run_loop` -> `cpu::step`), deferred device service between instructions, `emu_control::poll`, the Telnet shell, boot script, screen menu, host reset |
| `kek-kw11l` (`line_clock_task`) | 0 | `service_line_clock` every millisecond: the KL11's `service_deferred`, KW11-P, LP11, DEUNA, and the KW11-L tick |
| `usbout` (`serial_output_task`) | 0 | drains the USB output ring |
| `tftout`, render task | 0 | drains the screen ring |
| network task | 0 | Telnet, FTP server, NAT, time |
| `lp_consumer` | 0 | writes printed bytes to `/LPn.TXT` |

The guest's devices are plain objects whose registers the CPU's task touches;
several of them are also touched by the clock task, and only the interrupt queue
and the KW11-L's CSR have a lock.

### 1.2 Components, their state, and what makes them correct

| component | source | state | operations | what must hold |
|---|---|---|---|---|
| interrupt queue | `_upstream_kek/cpu.cpp` | one set of vectors per level under `qi_lock`; the unlocked hint `any_queued_interrupts`; PSW priority; WAIT flag; delayed stack trap | queue, unqueue, look up, deliver; WAIT; PSW writes; RESET | no request is forgotten, none is granted at or below the priority, the first one wins, WAIT ends |
| byte FIFO | `host_lib/util/fifo.h` | head, tail, storage | push, pop, peek, consume, clear | a bounded FIFO channel for one producer and one consumer |
| KL11 transmitter | `kek_src_tty.cpp`, `kl11.cpp` | DONE, `tx_busy`, output rings | TPB write, deferred service, drain, reset handshake | backpressure loses nothing; output drains; a reset discards |
| KL11 receiver | `kek_src_tty.cpp`, `kl11.cpp` | TKS, TKB, sticky request, input rings | notify from both cores, TKS/TKB accesses, RESET | in order, once, not overwritten, one interrupt per edge, until the two cores' calls meet |
| disk images and cache | `disk.cpp` | slots, open files, LRU cache of eight blocks | read, write, mount, dismount, cold boot | the cache cannot be noticed |
| FTP against mounted images | `SD_FTP_Server.cpp`, `ftp.cpp`, `storage_guard.cpp` | storage mutex, protection test | store | a mounted image does not change under the guest |
| KW11-L and reset | `kw11-l.cpp`, `pdp_core_kek_impl.cpp` | CSR, baseline, two handshake flags | tick, CSR write, RESET, host reset | a reset silences the clock, ticks arrive, the reset ends |
| KW11-P | `kek_kwp.cpp` | CSR, buffer, counter, remainder, the instruction count it was last brought up to | register accesses, tick, reset | late payment by division is not noticed |
| LP11 and print capture | `kek_lp11.cpp`, `host_lib/capture/lp_capture.cpp` | DONE, completion time, stash, request; ring, session file, chunk | print, tick, drain, requeue, reset | what is printed is written once and in order, and DONE comes back |
| guest output and boot script | `kl11.cpp`, `host_lib/boot/boot_script.cpp` | the frame being matched; prompt, match, answer due | one character, poll, arm and disarm | frames are taken out and nothing else; answers go to their prompts |
| control channel, TT1 input file | `emu_control.cpp`, `kl11.cpp`, `dl11_file.cpp` | command queue, stream (file and read-ahead ring), reply ring | submit, poll, read ahead, reply, load, RESET, reboot | bytes of a file come in order and once, none is missing but what the code drops, keys never inside an answer |
| DEUNA and NAT, DZ11, disk controllers, MMU, shells, UI, configuration | see `PROJECT.json` | | | not modelled: section 7 |

### 1.3 How they interact

* Devices raise interrupts by `cpu::queue_interrupt`, from the CPU's task and
  from the clock task.  LP11, DEUNA and RL02 also call
  `execute_any_pending_interrupt` themselves, the first two from core 0.
* The guest's console bytes pass from a TPB write through `handle_guest_output`
  into three rings (screen, Telnet, USB); the consumers are tasks of core 0.  Input
  comes back through rings of which the CPU's task is meant to be the consumer.
* Disk controllers call `disk_read` and `disk_write` on the CPU's task inside the
  register write that starts a transfer.  Every caller of the disk store and the FTP
  server take one storage mutex (`SD_FTP_StorageGuard`).
* A guest prints a command in a frame (`ESC ] VPDP; ... ETX`); `handle_guest_output` takes
  it out of the console stream, `emu_control::poll` executes it, and the reply comes back
  through the priority input ring and the KL11 receiver, which both cores serve.
* A host reset announces itself to the clock task and waits until the clock's pass
  is over; the guest's RESET does not.

### 1.4 What is hard

Two cores without a lock (the hint, TKS/TPS, the CSR), flags stored with release
order and read with acquire order, handshakes with timeouts, lost notifications
repaired by polling, a cache keyed by slot while files change below it, transfers
that fail halfway, and a check repeated because time passed since the first one.
`PROJECT.json` lists each hazard at its line with the property that would catch it.

## 2. Modules

| module | role |
|---|---|
| `InterruptLines` | lines, levels, vectors and the order of grants |
| `InterruptRequests` | abstract: what a guest may observe of interrupts |
| `InterruptQueue` | the hint, the lock, the CPU's step and the clock task |
| `MCInterruptQueue` | levels and vectors of the instances |
| `InterruptQueueProofs` | proofs |
| `ByteChannel` | abstract: a bounded channel of bytes |
| `SpscFifo` | `class Fifo`, load by load |
| `ConsoleOutput`, `ConsoleOutputProofs` | the transmitter, its ring (extends `SpscFifo`) and `usbout`, and proofs of these two and of `GuestOutput` |
| `Kl11Receiver`, `MCKl11Receiver`, `Kl11ReceiverProofs` | the receiver, and proofs |
| `DriveStore` | abstract: drives without a cache |
| `DiskCache`, `MCDiskCache`, `DiskCacheProofs` | slots, cache, FTP, and proofs |
| `LineClock`, `LineClockProofs` | the KW11-L tick and the reset handshake, and proofs |
| `LinePrinter`, `MCLinePrinter`, `LinePrinterProofs` | the LP11, the capture ring and its consumer, and proofs |
| `CountingClock` | abstract: a counter that moves at the end of each period |
| `ProgrammableClock`, `MCProgrammableClock`, `ProgrammableClockProofs` | the KW11-P, paying late, and proofs |
| `GuestOutput`, `MCGuestOutput` | the frame parser and the boot script (proofs in `ConsoleOutputProofs`) |
| `ControlChannel`, `MCControlChannel`, `ControlChannelProofs` | commands, the file stream and the answers, and proofs |

Conventions: `pc[t]` is the next access of task `t`; one action per access that
another task can see in between; definitions carry the names of the C++ functions;
an operator with the comment `Mutant:` is not part of the model but a plausible
bug, used to show that a property notices it (`PROJECT.json`, "mutants").  Variables
marked "history" exist for the properties and never guard an action.

Where the code is correct only while two tasks do not meet, a history says so: `swept`
(InterruptQueue), `calm` (ConsoleOutput), `crossed` and `met` (Kl11Receiver), `kept`
(LineClock), `clean` (LinePrinter, ProgrammableClock), `raced` (ControlChannel).  A
property under it says that the code is right in every behaviour in which the history
has not fallen; it does not say that the code is wrong in the others.  `swept` and
`clean` fall in the very step that does the harm.  The others are coarser: `calm` falls
at any overlap of the two transmitter services or of a RESET with one, `met` at any
overlap of two receiver calls that have read TKS, `crossed` when both have yet to store
it, `raced` at any two loads at once, and `kept` at every guest RESET and every wait
that gave up, whether or not anything comes of it.  What does come of them is in the
list below section 3's table.  Where nothing is claimed after the history has fallen,
the MC module's CONSTRAINT stops there.

### 2.1 InterruptQueue

`queued` is the union of `queued_interrupts[level]`; a line stands for a (level,
vector) pair.  The CPU's task goes through `step_impl`: test of WAIT (`StepRunning`,
`StepWaiting`), exchange of the hint (`TestAndClearHint`), the delayed stack trap
(`DelayedTrap`), the scan under the lock (`ExecBegin`, then `ExecNone` or
`ExecDeliver`, both ending in `ExecReturn`, which re-arms the hint for what stays
queued), one instruction, deferred service.  `execute_any_pending_interrupt` reads
the priority once when it has the lock and the scan compares with that copy
(`level`), so a PSW write on the other core in between is visible: that is how a
delivery by core 0 breaks masking.  Instructions are those that touch this state
(SPL, MTPS, RTI, PSW writes, pushes into the stack limit zone, WAIT, RESET, device
register writes); the others are `OtherInstruction`.  RESET clears the sets and
then the hint, without the lock; `swept` becomes TRUE when it takes the hint of a
request that came in between.

Bounds: three lines of three levels.  The scan compares two requests, the hint is
one bit, and the lock has two clients, so a third line only adds a bystander; the
theorems hold for any set of lines.

### 2.2 SpscFifo and ConsoleOutput

`SpscFifo` has a step for each load or store the other side can observe.  The size
is 4 (capacity 3): empty, full, wrap-around and a partial consume all occur.
Release/acquire pairs make the steps sequentially consistent, since each cursor has
one writer.

`ConsoleOutput` composes the ring with the transmitter and with `usbout`.  One TPB
write puts 0 to `Burst` bytes into the ring: NULs are swallowed and a failed match
of the control prefix releases several.  The reserve is the code's 16 slots scaled
to `Burst`; the assumption `Burst <= Reserve < Size` is what the code's comment
claims of 16.  A HWCDC write may take part of what it is offered, or nothing.  The
ring of this model holds one byte value and has room for two, since `SpscFifo` checks the
values.  Both tasks that call `service_deferred` do so here; `calm` records whether they
ever got in each other's way, or a RESET in the guest's.  Of the
three sinks one is modelled; DONE is the conjunction over three rings of the same
class.

### 2.3 Kl11Receiver

Bytes are (source, number) pairs so that order and duplicates are visible.  Both tasks
call `service_deferred`: the clock task always, the CPU's when `needs_deferred_service`
is true, that is, while IE is set or the transmitter is not ready (`busy`; when it gets
ready is `ConsoleOutput`'s subject).  A TKS update is a load and a store, `notify_rx` is
the test of DONE, the look at the queue, the two halves of the pop and the two stores,
and `update_rx_interrupt` is a test and a call; the other task may come between any two
of them.  The guest is a usual driver, but for `GuestDrops` RESETs or "reader enables",
each of which drops what is in TKB and puts off the next load.

`crossed` falls when a task reads TKS while the other has read it and not stored it yet:
from then on an unread byte may be overwritten (run `kl11_receiver_race`) and nothing is
claimed of the order.  `met` falls when the other task is anywhere in its call, its late
call of `queue_interrupt` or `unqueue_interrupt` included: the request may then be lost.

Bounds: two keys, for the order, one injected byte, for the priority, and one RESET or
reader enable in the passing run; none in the race.  The theorems hold for any numbers.

### 2.4 DiskCache

Images are arrays of `Units` data units; a block has `BlockUnits` of them, and the
size is not a multiple of the block so that the last block is short.  `Read` starts
a `disk_read`, which then goes block by block (`ReadFill`, `ReadFillFails`,
`ReadCopy`, `ReadPastEnd`); a transfer may fail or be short at any point.  All
callers hold the storage mutex, so `Write`, `Mount` and `Dismount` are single steps.
An FTP upload tests the protection, waits for its data connection, takes the mutex,
tests again and replaces the file.  `DriveStore` is the same without a cache: an
`answer` is a failure, or exactly the bytes of the image followed by zeros.

Bounds: two slots, two images, two blocks of two units, requests of at most two
units, so that a read spans blocks, evicts, and meets the end.

### 2.5 LineClock

`flag` holds `g_reset_in_progress` and `g_clock_service_active`; `buf` is a store
buffer of one entry per core, because a release store followed by an acquire load of
another variable may be seen in the other order.  `kept` records whether the last
reset settled with the clock task: it found the flag clear, no store was on its way,
and it did not give up after its second.  The instruction counter is reduced to
three facts (`ran`, `base`, `due`).  The state space is finite as it stands; there
are no constants.

### 2.6 LinePrinter

`lps`, `until`, `irq` and `stash` are the device's variables; a `WriteLPS`, `PrintByte`
or tick is split where another task can see the middle of it.  The ring is meant for
one producer but is pushed to by the guest (`PublishPrint`), by the tick that retries a
stashed character (`PublishRetry`) and by the consumer that puts back a chunk it could
not write (`Requeue`); so it is not `SpscFifo` here, but the loads and stores of its
`push` and `consume` again.  `Captured` names the places a character may be in; `clean`
falls when a requeue meets newer bytes, a partial write is repeated, a reset meets the
consumer, or the guest answers DONE inside `complete_print`.  The last is a hang of the
code: the completion time of the next character is cleared.

Bounds: three slots (two characters), chunks of two, three characters printed and two
sessions: the ring fills, the stash is used, chunks are full and partial, a requeue
finds the ring with and without room, and a reset comes at every point.

### 2.7 CountingClock and ProgrammableClock

`update_clock` is the operator `Updated` on the registers and the remainder; every
access of the guest applies it first, and the tick of the clock task does in two steps.
`Shown` is what the registers would hold if what is owed were paid now, and `Counts`
says that `Shown` moves as `CountingClock` does, one instruction at a time.  `clean` falls
when an access falls between the tick's loads and stores, and when a byte write merges a
register that is out of date.

Bounds: `Modulus` 4 and periods 1 and 2 with up to eight instructions owed: the counter
wraps twice at the faster rate, so several expirations are paid at once.  Periods that
are not whole multiples and the 16-bit width are `Period` and `Modulus`; the code's
operations are the same for any.

### 2.8 GuestOutput

A character is one step.  `Transparent` compares what the parser has passed on with
`Reading`, which looks at the whole text: `Readings` says of every place what the text
says from there on, by what it says from later places.  A frame that begins inside a
failed match is missed by the code, and `Overlap` excludes such texts.  The boot script
hears what the sinks are given; `AnswersPrompts` relates it to the prompts.  A failed
match of a prompt begins again with the last character only, so a prompt such as `aab`
is missed in `aaab`; the prompts of the instance, `a]]` and `;a`, cannot be missed so.
The letters' case is folded by the code and left out here; the prefix has three
characters instead of seven.  Every text of six characters over eight kinds is tried.

### 2.9 ControlChannel

Core 1 executes the guest or the main loop.  Both tasks load the receiver, in steps: the
test of DONE (`Test`), the look into the ring of answers (`Pop`), and the load (`Load`,
`LoadNothing`).  Between them core 1 may push the next byte of an answer, and the other
task may load; `raced` says that two loads overlapped, or that the reboot cleared the
ring under one.  A byte of an answer carries the number of the file's byte and of the
connection, so that order, loss and old answers are visible; a byte that INASCII masks
to seven bits keeps its number, so the loss of its top bit is not seen.

`HostPolled` is `host_poll`, which reads ahead only when TT1 is enabled (`enabled`; the
direct commands work without it, from the file alone), `Taken` is `read_stream`;
whichever of them reaches the end of the file announces it.  The EOF byte of `EOF=`,
which `docs/user-manual.md` promises without a condition, is put into the ring only when
the read-ahead reaches the end; a read that gets there first does not add it, and neither
does anybody when TT1 is disabled.  INASCII stops at a line feed or when it has `LineMax`
characters, of which carriage returns are none (`TakeLine`), and `queue_line` measures
what is left with `strlen`, so that a NUL, or 0200 after the mask, loses the rest of the
line (`Text`).  A command replies only when it asks for it (`reply`), and OPEN has `EOF=`
and `NOTIFY` apart (`mark`, `notify`).

`lost` says that an answer found the ring full, or that the guest's RESET or reader
enable cleared DONE over a byte of one (`ClearDone`).  `StreamInOrder` says that nothing
is out of order whatever is lost, and that without `lost` nothing is missing but line
feeds, carriage returns and what follows a NUL in its line (`Dropped`).

Bounds: four commands of seven kinds (OPEN with all it can name and with none, INHEX of
two bytes, INASCII, CLOSE, STATUS, REBOOT), a file of five bytes with a carriage return,
a NUL and a line feed, lines of at most two characters, read-ahead one byte at a time
into two, an answer ring of six, one key and one reboot; behaviours are followed to the
first `raced` (CONSTRAINT `Alone`), which leaves 2.6 million states.  A line that is cut
by its length, by its NUL, by its line feed and by the end of the file all occur, as do
answers that find the ring full.

## 3. Runs

| run | question | result |
|---|---|---|
| `interrupt_queue` | does the unlocked hint, RESET included, ever hide a request, a stack trap, or the end of a WAIT, and is the result an interrupt system? | no; yes |
| `interrupt_forced_mask` | is masking kept when the clock task delivers by itself? | violated |
| `spsc_fifo` | is the ring a bounded channel? | yes |
| `console_output` | does a polite guest lose output, does output drain, does a reset discard? | no; yes; yes |
| `kl11_receiver` | with both tasks serving: order, uniqueness, no overwriting until they cross; one interrupt per edge and delivery of all input until they meet | holds |
| `kl11_receiver_race` | is an unread byte never overwritten, wherever they meet? | violated |
| `disk_cache` | can the guest notice the cache, whatever fails and whoever uploads? | no |
| `line_clock` | does a reset that settled leave the clock silent, do ticks come, does the reset end? | yes |
| `line_printer` | is what was printed somewhere, once and in order, and does DONE come back? | yes, until tasks meet |
| `programmable_clock` | can the guest notice that the clock pays late? | no, until a tick is met |
| `guest_output` | do frames, and only frames, leave the console stream, and does the script answer its prompts? | yes |
| `control_channel` | do a file's bytes come in order and once, with none missing but what the code drops, are answers whole, do queues keep their bounds? | yes, until two tasks load at once |

The violated ones are disagreements between a comment or document and the code; the
quotes are in `PROJECT.json`, "findings".  More such disagreements are stated in the
modules, without a run of their own; TLC shows each when the definition or the
condition named here is added to the run's configuration:

* `InterruptQueue.RequestGranted`: a request queued by the clock task between the two
  stores of RESET is never granted.  `swept` excludes just this one from the properties
  of `interrupt_queue`.
* `LineClock.EnableGates`: the tick's read and write of the CSR are two critical
  sections; a guest that disables interrupts in between is overruled and interrupted.
* `LinePrinter.InterruptMeansDone`: a data write withdraws `irq_pending`, but not what is
  in the CPU's queue already.
* `SharedImages = TRUE` in `DiskCache.cfg`: an image in two slots has stale blocks, as
  invalidation is by slot.
* `HandlerNotIdle` with a clock-forced line: a delivery between WAIT's look and its
  flag puts the CPU to sleep in the handler.
* `DoneMeansRoom` without the `calm` condition: a RESET sets DONE without room, and so
  does a clock task whose `service_deferred` runs across a TPB write of the CPU.
* `ResetQuiet` without `kept`: a wait that gave up, a delayed store, or a guest RESET
  lets the old enable bit survive.
* `RequestIsEdge` without `met`: the CPU's task, on its way to withdraw the request of the
  byte just read, is overtaken by the clock task that loads the next byte and queues its
  request; the late withdrawal takes that one.  `rx_irq_asserted` says that a request is
  queued, so none follows, and a guest that waits for the interrupt waits until it polls
  or clears IE.  (`InOrder` without `crossed` fails as `NeverOverwritten` does.)
* `Captured` and `NeverStuck` without `clean`, `Counts` without it, `FramesWhole` without
  `raced`: what section 2 says of these histories.

## 4. Fairness

* Core 1's run loop and core 0's tasks keep running: weak fairness on the steps of a
  call that has begun.  FreeRTOS runs both cores, and the tasks sleep between passes.
* `qi_lock` is held for a few instructions by either task, so a task that wants it
  gets it: strong fairness on the steps that take it.
* `service_deferred` is called between instructions: strong fairness of the CPU's
  service steps in `ConsoleOutput`; nothing is assumed of the clock task there.
* `Kl11Receiver`: the CPU's task calls it only while `needs_deferred_service` holds, so
  its calls are not relied on.  The clock task calls it every millisecond for ever, and
  calls of either task advance the poll divider, so some task's `notify_rx` comes again
  and again while no byte is unread: weak fairness of `\E t : Service(t)`.  A pop that
  finds the delay between bytes not over (`PopNothing`) is tried again; the delay is put
  off only by reading a byte and by the `GuestDrops` reader enables, so it is over in
  the end: strong fairness of `PopRead`.
* A USB write does not fail for ever (the driver discards when no host reads): strong
  fairness on accepting, none on being blocked.
* The guest of `Kl11Receiver` reads TKB when it may and lets the request through; it
  has to be a program that wants its input, or nothing can be said.
* `LineClock`: the clock task keeps its period, a reset that has begun goes on, a
  running guest executes instructions, buffered stores arrive.  `AwaitGivesUp` has no
  fairness: the reset ends without it.

## 5. Proofs

All by `tlapm` with Z3, Zenon and LS4; for every value of the constants.

| theorem | statement | assumption |
|---|---|---|
| `TypeCorrect` | `SafeSpec => []TypeOK` | none |
| `WakeupNeverLost`, `StackTrapNeverLost` | `[]NoLostWakeup`, `[]StackTrapNotLost` | none |
| `HandlerRuns`, `MaskingHolds`, `Implementation` | `[]HandlerNotIdle`, `Masking`, `Architecture!SafeSpec` | the clock task delivers nothing itself |
| `FifoTypes`, `FifoCorrect` | `[](FifoTypeOK /\ RoomKept /\ ReadStable)` | none |
| `FifoImplementsChannel` | `FifoSpec => ImplementsChannel` | none |
| `OutputTypes`, `OutputNeverDropped`, `ResetEmptiesOutput`, `DoneHasRoom` | `[]TypeOK`, `[]NothingDropped`, `[]ResetDiscards`, `DoneMeansRoom` | none |
| `ConsoleIsChannel` | `SafeSpec => OutputIsChannel` | none |
| `ReceiverTypes`, `InputInOrder`, `OneRequestPerEdge`, `UnreadKept` | `[]TypeOK`, `[]InOrder`, `[]RequestIsEdge`, `UnreadStays` | none |
| `DiskTypes`, `CacheCorrect`, `SizesKept` | `[](TypeOK /\ CacheCoherent /\ NoOverlap /\ SizeCurrent)` | no image in two slots |
| `CacheInvisible` | `SafeSpec => ImplementsStore` | no image in two slots |
| `ClockTypes`, `ResetKeepsClockOut`, `ResetSilencesClock` | `[]TypeOK`, `[]ResetExclusive`, `[]ResetQuiet` | none |
| `PrinterTypes`, `PrinterNeverStuck`, `PrintedIsCaptured` | `[]TypeOK`, `[]NeverStuck`, `[]Captured` | none |
| `ProgrammableTypes`, `PayingLateIsExact` | `[]TypeOK`, `Counts` | none |
| `ControlTypes`, `FramesAreWhole`, `FileInOrder` | `[](~raced => TypeOK)`, `FramesWhole`, `[]StreamInOrder` | none |
| `FramesTaken`, `AnswersGiven` | `[]Transparent`, `[]AnswersAsked` | none |
| `PromptsAnswered` | `[]AnswersPrompts` | the first character of a prompt comes again only at its end |

The constants' own assumptions (`ClockAssumption` and so on) are those of the modules.
The assumptions of the table are not conveniences: the violation runs, and the
conditions named in section 3, show each one to be needed.  Properties under a history
(`swept`, `calm`, `crossed`, `met`, `kept`, `clean`, `raced`) are proved as they are checked, under it; for
`ControlTypes` the condition is in the theorem, as the run stops at `raced` by its CONSTRAINT.

* **Wakeups.** `NoLostWakeup` says where the responsibility for a pending request is:
  the hint, a task about to set it, or the CPU between the exchange and the end of the
  scan.  With `swept` for what RESET's two stores pass over it is inductive by itself.
* **Delivery.** `ClockInv` keeps the clock task out of the scan; then `LevelInv` (the
  scan's copy of the priority is current) and `SleepInv` (where `waiting` and `fresh`
  may be set) are inductive, and masking, the handler's wakefulness and the refinement
  follow.  The refinement maps `queued` and `spl` to themselves.
* **Ring.** The invariant relates `run` and `got` to the distance of the cursors.
  `Contents`, the abstract queue, is a function of head, tail and storage; the lemmas
  say how it changes when a slot beyond it is written, when head advances and when
  tail does.
* **Console.** The ring's invariant is kept as part of this one.  `Tasks` says which of
  the tasks owns DONE, `DoneRoom` that DONE, or a task about to set it, stands for a
  whole reserve, and `Fits` that what a write has still to push fits; none of the three
  is inductive alone, as pushing uses up the room that DONE promised.  `Asked`,
  `Cleared` and `Emptied` follow the reset's request from the asking task to `usbout`
  and back.  For the refinement every step is one of `FifoNext`, a blocked write, or
  leaves the ring alone, so the ring's step lemma is used as it stands.
* **Receiver.** `Unread` says that DONE, or the copy of the CSR about to be stored,
  tells whether TKB holds a byte the guest has not read: without the second half the
  load and the store of a TKS update would lose it.  `Order` counts every byte in one
  place, and `Edge` relates the sticky flag to the request.  The first two are claimed
  until `crossed`, with the fact that only one task then is between its read of TKS and
  its store; `Edge` until `met`, with the fact that only one is anywhere in a call.
  `ReceiverTypes` needs neither, but that both tasks only ever set a queue's tail to one
  past a byte that has arrived.
* **Cache.** The inductive invariant is the conjunction of the listed ones with the
  state of a read in progress: what `out` holds is a prefix of the image, which needs
  that no write can pass while the lock is held, and that the block being filled is
  invalid.  `CacheInvisible` then matches the last copy of a read with the abstract
  answer.
* **Line clock.** `Handshake` is the argument that store buffers make necessary: after
  a reset has settled, the task's announcement is either not made, or still ahead of its
  second look at the reset's flag, which it will then find set.  `Silence` says what is
  left of the CSR and the request while a reset clears, and until the guest's write.
* **Printer.** `Types` holds whatever the tasks do to each other; its `Chunks` says where
  the consumer may hold nothing, so that a requeue never takes a byte from an empty
  chunk.  `Owed` and `Stashed` are the account of DONE: a character on its way or in the
  stash keeps DONE clear with no completion time left over, except between the two
  stores of `complete_print`.  `Stamped` follows `last_push_ms`: the consumer's read of
  a non-empty ring, and a requeue, both need it, and a reset forgets it only over an
  empty ring with nothing on its way back.  For `Captured` two more parts are needed:
  `Slotted`, that whoever is about to store a cursor has loaded the one that is there,
  and `Filed`, that a file picked, or still to be picked, is empty.  The ring's contents
  then grow by the byte published (`SlotsGrow`) and are what a pop took followed by what
  it left (`SlotsSplit`), and each step moves one piece of the concatenation.
* **Programmable clock.** `Pays(r, s, n)` describes register by register what a payment
  of `n` counts makes of `r`, and determines `s`.  `update_clock` is such a payment of
  the quotient (`UpdatedRunning`), two payments are one (`PaysTwice`, which needs that a
  remainder taken twice is the remainder of the sum, `DivModSum`), and the payment of
  one instruction is the abstract step (`OneInstruction`).  An instruction then adds a
  payment of one to what is shown, an access pays first and stores over the result, and
  a tick splits a payment in two.  The invariant adds that the remainder is less than a
  period and that a tick's copies are the registers while nobody has met it.

* **Control channel.** The invariant is `raced`, or three parts.  `Types` bounds every
  queue; that an operation finds room needs the read-ahead's arithmetic
  (`len(fifo) <= Ahead`, `pos <= Size`) and that the file closes when it is exhausted.
  `Frames` follows one answer: what is on its way ends with a last byte, at each of the
  queue of answers, the one being pushed and the ring, so that `mid` always leaves a
  byte to come, and a task that has seen an empty ring finds nobody in the middle.
  `LoaderWaits` says that one task loads at a time and what its older test is still
  worth.  `Stories` is about the file.  A byte of the open connection is in one of six
  places (`Parts`: what the guest has read, the register, the ring, the answer being
  pushed, the answers due, and what is still to be read); `Fine` says that they are in
  order place after place (`Told`), that what is missing while no answer was lost is in
  `Slack`, the bytes that INASCII drops and those that are not the file's, and that
  nothing lies past the end while the file is open.  That a line's lost rest is in
  `Dropped` needs that every byte between the NUL and it is in the same line, that is,
  no line feed (`TakeLineTakes`).  Steps move bytes between neighbours; `Earlier` lets
  the bytes of an older connection be forgotten when a new one opens, and `BootCloses`
  says that a reset meets no open one.  The sequences are compared as sets of bytes with
  an order between sets (`Before`), so only the flattening of the answers due needs an
  induction, by least counterexample.
* **The guest's text.** `Reading` recurs from the end of the text and the parser goes
  forward, so the invariant (`Parsed`) speaks of texts that are still to come: `b` is
  where the parser's unfinished business begins, and every longer text without an
  overlap reads as what was passed on, followed by its reading from `b` (`PassedOn`).
  A step either keeps `b` or moves it past a character shown, a frame, or a false start,
  whose characters each read as themselves.  The text as it stands is one of those
  texts, and its reading from `b` is empty.  That `Readings` is defined by its equation
  is shown once, by least counterexample.  The script's half
  (`Scripted`) is about one character: `Following` says that what is matched of a prompt
  is the end of what was heard, whatever the prompt; `Attentive`, for prompts whose
  first character comes again only at the end, that no longer part of it is, so that the
  prompt is never heard unnoticed.  `AnswersGiven` is what remains for any prompts:
  no answer without its prompt, none twice, none out of order.

TLC only: liveness, which is out of the provers' reach: `WaitEnds`, the liveness of
`ImplementsRequests`, `OutputDrains`, `InputRead`, `EnabledTicks` and `ResetEnds`.  Every
invariant and action property of a passing run is stated by a theorem.

## 6. What the models abstract

Bytes and data units are members of small sets; the CPU's registers, memory and
addressing do not appear; polls counted by a divider happen nondeterministically;
time is replaced by "may time out now"; `LOG` calls, traces and statistics are left
out.  Data races are interleavings of the loads and stores of the source, in source
order; only the two flags of the reset handshake also get a store buffer.

## 7. Not modelled

What another extension would take up, in this order:

1. PIR: the seven levels rewritten by one register write, with the queue of
   `InterruptQueue`; stack limit and trap nesting depth.
2. `DZ11` silo and scanner with Telnet lines.
3. Disk controllers: RL02 and RK05 register protocols over `DriveStore`.
4. DEUNA descriptor rings, and the NAT's connection table.
5. The rest of TT1: the output file with its ring; and `boot_input`'s timed typing.

Left out for good: instruction decoding, arithmetic and floating point (an instruction
set specification would be a second emulator; the repository runs XXDP for it), the MMU
beyond access checks, drawing, touch, Wi-Fi, configuration files, shell command
parsing, third-party libraries, `legacy_sam11`, `kl11-implementation` and `tools`,
which are not part of the image.
