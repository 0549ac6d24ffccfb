--------------------------- MODULE ControlChannel ---------------------------
(***************************************************************************)
(* What becomes of the commands a guest sends to the emulator, and how the *)
(* answers come back through its own keyboard.  A command waits in a short *)
(* queue for the main loop.  Commands that read a file consume a stream    *)
(* (the file and the ring TT1 reads ahead into) and answer with a line;    *)
(* others answer with a frame.  Answers go through a ring that the KL11    *)
(* receiver empties before it looks at what was typed.                     *)
(*                                                                         *)
(* The guest and the main loop alternate on core 1.  Core 1 ("cpu") and    *)
(* the line clock task on core 0 ("clk") both load the receiver, each step *)
(* by step; which calls find a reason to is Kl11Receiver's subject.        *)
(***************************************************************************)
EXTENDS Naturals, Sequences, FiniteSets, FiniteSetsExt

CONSTANTS
  Size,       (* bytes of the file the guest reads                         *)
  LineEnds,   (* those that are line feeds, with the byte of EOF=          *)
  Returns,    (* ... carriage returns                                      *)
  Nulls,      (* ... NUL once their top bit is masked                      *)
  LineMax,    (* the longest line INASCII returns                          *)
  Ahead,      (* capacity of the ring TT1 reads ahead into                 *)
  Chunk,      (* bytes read ahead in one poll                              *)
  HexCounts,  (* the n of INHEX;n                                          *)
  Commands,   (* the commands the guest sends                              *)
  FrameBytes, (* bytes of a framed reply                                   *)
  Capacity,   (* capacity of the ring of replies                           *)
  Depth,      (* QUEUE_DEPTH                                               *)
  MaxCommands, MaxKeys, MaxBoots  (* bounds                                *)

(* A command by what it does.  `reply` tells whether it has ;REPLY, `mark` *)
(* whether OPEN has EOF=byte and `notify` whether it has NOTIFY.           *)
Command ==
  [do : {"open"}, mark : BOOLEAN, notify : BOOLEAN, reply : BOOLEAN]
    \cup [do : {"close", "ask", "reboot"}, reply : BOOLEAN]
    \cup [do : {"hex"}, max : HexCounts] \cup [do : {"ascii"}]

ASSUME ControlAssumption ==
  /\ Size \in Nat
  /\ {LineEnds, Returns, Nulls} \subseteq SUBSET (1 .. Size + 1)
  /\ HexCounts \subseteq Nat \ {0} /\ Commands \subseteq Command
  /\ {LineMax, Ahead, Chunk, FrameBytes, Capacity, Depth} \subseteq Nat \ {0}
  /\ {MaxCommands, MaxKeys, MaxBoots} \subseteq Nat

(* The byte EOF= names and the answer "*>EOF<*", after the file's bytes.   *)
EofByte == Size + 1
EofLine == Size + 2

(* An answer is a sequence of bytes; `last` marks the end of the answer.   *)
(* `at` is the file's byte it carries and `conn` the connection.           *)
Byte == [last : BOOLEAN, at : 0 .. Size + 2, conn : Nat]

Task == {"cpu", "clk"}

VARIABLES
  enabled,  (* TT1 takes part: g_enabled                                   *)
  commands, (* the queue of commands                                       *)
  stream,   (* the connected file: input_file, input_fifo, input_eof ...   *)
  due,      (* answers the command being executed has still to queue       *)
  sending,  (* the rest of the answer being pushed                         *)
  ring,     (* g_control_reply                                             *)
  tkb,      (* the receiver's buffer                                       *)
  done,     (* DONE of TKS                                                 *)
  keys,     (* keys typed and not loaded                                   *)
  loader,   (* what each task does next with the receiver                  *)
  boot,     (* progress of a reboot                                        *)
  sent, typed, boots,  (* how often the bounded inputs have happened       *)
  mid,      (* history: an answer has been loaded in part                  *)
  heard,    (* history: what the guest has read of this connection         *)
  lost,     (* history: an answer of this connection was not queued, or a  *)
            (* byte of one was cleared before the guest read it            *)
  raced     (* history: two tasks were at the ring or the receiver at once *)

inputVars == <<sent, typed, boots>>
receiverVars == <<tkb, done, keys, mid, heard>>
vars == <<enabled, commands, stream, due, sending, ring, receiverVars, loader,
          boot, inputVars, lost, raced>>

Key == [last |-> TRUE, at |-> 0, conn |-> 0]

(* close_input and the state before the first OPEN.                        *)
Disconnected(n) == [open |-> FALSE, pos |-> 0, fifo |-> <<>>, eof |-> FALSE,
                    mark |-> FALSE, notify |-> FALSE, conn |-> n]
Opened(n, mark, notify) ==
  [Disconnected(n) EXCEPT !.open = TRUE, !.mark = mark, !.notify = notify]

-----------------------------------------------------------------------------
(***************************************************************************)
(* The stream.  Each operator gives the stream after it and whether an EOF *)
(* event is due.                                                           *)
(***************************************************************************)
Exhausted(s) == s.pos = Size
Available(s) ==
  s.fifo \o IF s.open THEN [i \in 1 .. Size - s.pos |-> s.pos + i] ELSE <<>>

(* finish_input_locked: once at the end of the file.                       *)
Finished(s) == [s EXCEPT !.open = FALSE, !.eof = TRUE, !.notify = FALSE]

(* host_poll: read ahead, if TT1 is enabled; the EOF byte needs room, or   *)
(* waits for the next poll.                                                *)
ReadAhead(s) ==
  LET n == Min({Chunk, Ahead - Len(s.fifo), Size - s.pos})
  IN  [s EXCEPT !.pos = @ + n, !.fifo = @ \o [i \in 1 .. n |-> s.pos + i]]

HostPolled(s) ==
  IF ~enabled \/ ~s.open \/ Len(s.fifo) >= Ahead
  THEN [stream |-> s, event |-> FALSE]
  ELSE LET r == ReadAhead(s)
       IN  IF ~Exhausted(r) \/ (r.mark /\ Len(r.fifo) >= Ahead)
           THEN [stream |-> r, event |-> FALSE]
           ELSE [stream |-> Finished([r EXCEPT !.fifo =
                              IF r.mark THEN Append(@, EofByte) ELSE @]),
                 event |-> r.notify]

(* read_stream: n bytes, what was read ahead first.  `more` tells that the *)
(* last call asked for more than there was.                                *)
(* Mutant: the file is read before what was read ahead of it. *)
TakenOutOfOrder(s, n, more) ==
  LET m == IF s.open THEN Min({n, Size - s.pos}) ELSE 0
      r == [s EXCEPT !.pos = @ + m,
                     !.fifo = SubSeq(@, n - m + 1, Len(@))]
      end == r.open /\ Exhausted(r)
  IN  [bytes |-> [i \in 1 .. m |-> s.pos + i] \o SubSeq(s.fifo, 1, n - m),
       stream |-> IF end THEN Finished(r) ELSE r, event |-> end /\ r.notify]

Taken(s, n, more) ==
  LET old == Len(s.fifo)
      r == [s EXCEPT !.fifo = SubSeq(@, n + 1, old),
                     !.pos = IF n > old THEN @ + (n - old) ELSE @]
      end == r.open /\ Exhausted(r) /\ (n > old \/ more)
  IN  [bytes |-> SubSeq(Available(s), 1, n),
       stream |-> IF end THEN Finished(r) ELSE r, event |-> end /\ r.notify]

TakeHex(s, max) ==
  LET n == Min({max, Len(Available(s))}) IN Taken(s, n, n < max)

(* INASCII: up to a line feed, or LineMax characters that are no carriage  *)
(* returns.                                                                *)
TakeLine(s) ==
  LET a == Available(s)
      stops == {i \in DOMAIN a :
                  \/ a[i] \in LineEnds
                  \/ Cardinality({k \in 1 .. i :
                                    a[k] \notin Returns}) = LineMax}
  IN  IF stops = {} THEN Taken(s, Len(a), TRUE)
      ELSE Taken(s, Min(stops), FALSE)

-----------------------------------------------------------------------------
(***************************************************************************)
(* emu_control::execute: the stream and the answers after a command.       *)
(***************************************************************************)
Marked(ats) ==
  [i \in DOMAIN ats |->
     [last |-> i = Len(ats), at |-> ats[i], conn |-> stream.conn]]

Frame == Marked([i \in 1 .. FrameBytes |-> 0])
Events(event) == IF event THEN <<Frame>> ELSE <<>>
Reply(c) == IF c.reply THEN <<Frame>> ELSE <<>>

(* A line ends with a carriage return.                                     *)
Line(ats) == Marked(Append(ats, 0))

(* handle_in_ascii and handle_in_hex, with what read_stream has returned.  *)
ReadAnswer(taken, line) ==
  Events(taken.event)
    \o <<IF taken.bytes # <<>> THEN Line(line)
         ELSE IF taken.stream.eof THEN Line(<<EofLine>>)
         ELSE Line(<<0>>)>>

(* The line without line feeds and carriage returns, and cut at its first  *)
(* NUL: queue_line goes by strlen.                                         *)
Text(bytes) ==
  LET kept == {i \in DOMAIN bytes :
                 /\ bytes[i] \notin LineEnds \cup Returns
                 /\ \A k \in 1 .. i : bytes[k] \notin Nulls}
      order == CHOOSE f \in [1 .. Cardinality(kept) -> kept] :
                 \A i, j \in DOMAIN f : i < j => f[i] < f[j]
  IN  [i \in 1 .. Cardinality(kept) |-> bytes[order[i]]]

(* "ask" stands for STATUS, OUT, DISK and unknown commands; OPEN may fail,  *)
(* and then leaves the old connection.                                     *)
Executed(c, s) ==
  CASE c.do = "open"  -> {[stream |-> Opened(s.conn + 1, c.mark, c.notify),
                           answers |-> Reply(c)],
                          [stream |-> s, answers |-> Reply(c)]}
    [] c.do = "close" -> {[stream |-> Disconnected(s.conn),
                           answers |-> Reply(c)]}
    [] c.do = "hex"   -> LET t == TakeHex(s, c.max)
                         IN  {[stream |-> t.stream,
                               answers |-> ReadAnswer(t, t.bytes)]}
    [] c.do = "ascii" -> LET t == TakeLine(s)
                         IN  {[stream |-> t.stream,
                               answers |-> ReadAnswer(t, Text(t.bytes))]}
    [] OTHER          -> {[stream |-> s, answers |-> Reply(c)]}

-----------------------------------------------------------------------------
(* Core 1: the guest between two instructions, or the main loop.           *)
Idle ==
  /\ due = <<>> /\ sending = <<>> /\ loader["cpu"] = "idle"
  /\ boot \in {"up", "wanted"}

(* submit, when the guest has printed the end of a frame.                  *)
Submit(c) ==
  /\ Idle /\ sent < MaxCommands
  /\ sent' = sent + 1
  /\ commands' = IF Len(commands) < Depth - 1 THEN Append(commands, c)
                 ELSE commands
  /\ UNCHANGED <<enabled, stream, due, sending, ring, receiverVars, loader,
                 boot, typed, boots, lost, raced>>

(* emu_control::poll with nothing queued: TT1 reads ahead.                 *)
PollStream ==
  /\ Idle /\ commands = <<>>
  /\ LET h == HostPolled(stream)
     IN  stream' = h.stream /\ due' = Events(h.event)
  /\ UNCHANGED <<enabled, commands, sending, ring, receiverVars, loader, boot,
                 inputVars, lost, raced>>

PollCommand ==
  /\ Idle /\ commands # <<>>
  /\ LET c == Head(commands)
         h == HostPolled(stream)
     IN  /\ \E e \in Executed(c, h.stream) :
              /\ stream' = e.stream
              /\ due' = Events(h.event) \o e.answers
         /\ boot' = IF c.do = "reboot" THEN "wanted" ELSE boot
  /\ commands' = Tail(commands)
  /\ heard' = IF stream'.conn = stream.conn THEN heard ELSE <<>>
  /\ lost' = (lost /\ stream'.conn = stream.conn)
  /\ UNCHANGED <<enabled, sending, ring, tkb, done, keys, mid, loader,
                 inputVars, raced>>

(* queue_control_reply and queue_input_bytes: all of an answer or nothing. *)
QueueAnswer ==
  /\ sending = <<>> /\ due # <<>>
  /\ due' = Tail(due)
  /\ IF Len(Head(due)) <= Capacity - Len(ring)
     THEN sending' = Head(due) /\ UNCHANGED lost
     ELSE /\ lost' = (lost \/ \E i \in DOMAIN Head(due) :
                                /\ Head(due)[i].at # 0
                                /\ Head(due)[i].conn = stream.conn)
          /\ UNCHANGED sending
  /\ UNCHANGED <<enabled, commands, stream, ring, receiverVars, loader, boot,
                 inputVars, raced>>

(* Mutant: one byte more than the ring holds. *)
PushTwice ==
  /\ sending # <<>>
  /\ ring' = ring \o <<Head(sending), Head(sending)>>
  /\ sending' = Tail(sending)
  /\ UNCHANGED <<enabled, commands, stream, due, receiverVars, loader, boot,
                 inputVars, lost, raced>>

Push ==
  /\ sending # <<>>
  /\ ring' = Append(ring, Head(sending))
  /\ sending' = Tail(sending)
  /\ UNCHANGED <<enabled, commands, stream, due, receiverVars, loader, boot,
                 inputVars, lost, raced>>

(* The guest reads TKB; a driver tells keys from answers by their frame.   *)
ReadTKB ==
  /\ Idle /\ done
  /\ done' = FALSE
  /\ heard' = IF tkb.at # 0 /\ tkb.conn = stream.conn
              THEN Append(heard, tkb.at) ELSE heard
  /\ UNCHANGED <<enabled, commands, stream, due, sending, ring, tkb, keys, mid,
                 loader, boot, inputVars, lost, raced>>

(* The guest's RESET, or its "reader enable", clears DONE.                 *)
ClearDone ==
  /\ Idle /\ done
  /\ done' = FALSE
  /\ lost' = (lost \/ (tkb.at # 0 /\ tkb.conn = stream.conn))
  /\ UNCHANGED <<enabled, commands, stream, due, sending, ring, tkb, keys, mid,
                 heard, loader, boot, inputVars, raced>>

-----------------------------------------------------------------------------
(* notify_rx.                                                              *)
LoadAnswer ==
  /\ tkb' = Head(ring) /\ done' = TRUE
  /\ mid' = ~Head(ring).last
  /\ ring' = Tail(ring)
  /\ UNCHANGED keys

LoadKey ==
  /\ keys > 0
  /\ tkb' = Key /\ done' = TRUE
  /\ keys' = keys - 1
  /\ UNCHANGED <<ring, mid>>

(* The test comes first; the other task may have passed it already.        *)
(* Mutant: an unread byte is no reason not to load the next. *)
TestAlways(t) ==
  /\ t = "cpu" => Idle
  /\ loader[t] = "idle"
  /\ loader' = [loader EXCEPT ![t] = "pop"]
  /\ raced' = (raced \/ \E u \in Task \ {t} : loader[u] # "idle")
  /\ UNCHANGED <<enabled, commands, stream, due, sending, ring, receiverVars,
                 boot, inputVars, lost>>

Test(t) ==
  /\ t = "cpu" => Idle
  /\ loader[t] = "idle" /\ ~done
  /\ loader' = [loader EXCEPT ![t] = "pop"]
  /\ raced' = (raced \/ \E u \in Task \ {t} : loader[u] # "idle")
  /\ UNCHANGED <<enabled, commands, stream, due, sending, ring, receiverVars,
                 boot, inputVars, lost>>

(* pop_priority_input finds an answer or turns to the keys.                *)
Pop(t) ==
  /\ loader[t] = "pop"
  /\ loader' = [loader EXCEPT ![t] = IF ring # <<>> THEN "answer" ELSE "keys"]
  /\ UNCHANGED <<enabled, commands, stream, due, sending, ring, receiverVars,
                 boot, inputVars, lost, raced>>

Load(t) ==
  /\ \/ loader[t] = "answer" /\ LoadAnswer
     \/ loader[t] = "keys" /\ LoadKey
  /\ loader' = [loader EXCEPT ![t] = "idle"]
  /\ UNCHANGED <<enabled, commands, stream, due, sending, heard, boot,
                 inputVars, lost, raced>>

LoadNothing(t) ==
  /\ loader[t] = "keys" /\ keys = 0
  /\ loader' = [loader EXCEPT ![t] = "idle"]
  /\ UNCHANGED <<enabled, commands, stream, due, sending, ring, receiverVars,
                 boot, inputVars, lost, raced>>

Type ==
  /\ typed < MaxKeys
  /\ typed' = typed + 1 /\ keys' = keys + 1
  /\ UNCHANGED <<enabled, commands, stream, due, sending, ring, tkb, done, mid,
                 heard, loader, boot, sent, boots, lost, raced>>

-----------------------------------------------------------------------------
(***************************************************************************)
(* A reboot, asked for by a command or from the menu: the connection and   *)
(* the queued commands go, then the ring is cleared by its producer, then  *)
(* the machine is reset while the clock task stands still.                 *)
(***************************************************************************)
BeginBoot ==
  /\ Idle /\ boots < MaxBoots
  /\ boots' = boots + 1
  /\ boot' = "clear"
  /\ commands' = <<>>
  /\ stream' = Disconnected(stream.conn)
  /\ UNCHANGED <<enabled, due, sending, ring, receiverVars, loader, sent,
                 typed, lost, raced>>

(* clear() moves the tail; a pop between its load and its store of the     *)
(* tail would move it back.                                                *)
ClearAnswers ==
  /\ boot = "clear"
  /\ boot' = "reset"
  /\ ring' = <<>> /\ mid' = FALSE
  /\ lost' = TRUE
  /\ raced' = (raced \/ loader["clk"] = "answer")
  /\ UNCHANGED <<enabled, commands, stream, due, sending, tkb, done, keys,
                 heard, loader, inputVars>>

ResetMachine ==
  /\ boot = "reset" /\ loader["clk"] = "idle"
  /\ boot' = "up"
  /\ done' = FALSE
  /\ heard' = <<>>
  /\ UNCHANGED <<enabled, commands, stream, due, sending, ring, tkb, keys, mid,
                 loader, inputVars, lost, raced>>

-----------------------------------------------------------------------------
Init ==
  /\ enabled \in BOOLEAN
  /\ commands = <<>> /\ stream = Disconnected(0)
  /\ due = <<>> /\ sending = <<>> /\ ring = <<>>
  /\ tkb = Key /\ done = FALSE /\ keys = 0
  /\ loader = [t \in Task |-> "idle"] /\ boot = "up"
  /\ sent = 0 /\ typed = 0 /\ boots = 0
  /\ mid = FALSE /\ heard = <<>> /\ lost = FALSE /\ raced = FALSE

Next ==
  \/ \E c \in Commands : Submit(c)
  \/ PollStream \/ PollCommand
  \/ QueueAnswer \/ Push
  \/ ReadTKB \/ ClearDone
  \/ \E t \in Task : Test(t) \/ Pop(t) \/ Load(t) \/ LoadNothing(t)
  \/ Type
  \/ BeginBoot \/ ClearAnswers \/ ResetMachine

Spec == Init /\ [][Next]_vars

-----------------------------------------------------------------------------
(* The queue of commands, the ring read ahead into and the ring of answers *)
(* never hold more than they can, and an operation has at most an event of *)
(* the poll, one of the read and an answer to queue.                       *)
Stream == [open : BOOLEAN, pos : 0 .. Size, fifo : Seq(1 .. Size + 1),
           eof : BOOLEAN, mark : BOOLEAN, notify : BOOLEAN, conn : Nat]

TypeOK ==
  /\ enabled \in BOOLEAN
  /\ commands \in Seq(Command) /\ Len(commands) < Depth
  /\ stream \in Stream /\ Len(stream.fifo) <= Ahead
  /\ due \in Seq(Seq(Byte)) /\ Len(due) <= 3
  /\ {sending, ring} \subseteq Seq(Byte)
  /\ Len(ring) + Len(sending) <= Capacity
  /\ tkb \in Byte /\ done \in BOOLEAN /\ keys \in 0 .. typed
  /\ loader \in [Task -> {"idle", "pop", "answer", "keys"}]
  /\ boot \in {"up", "wanted", "clear", "reset"}
  /\ sent \in 0 .. MaxCommands /\ typed \in 0 .. MaxKeys
  /\ boots \in 0 .. MaxBoots
  /\ {mid, lost, raced} \subseteq BOOLEAN /\ heard \in Seq(1 .. Size + 2)

(* A framed reply, or an answer to a read, "delivered as a complete frame  *)
(* before interactive USB or Telnet input" (docs/user-manual.md): what was *)
(* typed is never loaded between two bytes of one, although core 1 may     *)
(* still be pushing the second when the clock task has taken the first,    *)
(* unless two tasks loaded at once.                                        *)
FramesWhole == [][keys' < keys => raced \/ ~mid]_vars

(* What the guest has read of the file, what is under way to it, and what  *)
(* is read ahead or still in the file, are the file's bytes in order; the  *)
(* byte of EOF= follows them, if TT1 reached the end before a read did,    *)
(* and "*>EOF<*" is said after all of it.  None is missing but what        *)
(* INASCII drops, the line feeds, the carriage returns and the rest of a   *)
(* line that has a NUL, unless the file was closed, an answer found the    *)
(* ring full or the guest cleared DONE over a byte: a read that ends in    *)
(* the ring of TT1 goes on in the file, and the end is noticed once by     *)
(* whoever gets there first.                                               *)
OfConnection(bytes) ==
  [i \in DOMAIN bytes |->
     IF bytes[i].conn = stream.conn THEN bytes[i].at ELSE 0]

Answer(i) == IF i \in DOMAIN due THEN due[i] ELSE <<>>

UnderWay ==
  (IF done THEN <<tkb>> ELSE <<>>) \o ring \o sending
    \o (Answer(1) \o Answer(2) \o Answer(3))

Story == heard \o OfConnection(UnderWay) \o Available(stream)

(* Zeros are not the file's. *)
Ascending(story) ==
  \A i, j \in DOMAIN story :
    i < j /\ 0 \notin {story[i], story[j]}
      => \/ story[i] < story[j]
         \/ story[i] = EofLine /\ story[j] = EofLine

BytesOf(story) == {story[i] : i \in DOMAIN story}

CutOff ==
  {p \in 1 .. Size :
     \E n \in Nulls : n <= p /\ \A i \in n .. p - 1 : i \notin LineEnds}
Dropped == LineEnds \cup Returns \cup CutOff

StreamInOrder ==
  raced \/ /\ Ascending(Story)
           /\ (stream.open \/ stream.eof) /\ ~lost
                => (1 .. Size) \ Dropped \subseteq BytesOf(Story)
=============================================================================
