---------------------------- MODULE GuestOutput ----------------------------
(***************************************************************************)
(* What becomes of a character the guest prints.  handle_guest_output      *)
(* looks for the frames by which a guest commands the emulator and passes  *)
(* everything else on to the screen, to USB, to Telnet and to the boot     *)
(* script, which waits for a prompt, types the answer half a second later  *)
(* and goes on to the next prompt.  All of it runs on core 1: a character  *)
(* is one step, and so is each poll of the main loop.                      *)
(***************************************************************************)
EXTENDS Naturals, Sequences

CONSTANTS
  Char,         (* the characters the guest prints                         *)
  Prefix,       (* CONTROL_PREFIX                                          *)
  AltFirst,     (* CONTROL_PREFIX_BASIC, accepted for Prefix[1]            *)
  End,          (* ETX and EOT, which end a frame                          *)
  Abort,        (* the controls that are not allowed in a frame            *)
  NulChar,      (* NUL                                                     *)
  CommandMax,   (* CONTROL_COMMAND_MAX                                     *)
  Steps,        (* boot_script: a sequence of prompts and answers          *)
  MaxOut        (* bound: characters the guest prints                      *)

ASSUME TextAssumption ==
  /\ Prefix \in Seq(Char) /\ Len(Prefix) >= 2
  /\ AltFirst \in Char /\ NulChar \in Abort
  /\ AltFirst # NulChar /\ \A i \in 1 .. Len(Prefix) : Prefix[i] # NulChar
  /\ End \subseteq Char /\ Abort \subseteq Char /\ End \cap Abort = {}
  /\ CommandMax \in Nat /\ MaxOut \in Nat
  /\ Len(Steps) \in Nat
  /\ \A i \in 1 .. Len(Steps) : Steps[i].expect \in Seq(Char)

VARIABLES
  parser,     (* control_state and what it has matched                     *)
  script,     (* the state of the boot script                              *)
  written,    (* history: what the guest has printed since the reset       *)
  shown,      (* history: what the sinks were given                        *)
  submitted,  (* history: the commands handed to emu_control               *)
  answers     (* history: the answers typed                                *)

textVars == <<parser, script, written, shown, submitted, answers>>

Starts == {Prefix[1], AltFirst}

(* emit_console_byte: a NUL does not reach the sinks. *)
Visible(c) == IF c = NulChar THEN <<>> ELSE <<c>>

-----------------------------------------------------------------------------
(***************************************************************************)
(* The boot script.  `heard`, a history, is what it was given since the    *)
(* last answer was typed.                                                  *)
(***************************************************************************)
Armed(s) == s.step <= Len(Steps)

(* schedule_reply. *)
Scheduled(s) ==
  [s EXCEPT !.pending = TRUE, !.step = @ + 1, !.match = 0]

(* What is matched of the prompt after one more character.                 *)
Matched(s, c) ==
  LET expect == Steps[s.step].expect
  IN  CASE c = expect[s.match + 1] -> s.match + 1
        [] c # expect[s.match + 1] /\ c = expect[1] -> 1
        [] OTHER -> 0

(* host_boot_script_observe: deaf while an answer is due. *)
Observe(s, c) ==
  IF ~Armed(s) \/ s.pending THEN s
  ELSE LET expect == Steps[s.step].expect
           t == [s EXCEPT !.heard = Append(@, c)]
       IN  CASE expect = <<>> -> Scheduled(t)
             [] expect # <<>> /\ Matched(s, c) = Len(expect) -> Scheduled(t)
             [] OTHER -> [t EXCEPT !.match = Matched(s, c)]

(* The script after it has been given the characters of text.              *)
Observed(s, text) ==
  LET After[n \in 0 .. Len(text)] ==
        IF n = 0 THEN s ELSE Observe(After[n - 1], text[n])
  IN  After[Len(text)]

(* host_boot_script_poll, once the delay has passed. *)
Answer ==
  /\ script.pending
  /\ answers' = Append(answers, Steps[script.step - 1].reply)
  /\ script' = [script EXCEPT !.pending = FALSE, !.heard = <<>>]
  /\ UNCHANGED <<parser, written, shown, submitted>>

-----------------------------------------------------------------------------
(***************************************************************************)
(* handle_guest_output.                                                    *)
(***************************************************************************)
Idle == [state |-> "idle", pos |-> 0, first |-> NulChar, text |-> <<>>]

(* emit_console_byte, for each character of text. *)
Emit(text) ==
  /\ shown' = shown \o text
  /\ script' = Observed(script, text)
Swallow == UNCHANGED <<shown, script, submitted>>

(* The character may begin a frame.                                        *)
BeginPrefix(c) ==
  /\ parser.state = "idle" /\ c \in Starts
  /\ parser' = [Idle EXCEPT !.state = "prefix", !.pos = 1, !.first = c]
  /\ Swallow

Plain(c) ==
  /\ parser.state = "idle" /\ c \notin Starts
  /\ Emit(Visible(c))
  /\ UNCHANGED <<parser, submitted>>

MatchPrefix(c) ==
  /\ parser.state = "prefix" /\ c = Prefix[parser.pos + 1]
  /\ parser' = IF parser.pos + 1 < Len(Prefix)
                 THEN [parser EXCEPT !.pos = @ + 1]
                 ELSE [Idle EXCEPT !.state = "text"]
  /\ Swallow

(* Mutant: only the first character of a failed match is given back. *)
FailPrefixLoses(c) ==
  /\ parser.state = "prefix" /\ c # Prefix[parser.pos + 1]
  /\ Emit(<<parser.first>> \o Visible(c))
  /\ parser' = Idle
  /\ UNCHANGED submitted

(* A failed match gives back what it kept, and the character with it.      *)
FailPrefix(c) ==
  /\ parser.state = "prefix" /\ c # Prefix[parser.pos + 1]
  /\ Emit(<<parser.first>> \o SubSeq(Prefix, 2, parser.pos) \o Visible(c))
  /\ parser' = Idle
  /\ UNCHANGED submitted

(* What emu_control::submit does with the command is ControlChannel's. *)
EndFrame(c) ==
  /\ parser.state = "text" /\ c \in End
  /\ submitted' = Append(submitted, parser.text)
  /\ parser' = Idle
  /\ UNCHANGED <<shown, script>>

AbortFrame(c) ==
  /\ parser.state = "text" /\ c \in Abort
  /\ Emit(Visible(c))
  /\ parser' = Idle
  /\ UNCHANGED submitted

(* A command that is too long is cut, and still executed.                  *)
KeepText(c) ==
  /\ parser.state = "text" /\ c \notin End \union Abort
  /\ parser' = IF Len(parser.text) < CommandMax
                 THEN [parser EXCEPT !.text = Append(@, c)] ELSE parser
  /\ Swallow

PrintOne(c) ==
  /\ Len(written) < MaxOut
  /\ written' = Append(written, c)
  /\ answers' = answers
  /\ \/ BeginPrefix(c) \/ Plain(c) \/ MatchPrefix(c) \/ FailPrefix(c)
     \/ EndFrame(c) \/ AbortFrame(c) \/ KeepText(c)

-----------------------------------------------------------------------------
(* boot_script_arm. *)
ArmedScript == [step |-> 1, match |-> 0, pending |-> FALSE, heard |-> <<>>]

(* Mutant: an answer that is due when the script is disarmed stays due. *)
DisarmKeepsAnswer ==
  script' = [ArmedScript EXCEPT !.pending = script.pending]

(* host_boot_script_disarm, followed by boot_script_arm. *)
Disarm == script' = ArmedScript

(* start_cpu: the histories begin anew with the boot. *)
Reset ==
  /\ Disarm
  /\ parser' = Idle
  /\ written' = <<>> /\ shown' = <<>> /\ submitted' = <<>> /\ answers' = <<>>

GuestInit ==
  /\ parser = Idle /\ script = ArmedScript
  /\ written = <<>> /\ shown = <<>> /\ submitted = <<>> /\ answers = <<>>

GuestNext == Answer \/ Reset \/ \E c \in Char : PrintOne(c)

GuestSpec == GuestInit /\ [][GuestNext]_textVars

-----------------------------------------------------------------------------
(***************************************************************************)
(* The same by looking at the whole text: from i on, the text w is a       *)
(* frame, the beginning of one, or a character to show.                    *)
(***************************************************************************)
PrefixFrom(w, i, n) ==
  \A k \in 1 .. n : IF k = 1 THEN w[i] \in Starts ELSE w[i + k - 1] = Prefix[k]
OpensAt(w, i) ==
  i + Len(Prefix) - 1 <= Len(w) /\ PrefixFrom(w, i, Len(Prefix))
HeldFrom(w, i) ==
  Len(w) - i + 1 < Len(Prefix) /\ PrefixFrom(w, i, Len(w) - i + 1)

Text(w, from, to) ==
  SubSeq(w, from, IF to - from < CommandMax THEN to - 1
                  ELSE from + CommandMax - 1)

(* Where a frame that opens at i may be closed. *)
Stops(w, i) == {k \in i + Len(Prefix) .. Len(w) : w[k] \in End \union Abort}
Stop(w, i) == CHOOSE k \in Stops(w, i) : \A j \in Stops(w, i) : k <= j

Nothing == [shown |-> <<>>, commands |-> <<>>]
Show(text, rest) == [rest EXCEPT !.shown = text \o @]
Command(text, rest) == [rest EXCEPT !.commands = <<text>> \o @]

(* What w says from i on, given what it says from later places on. *)
ReadAt(w, i, from) ==
  CASE i > Len(w) -> Nothing
    [] i <= Len(w) /\ OpensAt(w, i) ->
         IF Stops(w, i) = {} THEN Nothing
         ELSE IF w[Stop(w, i)] \in End
           THEN Command(Text(w, i + Len(Prefix), Stop(w, i)),
                        from[Stop(w, i) + 1])
           ELSE Show(Visible(w[Stop(w, i)]), from[Stop(w, i) + 1])
    [] i <= Len(w) /\ ~OpensAt(w, i) /\ HeldFrom(w, i) -> Nothing
    [] OTHER -> Show(Visible(w[i]), from[i + 1])

Readings(w) ==
  LET From[i \in 1 .. Len(w) + 1] == ReadAt(w, i, From)
  IN  From
Reading(w) == Readings(w)[1]

(* A character that might begin a frame breaks the match of another one;   *)
(* the code gives both back, and misses a frame that the second begins.    *)
Overlap(w) ==
  \E i \in 1 .. Len(w), n \in 1 .. Len(Prefix) - 1 :
    i + n <= Len(w) /\ PrefixFrom(w, i, n) /\ w[i + n] \in Starts

(* Frames are taken out of the guest's text and nothing else is: what the  *)
(* sinks get is what was printed outside frames, in its order, but for NUL *)
(* and for the beginning of a frame that is still being matched, and each  *)
(* complete frame is submitted once (handle_guest_output).                 *)
Transparent ==
  ~Overlap(written) =>
    Reading(written) = [shown |-> shown, commands |-> submitted]

(* The first k characters of the prompt are the last ones of s up to i.    *)
Shows(prompt, k, s, i) ==
  k <= i /\ \A j \in 1 .. k : s[i - k + j] = prompt[j]
Ends(prompt, s) == Shows(prompt, Len(prompt), s, Len(s))
Within(prompt, s) ==
  \E i \in 1 .. Len(s) : Shows(prompt, Len(prompt), s, i)

(* An answer is due just when its prompt was shown after the answer before *)
(* it, and the answers typed since the boot are those of the script, in    *)
(* their order, each once (host_boot_script_observe, _poll and _disarm).   *)
AnswersPrompts ==
  LET asked == script.step - 1
      typed == IF script.pending THEN asked - 1 ELSE asked
  IN  /\ script.pending =>
           asked > 0 /\ Ends(Steps[asked].expect, script.heard)
      /\ Armed(script) /\ ~script.pending =>
           ~Within(Steps[script.step].expect, script.heard)
      /\ answers = [i \in 1 .. typed |-> Steps[i].reply]
=============================================================================
