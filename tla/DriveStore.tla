----------------------------- MODULE DriveStore -----------------------------
(***************************************************************************)
(* What disk.cpp promises: drive slots without a cache.  A read of a drive *)
(* fails, or returns what the mounted image holds at that moment and zeros *)
(* past its end.  The rest of the system (FTP, the shells) touches images  *)
(* that are not mounted only.                                              *)
(***************************************************************************)
EXTENDS Integers

CONSTANTS Slot, Image, NoImage, Data, Zero, Units, MaxCount

Unit == 0 .. Units - 1
NoDrive == [image |-> NoImage, readonly |-> FALSE, size |-> 0]
NoRequest == [slot |-> NoImage, offset |-> 0, count |-> 0]
NoAnswer == [status |-> "none", data |-> [k \in {} |-> Zero]]
Failed == [status |-> "failed", data |-> [k \in {} |-> Zero]]

VARIABLES
  content,  (* content[i][u]: unit u of image i                            *)
  drive,    (* drive[s]: the image mounted in slot s, its size and mode    *)
  request,  (* the guest's read                                            *)
  answer    (* what it is told                                             *)

vars == <<content, drive, request, answer>>

Mounted(s) == drive[s].image # NoImage
InUse(i) == \E s \in Slot : drive[s].image = i

(* What a read at offset of slot s is to see in place k of its buffer.     *)
Wanted(s, offset, k) ==
  IF offset + k < drive[s].size THEN content[drive[s].image][offset + k] ELSE Zero

Ask(s, offset, count) ==
  /\ request = NoRequest
  /\ request' = [slot |-> s, offset |-> offset, count |-> count]
  /\ UNCHANGED <<content, drive, answer>>

Answer ==
  /\ request # NoRequest /\ answer = NoAnswer
  /\ \/ answer' = Failed
     \/ /\ Mounted(request.slot)
        /\ answer' = [status |-> "data",
                      data |-> [k \in 0 .. request.count - 1 |->
                                  Wanted(request.slot, request.offset, k)]]
  /\ UNCHANGED <<content, drive, request>>

Return ==
  /\ answer # NoAnswer
  /\ answer' = NoAnswer /\ request' = NoRequest
  /\ UNCHANGED <<content, drive>>

OnlyFile(i) ==
  /\ content' \in [Image -> [Unit -> Data]]
  /\ \A j \in Image \ {i} : content'[j] = content[j]

(* A write changes one image, which is mounted for writing.                *)
Write(s) ==
  /\ request = NoRequest
  /\ Mounted(s) /\ ~drive[s].readonly
  /\ OnlyFile(drive[s].image)
  /\ \A u \in Unit : u >= drive[s].size =>
       content'[drive[s].image][u] = content[drive[s].image][u]
  /\ UNCHANGED <<drive, request, answer>>

(* A medium is put into a slot, or taken from it.                          *)
Change(s) ==
  /\ request = NoRequest
  /\ \E i \in Image \union {NoImage}, ro \in BOOLEAN, n \in 0 .. Units :
       drive' = [drive EXCEPT ![s] = [image |-> i, readonly |-> ro, size |-> n]]
  /\ UNCHANGED <<content, request, answer>>

(* A file that is not mounted is replaced. *)
Replace(i) ==
  /\ ~InUse(i)
  /\ OnlyFile(i)
  /\ UNCHANGED <<drive, request, answer>>

Init ==
  /\ content \in [Image -> [Unit -> Data]]
  /\ drive = [s \in Slot |-> NoDrive]
  /\ request = NoRequest /\ answer = NoAnswer

Next ==
  \/ \E s \in Slot, offset \in 0 .. Units, count \in 1 .. MaxCount : Ask(s, offset, count)
  \/ Answer \/ Return
  \/ \E s \in Slot : Write(s) \/ Change(s)
  \/ \E i \in Image : Replace(i)

Spec == Init /\ [][Next]_vars
=============================================================================
