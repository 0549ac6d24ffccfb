------------------------------ MODULE DiskCache ------------------------------
(***************************************************************************)
(* disk.cpp: drive slots on images of the SD card, with the shared cache   *)
(* of aligned blocks.  A "unit" stands for the bytes no transfer and no    *)
(* block boundary divides.                                                 *)
(*                                                                         *)
(* Core 1 ("guest") reads, writes, mounts and dismounts, the FTP server    *)
(* ("ftp", core 0) replaces files.  Whatever touches the card holds the    *)
(* mutex SD_FTP_StorageGuard; only a read of the guest, which fills and    *)
(* copies block by block, and an FTP transfer take more than one step.     *)
(***************************************************************************)
EXTENDS Integers

CONSTANTS
  Slot, Image, NoImage,
  Data, Zero,
  Units,       (* the largest image has so many units                      *)
  BlockUnits,  (* DISK_CACHE_BLOCK_BYTES                                   *)
  Blocks,      (* DISK_CACHE_BLOCK_COUNT                                   *)
  MaxCount,    (* most units of one transfer                               *)
  ValidSize,   (* sizes validate_slot_image_size accepts                   *)
  FileSize,    (* sizes a file can have; 0 also stands for a missing file  *)
  SharedImages (* whether one image may be mounted in two slots            *)

ASSUME DiskAssumption ==
  /\ NoImage \notin Image /\ NoImage \notin Slot
  /\ Zero \in Data
  /\ Units \in Nat \ {0} /\ BlockUnits \in Nat \ {0}
  /\ Blocks \in Nat \ {0} /\ MaxCount \in Nat \ {0}
  /\ FileSize \subseteq 0 .. Units /\ ValidSize \subseteq FileSize
  /\ SharedImages \in BOOLEAN

VARIABLES
  content,  (* content[i][u]: unit u of the file i                         *)
  len,      (* len[i]: its size                                            *)
  drive,    (* g_drv[s]: image, readonly and size                          *)
  cache,    (* g_cache[b]                                                  *)
  older,    (* <<b, c>>: age of block b is less than that of c             *)
  memory,   (* disk_cache_ensure_locked found memory                       *)
  lock,     (* who holds the storage mutex                                 *)
  request,  (* arguments of the disk_read in progress                      *)
  out,      (* its buffer, as far as it is filled                          *)
  done,     (* its done: the units in the buffer                           *)
  fault,    (* it returns -1                                               *)
  upload    (* the file of the FTP transfer in progress                    *)

cacheVars == <<cache, older, memory>>
readVars == <<request, out, done, fault>>
fileVars == <<content, len>>
vars == <<fileVars, drive, cacheVars, lock, readVars, upload>>

Unit == 0 .. Units - 1
Block == 1 .. Blocks
NoDrive == [image |-> NoImage, readonly |-> FALSE, size |-> 0]
NoRequest == [slot |-> NoImage, offset |-> 0, count |-> 0]
Empty == [k \in {} |-> Zero]
NoBlock == [valid |-> FALSE, slot |-> NoImage, offset |-> 0, length |-> 0,
            data |-> Empty]

Mounted(s) == drive[s].image # NoImage
Protected(i) == \E s \in Slot : drive[s].image = i
Least(a, b) == IF a < b THEN a ELSE b
Align(u) == u - (u % BlockUnits)
Zeros(n) == [k \in 0 .. n - 1 |-> Zero]
Part(f, from, n) == [k \in 0 .. n - 1 |-> f[from + k]]

(* A block that is not valid is never looked at again. *)
Invalidate(B) == cache' = [b \in Block |-> IF b \in B THEN NoBlock ELSE cache[b]]
OfSlot(s) == {b \in Block : cache[b].valid /\ cache[b].slot = s}

(* b becomes the youngest block. *)
Touch(b) ==
  older' = {p \in older : p[1] # b /\ p[2] # b} \union ((Block \ {b}) \X {b})

(* The first invalid block, or else the oldest one. *)
IsVictim(v) ==
  IF \A b \in Block : cache[b].valid
  THEN \A b \in Block : <<b, v>> \notin older
  ELSE ~cache[v].valid /\ \A b \in 1 .. v - 1 : cache[b].valid

-----------------------------------------------------------------------------
(***************************************************************************)
(* disk_read.                                                              *)
(***************************************************************************)
Read(s, offset, count) ==
  /\ lock = "free"
  /\ lock' = "guest"
  /\ request' = [slot |-> s, offset |-> offset, count |-> count]
  /\ done' = 0 /\ out' = Empty /\ fault' = FALSE
  /\ UNCHANGED <<fileVars, drive, cacheVars, upload>>

Reading == request # NoRequest /\ ~fault /\ done < request.count
Size == drive[request.slot].size
Current == request.offset + done

(* n units more. *)
Give(n, unit) ==
  /\ done' = done + n
  /\ out' = [k \in 0 .. done + n - 1 |-> IF k < done THEN out[k] ELSE unit[k - done]]
  /\ UNCHANGED <<fileVars, drive, memory, lock, request, fault, upload>>

(* An empty slot, a seek that fails or a short read.  The victim has been  *)
(* invalidated before the card was read.                                   *)
Fail ==
  /\ fault' = TRUE
  /\ UNCHANGED <<fileVars, drive, memory, lock, request, out, done, upload>>

ReadUnmounted ==
  /\ Reading /\ ~Mounted(request.slot)
  /\ Fail
  /\ UNCHANGED <<cache, older>>

(* Past the end of the image there are zeros. *)
ReadPastEnd ==
  /\ Reading /\ Mounted(request.slot) /\ Current >= Size
  /\ Give(request.count - done, Zeros(request.count - done))
  /\ UNCHANGED <<cache, older>>

(* Without memory for the cache the card is read directly. *)
ReadDirect ==
  /\ Reading /\ Mounted(request.slot) /\ Current < Size /\ ~memory
  /\ \/ Fail
     \/ LET n == Least(request.count, Size - request.offset)
            unit == Part(content[drive[request.slot].image], request.offset, n)
        IN  Give(request.count, [k \in 0 .. request.count - 1 |->
                                   IF k < n THEN unit[k] ELSE Zero])
  /\ UNCHANGED <<cache, older>>

IsHit(b) ==
  /\ cache[b].valid /\ cache[b].slot = request.slot
  /\ cache[b].offset = Align(Current)

InCache == Reading /\ Mounted(request.slot) /\ Current < Size /\ memory

(* Mutant: the cache is filled although the block is there. *)
ReadFillAnyway(v) ==
  /\ InCache /\ \A b \in Block : IsHit(b) => <<b, v>> \notin older
  /\ IsVictim(v)
  /\ LET offset == Align(Current)
         n == Least(BlockUnits, Size - offset)
         image == drive[request.slot].image
     IN  cache' = [cache EXCEPT ![v] =
                     [valid |-> TRUE, slot |-> request.slot, offset |-> offset,
                      length |-> n, data |-> Part(content[image], offset, n)]]
  /\ Touch(v)
  /\ UNCHANGED <<fileVars, drive, memory, lock, readVars, upload>>

ReadFill(v) ==
  /\ InCache /\ \A b \in Block : ~IsHit(b)
  /\ IsVictim(v)
  /\ LET offset == Align(Current)
         n == Least(BlockUnits, Size - offset)
         image == drive[request.slot].image
     IN  cache' = [cache EXCEPT ![v] =
                     [valid |-> TRUE, slot |-> request.slot, offset |-> offset,
                      length |-> n, data |-> Part(content[image], offset, n)]]
  /\ Touch(v)
  /\ UNCHANGED <<fileVars, drive, memory, lock, readVars, upload>>

ReadFillFails(v) ==
  /\ InCache /\ \A b \in Block : ~IsHit(b)
  /\ IsVictim(v)
  /\ cache' = [cache EXCEPT ![v] = NoBlock]
  /\ Fail
  /\ UNCHANGED older

(* Mutant: the copy ends with the block, not with the caller's buffer. *)
ReadCopyOverruns(b) ==
  /\ InCache /\ IsHit(b)
  /\ LET inBlock == Current - cache[b].offset
     IN  Give(cache[b].length - inBlock,
              Part(cache[b].data, inBlock, cache[b].length - inBlock))
  /\ Touch(b)
  /\ UNCHANGED cache

(* Mutant: the copy starts with the block, not with the range. *)
ReadCopyFromStart(b) ==
  /\ InCache /\ IsHit(b)
  /\ LET n == Least(request.count - done, cache[b].length - (Current - cache[b].offset))
     IN  Give(n, Part(cache[b].data, 0, n))
  /\ Touch(b)
  /\ UNCHANGED cache

ReadCopy(b) ==
  /\ InCache /\ IsHit(b)
  /\ LET inBlock == Current - cache[b].offset
         n == Least(request.count - done, cache[b].length - inBlock)
     IN  IF inBlock >= cache[b].length
         THEN Give(request.count - done, Zeros(request.count - done))
         ELSE Give(n, Part(cache[b].data, inBlock, n))
  /\ Touch(b)
  /\ UNCHANGED cache

ReadReturn ==
  /\ request # NoRequest /\ ~Reading
  /\ request' = NoRequest /\ out' = Empty /\ done' = 0 /\ fault' = FALSE
  /\ lock' = "free"
  /\ UNCHANGED <<fileVars, drive, cacheVars, upload>>

-----------------------------------------------------------------------------
(***************************************************************************)
(* disk_write: the blocks the range meets are invalidated, then the card   *)
(* takes n of the units: all, some (a short write) or none (seek failed).  *)
(***************************************************************************)
Store(i, offset, n, units) ==
  content' = [content EXCEPT ![i] =
                [u \in Unit |-> IF u \in offset .. offset + n - 1
                                THEN units[u - offset] ELSE content[i][u]]]

(* Mutant: only the block in which the range begins is invalidated. *)
WriteFirstBlock(s, offset, count, units, n) ==
  /\ lock = "free"
  /\ Mounted(s) /\ ~drive[s].readonly
  /\ offset <= drive[s].size /\ count <= drive[s].size - offset
  /\ Invalidate({b \in OfSlot(s) : cache[b].offset = Align(offset)})
  /\ Store(drive[s].image, offset, n, units)
  /\ UNCHANGED <<len, drive, older, memory, lock, readVars, upload>>

Write(s, offset, count, units, n) ==
  /\ lock = "free"
  /\ Mounted(s) /\ ~drive[s].readonly
  /\ offset <= drive[s].size /\ count <= drive[s].size - offset
  /\ Invalidate({b \in OfSlot(s) : /\ offset < cache[b].offset + cache[b].length
                                  /\ cache[b].offset < offset + count})
  /\ Store(drive[s].image, offset, n, units)
  /\ UNCHANGED <<len, drive, older, memory, lock, readVars, upload>>

-----------------------------------------------------------------------------
(***************************************************************************)
(* disk_mount_mode with a valid file, opened for writing or not, and       *)
(* disk_dismount.  A mount that fails changes nothing.                     *)
(***************************************************************************)
Mount(s, i, ro) ==
  /\ lock = "free"
  /\ len[i] \in ValidSize
  /\ SharedImages \/ \A t \in Slot \ {s} : drive[t].image # i
  /\ Invalidate(OfSlot(s))
  /\ drive' = [drive EXCEPT ![s] = [image |-> i, readonly |-> ro, size |-> len[i]]]
  /\ UNCHANGED <<fileVars, older, memory, lock, readVars, upload>>

Dismount(s) ==
  /\ lock = "free"
  /\ Invalidate(OfSlot(s))
  /\ drive' = [drive EXCEPT ![s] = NoDrive]
  /\ UNCHANGED <<fileVars, older, memory, lock, readVars, upload>>

(* disk_cache_invalidate_all, by a cold boot. *)
ColdBoot ==
  /\ lock = "free"
  /\ cache' = [b \in Block |-> NoBlock] /\ older' = {}
  /\ UNCHANGED <<fileVars, drive, memory, lock, readVars, upload>>

-----------------------------------------------------------------------------
(***************************************************************************)
(* FTP: the file must not be mounted when the command comes, and, since    *)
(* the data connection takes its time, when the mutex has been taken.      *)
(***************************************************************************)
FtpCommand(i) ==
  /\ upload = NoImage /\ ~Protected(i)
  /\ upload' = i
  /\ UNCHANGED <<fileVars, drive, cacheVars, lock, readVars>>

(* Mutant: the file is not tested again under the mutex. *)
FtpTakeUntested ==
  /\ upload # NoImage /\ lock = "free"
  /\ lock' = "ftp"
  /\ UNCHANGED <<fileVars, drive, cacheVars, readVars, upload>>

FtpTake ==
  /\ upload # NoImage /\ lock = "free"
  /\ IF Protected(upload)
     THEN upload' = NoImage /\ UNCHANGED lock
     ELSE lock' = "ftp" /\ UNCHANGED upload
  /\ UNCHANGED <<fileVars, drive, cacheVars, readVars>>

(* Whatever arrived is in the file, a part of it, or the file is gone.     *)
FtpStore ==
  /\ lock = "ftp"
  /\ \E n \in FileSize, c \in [Unit -> Data] :
       /\ \A u \in Unit : u >= n => c[u] = Zero
       /\ content' = [content EXCEPT ![upload] = c]
       /\ len' = [len EXCEPT ![upload] = n]
  /\ lock' = "free" /\ upload' = NoImage
  /\ UNCHANGED <<drive, cacheVars, readVars>>

-----------------------------------------------------------------------------
Init ==
  /\ content = [i \in Image |-> [u \in Unit |-> Zero]]
  /\ len \in [Image -> ValidSize]
  /\ drive = [s \in Slot |-> NoDrive]
  /\ cache = [b \in Block |-> NoBlock] /\ older = {}
  /\ memory \in BOOLEAN
  /\ lock = "free"
  /\ request = NoRequest /\ out = Empty /\ done = 0 /\ fault = FALSE
  /\ upload = NoImage

ReadStep ==
  \/ ReadUnmounted \/ ReadPastEnd \/ ReadDirect \/ ReadReturn
  \/ \E b \in Block : ReadFill(b) \/ ReadFillFails(b) \/ ReadCopy(b)

Medium ==
  \/ \E s \in Slot, i \in Image, ro \in BOOLEAN : Mount(s, i, ro)
  \/ \E s \in Slot : Dismount(s)

Count == 1 .. MaxCount

Next ==
  \/ \E s \in Slot, offset \in 0 .. Units, count \in Count : Read(s, offset, count)
  \/ ReadStep
  \/ \E s \in Slot, offset \in Unit, count \in Count :
       \E units \in [0 .. count - 1 -> Data], n \in 0 .. count :
         Write(s, offset, count, units, n)
  \/ Medium \/ ColdBoot
  \/ \E i \in Image : FtpCommand(i)
  \/ FtpTake \/ FtpStore

SafeSpec == Init /\ [][Next]_vars

-----------------------------------------------------------------------------
(***************************************************************************)
(* Properties.                                                             *)
(***************************************************************************)
CacheBlock ==
  [valid : BOOLEAN, slot : Slot \union {NoImage}, offset : Nat, length : Nat,
   data : UNION {[0 .. n - 1 -> Data] : n \in 0 .. BlockUnits}]

DriveType ==
  [image : Image \union {NoImage}, readonly : BOOLEAN, size : 0 .. Units]

RequestType == [slot : Slot, offset : Nat, count : Count]

TypeOK ==
  /\ content \in [Image -> [Unit -> Data]] /\ len \in [Image -> 0 .. Units]
  /\ drive \in [Slot -> DriveType]
  /\ cache \in [Block -> CacheBlock]
  /\ older \subseteq Block \X Block /\ memory \in BOOLEAN
  /\ lock \in {"free", "guest", "ftp"}
  /\ request \in RequestType \union {NoRequest}
  /\ done \in 0 .. request.count /\ out \in [0 .. done - 1 -> Data]
  /\ fault \in BOOLEAN
  /\ upload \in Image \union {NoImage}

(***************************************************************************)
(* A valid block holds what the image mounted in its slot holds, and all   *)
(* of it up to the end of the block or of the image.                       *)
(***************************************************************************)
Coherent(c) ==
  /\ c.slot \in Slot /\ Mounted(c.slot)
  /\ c.offset < drive[c.slot].size
  /\ c.length = Least(BlockUnits, drive[c.slot].size - c.offset)
  /\ \A k \in 0 .. c.length - 1 :
       c.data[k] = content[drive[c.slot].image][c.offset + k]

CacheCoherent == \A b \in Block : cache[b].valid => Coherent(cache[b])

(***************************************************************************)
(* Two blocks of one slot never overlap.                                   *)
(***************************************************************************)
NoOverlap ==
  \A b, c \in Block :
    b # c /\ cache[b].valid /\ cache[c].valid /\ cache[b].slot = cache[c].slot
      => cache[b].offset # cache[c].offset

(***************************************************************************)
(* A mounted image keeps the size that was validated.                      *)
(***************************************************************************)
SizeCurrent == \A s \in Slot : Mounted(s) => drive[s].size = len[drive[s].image]

(***************************************************************************)
(* The cache is invisible: this is a store without one.                    *)
(***************************************************************************)
answer ==
  CASE fault -> [status |-> "failed", data |-> Empty]
    [] ~fault /\ request # NoRequest /\ done = request.count
         -> [status |-> "data", data |-> out]
    [] OTHER -> [status |-> "none", data |-> Empty]

Drives == INSTANCE DriveStore
ImplementsStore == Drives!Spec
=============================================================================
