--------------------------- MODULE DiskCacheProofs ---------------------------
(***************************************************************************)
(* Proofs about DiskCache, for every number and size of slots, images,     *)
(* blocks and transfers, as long as no image is mounted twice.             *)
(***************************************************************************)
EXTENDS DiskCache, TLAPS

(* A block boundary is at most a block before the unit it is for. *)
LEMMA AlignRange ==
  ASSUME NEW u \in Nat
  PROVE  Align(u) \in Nat /\ Align(u) <= u /\ u - Align(u) < BlockUnits
BY DiskAssumption DEF Align

LEMMA LeastRange ==
  ASSUME NEW a \in Nat, NEW b \in Nat
  PROVE  /\ Least(a, b) \in Nat /\ Least(a, b) <= a /\ Least(a, b) <= b
         /\ Least(a, b) = a \/ Least(a, b) = b
BY DEF Least

LEMMA NoBlockType == NoBlock \in CacheBlock /\ ~NoBlock.valid
<1>1. Empty \in [0 .. 0 - 1 -> Data]
  BY DEF Empty
<1>2. Empty \in UNION {[0 .. n - 1 -> Data] : n \in 0 .. BlockUnits}
  BY <1>1, DiskAssumption
<1> QED
  BY <1>2 DEF NoBlock, CacheBlock

(* A request is not the absence of one. *)
LEMMA RequestFacts ==
  ASSUME TypeOK, request # NoRequest
  PROVE  /\ request.slot \in Slot /\ request.offset \in Nat
         /\ request.count \in Nat \ {0} /\ request \in RequestType
         /\ done \in Nat /\ done <= request.count
BY DiskAssumption DEF TypeOK, RequestType, Count

(* Invalidation keeps the other blocks as they are. *)
LEMMA InvalidateKeeps ==
  ASSUME TypeOK, NEW B, Invalidate(B)
  PROVE  /\ cache' \in [Block -> CacheBlock]
         /\ \A b \in Block : cache'[b].valid
              => cache'[b] = cache[b] /\ cache[b].valid /\ b \notin B
BY NoBlockType DEF TypeOK, Invalidate

-----------------------------------------------------------------------------
(***************************************************************************)
(* The inductive invariant.  The cache is coherent because nobody changes  *)
(* a mounted file but its own slot: the mutex is held by the reader or by  *)
(* an FTP transfer of a file that is not mounted (Locked), and no other    *)
(* slot has the image (Exclusive).  The buffer is right as far as it is    *)
(* filled (OutRight).                                                      *)
(***************************************************************************)
Locked ==
  /\ lock = "guest" <=> request # NoRequest
  /\ request = NoRequest => done = 0 /\ ~fault
  /\ lock = "ftp" => upload # NoImage /\ ~Protected(upload)

Exclusive ==
  \A s, t \in Slot : s # t /\ Mounted(s) => drive[s].image # drive[t].image

OutRight ==
  request # NoRequest =>
    /\ done > 0 => Mounted(request.slot)
    /\ \A k \in 0 .. done - 1 : out[k] = Drives!Wanted(request.slot, request.offset, k)
    /\ ~memory => done = 0 \/ done = request.count

Inv ==
  /\ TypeOK /\ Locked /\ Exclusive /\ SizeCurrent
  /\ CacheCoherent /\ NoOverlap /\ OutRight

LEMMA InvInit == Init => Inv
<1> SUFFICES ASSUME Init PROVE Inv
  OBVIOUS
<1>1. TypeOK
  <2>1. out \in [0 .. done - 1 -> Data]
    BY DEF Init, Empty
  <2>2. NoDrive \in DriveType
    BY DiskAssumption DEF NoDrive, DriveType
  <2>3. content \in [Image -> [Unit -> Data]] /\ len \in [Image -> 0 .. Units]
    BY DiskAssumption DEF Init
  <2>4. done \in 0 .. request.count
    BY DEF Init, NoRequest
  <2>5. drive \in [Slot -> DriveType] /\ cache \in [Block -> CacheBlock]
    BY <2>2, NoBlockType DEF Init
  <2> QED
    BY <2>1, <2>3, <2>4, <2>5 DEF Init, TypeOK
<1>2. \A s \in Slot : ~Mounted(s)
  BY DEF Init, Mounted, NoDrive
<1>3. \A b \in Block : ~cache[b].valid
  BY NoBlockType DEF Init
<1> QED
  BY <1>1, <1>2, <1>3
     DEF Inv, Init, Locked, Exclusive, SizeCurrent, CacheCoherent, NoOverlap, OutRight

(* Steps that leave files, slots and cache alone. *)
LEMMA CoherenceKept ==
  ASSUME Inv, UNCHANGED <<content, len, drive, cache>>
  PROVE  Exclusive' /\ SizeCurrent' /\ CacheCoherent' /\ NoOverlap'
BY DEF Inv, Exclusive, SizeCurrent, CacheCoherent, NoOverlap, Coherent, Mounted

(* Steps between reads. *)
LEMMA IdleRead ==
  ASSUME Inv, lock # "guest", UNCHANGED <<memory, readVars>>
  PROVE  OutRight'
BY DEF Inv, Locked, OutRight, readVars

-----------------------------------------------------------------------------
(***************************************************************************)
(* The steps of disk_read.                                                 *)
(***************************************************************************)
LEMMA ReadInv ==
  ASSUME Inv, NEW s \in Slot, NEW offset \in 0 .. Units, NEW count \in Count,
         Read(s, offset, count)
  PROVE  Inv'
<1> USE DEF Inv
<1>1. request' \in RequestType /\ request' # NoRequest
  BY DiskAssumption DEF Read, RequestType, Count, NoRequest
<1>2. TypeOK'
  <2>1. out' \in [0 .. done' - 1 -> Data] /\ done' \in 0 .. request'.count
    BY <1>1, DiskAssumption DEF Read, Empty, RequestType, Count
  <2> QED
    BY <1>1, <2>1 DEF Read, TypeOK, fileVars, cacheVars
<1>3. Locked'
  BY <1>1 DEF Read, Locked
<1>4. OutRight'
  BY DEF Read, OutRight
<1> QED
  BY <1>2, <1>3, <1>4, CoherenceKept DEF Read, fileVars, cacheVars

LEMMA FailInv ==
  ASSUME Inv, Reading, Fail, UNCHANGED <<cache, older>>
  PROVE  Inv'
<1> USE DEF Inv
<1>1. TypeOK' /\ Locked'
  BY DEF Fail, Reading, TypeOK, Locked, Protected, fileVars, Unit, DriveType
<1>2. OutRight'
  BY DEF Fail, OutRight, Drives!Wanted, fileVars, Mounted
<1> QED
  BY <1>1, <1>2, CoherenceKept DEF Fail, fileVars

(* Units that are right keep the buffer right. *)
LEMMA GiveInv ==
  ASSUME Inv, Reading, Mounted(request.slot),
         NEW n \in Nat, done + n <= request.count, ~memory => done + n = request.count,
         NEW unit, Give(n, unit), UNCHANGED cache,
         older' \subseteq Block \X Block,
         \A k \in 0 .. n - 1 :
           unit[k] = Drives!Wanted(request.slot, request.offset, done + k)
  PROVE  Inv'
<1> USE DEF Inv
<1> DEFINE W(k) == Drives!Wanted(request.slot, request.offset, k)
<1>0. request.slot \in Slot /\ request.offset \in Nat /\ request.count \in Nat /\ done \in Nat
  BY RequestFacts DEF Reading
<1>1. \A k \in 0 .. done + n - 1 : out'[k] = W(k)
  <2> SUFFICES ASSUME NEW k \in 0 .. done + n - 1 PROVE out'[k] = W(k)
    OBVIOUS
  <2>1. CASE k < done
    BY <1>0, <2>1 DEF Give, OutRight, Reading
  <2>2. CASE k >= done
    <3>1. k - done \in 0 .. n - 1 /\ done + (k - done) = k
      BY <1>0, <2>2
    <3> QED
      BY <1>0, <3>1, <2>2 DEF Give
  <2> QED
    BY <1>0, <2>1, <2>2
<1>2. \A k \in Nat : W(k) \in Data
  <2> SUFFICES ASSUME NEW k \in Nat PROVE W(k) \in Data
    OBVIOUS
  <2> DEFINE d == drive[request.slot]
  <2>1. d.image \in Image /\ d.size \in 0 .. Units
    BY <1>0 DEF TypeOK, DriveType, Mounted
  <2>2. CASE request.offset + k < d.size
    <3>1. request.offset + k \in Unit
      BY <1>0, <2>1, <2>2, DiskAssumption DEF Unit
    <3> QED
      BY <2>1, <2>2, <3>1 DEF TypeOK, Drives!Wanted
  <2>3. CASE ~(request.offset + k < d.size)
    BY <2>3, DiskAssumption DEF Drives!Wanted
  <2> QED
    BY <2>2, <2>3
<1>3. out' \in [0 .. done' - 1 -> Data] /\ done' \in 0 .. request'.count
  BY <1>0, <1>1, <1>2 DEF Give
<1>4. TypeOK' /\ Locked'
  BY <1>3 DEF Give, Reading, TypeOK, Locked, Protected, fileVars, Unit, DriveType
<1>5. OutRight'
  BY <1>0, <1>1 DEF Give, OutRight, Drives!Wanted, fileVars, Mounted
<1> QED
  BY <1>4, <1>5, CoherenceKept DEF Give, fileVars

LEMMA WantedInside ==
  ASSUME NEW s \in Slot, NEW offset \in Nat, NEW k \in Nat, TypeOK
  PROVE  Drives!Wanted(s, offset, k) =
           IF offset + k < drive[s].size THEN content[drive[s].image][offset + k] ELSE Zero
BY DEF Drives!Wanted

LEMMA ReadPastEndInv ==
  ASSUME Inv, ReadPastEnd PROVE Inv'
<1> USE DEF Inv
<1> DEFINE n == request.count - done
<1>0. /\ request.slot \in Slot /\ request.offset \in Nat
      /\ request.count \in Nat /\ done \in Nat /\ n \in Nat
  BY RequestFacts DEF ReadPastEnd, Reading
<1>1. drive[request.slot].size \in Nat
  BY <1>0, DiskAssumption DEF TypeOK, DriveType
<1>2. \A k \in 0 .. n - 1 :
        Zeros(n)[k] = Drives!Wanted(request.slot, request.offset, done + k)
  BY <1>0, <1>1 DEF ReadPastEnd, Current, Size, Zeros, Drives!Wanted
<1>3. older' \subseteq Block \X Block
  BY DEF ReadPastEnd, TypeOK
<1>4. Give(n, Zeros(n)) /\ UNCHANGED cache
  BY DEF ReadPastEnd
<1> HIDE DEF n, Inv
<1>5. done + n <= request.count /\ done + n = request.count
  BY <1>0 DEF n
<1> QED
  BY <1>0, <1>2, <1>3, <1>4, <1>5, GiveInv DEF ReadPastEnd

LEMMA ReadDirectInv ==
  ASSUME Inv, ReadDirect PROVE Inv'
<1> USE DEF Inv
<1> DEFINE n == Least(request.count, Size - request.offset)
           unit == Part(content[drive[request.slot].image], request.offset, n)
           all == [k \in 0 .. request.count - 1 |-> IF k < n THEN unit[k] ELSE Zero]
<1>0. /\ request.slot \in Slot /\ request.offset \in Nat
      /\ request.count \in Nat /\ done \in Nat
      /\ done = 0 /\ Size \in Nat /\ request.offset < Size
  BY RequestFacts, DiskAssumption
     DEF ReadDirect, Reading, OutRight, TypeOK, DriveType, Size, Current
<1>1. CASE Fail /\ UNCHANGED <<cache, older>>
  BY <1>1, FailInv DEF ReadDirect
<1>2. CASE Give(request.count, all) /\ UNCHANGED <<cache, older>>
  <2>1. /\ n \in Nat /\ n <= request.count /\ n <= Size - request.offset
        /\ n = request.count \/ n = Size - request.offset
    BY <1>0 DEF Least
  <2>2. \A k \in 0 .. request.count - 1 :
          all[k] = Drives!Wanted(request.slot, request.offset, done + k)
    <3> HIDE DEF n
    <3> SUFFICES ASSUME NEW k \in 0 .. request.count - 1
                 PROVE  all[k] = Drives!Wanted(request.slot, request.offset, done + k)
      OBVIOUS
    <3>1. CASE k < n
      BY <1>0, <2>1, <3>1 DEF Part, Size, Drives!Wanted
    <3>2. CASE ~(k < n)
      BY <1>0, <2>1, <3>2 DEF Size, Drives!Wanted
    <3> QED
      BY <3>1, <3>2
  <2>3. older' \subseteq Block \X Block
    BY <1>2 DEF TypeOK
  <2> HIDE DEF all, Inv
  <2> QED
    BY <1>0, <1>2, <2>2, <2>3, GiveInv DEF ReadDirect
<1> QED
  BY <1>1, <1>2 DEF ReadDirect

LEMMA ReadUnmountedInv ==
  ASSUME Inv, ReadUnmounted PROVE Inv'
BY FailInv DEF ReadUnmounted

LEMMA TouchType ==
  ASSUME TypeOK, NEW b \in Block, Touch(b)
  PROVE  older' \subseteq Block \X Block
BY DEF TypeOK, Touch

LEMMA ReadCopyInv ==
  ASSUME Inv, NEW b \in Block, ReadCopy(b) PROVE Inv'
<1> USE DEF Inv
<1> DEFINE c == cache[b]
           inBlock == Current - c.offset
           left == request.count - done
           n == Least(left, c.length - inBlock)
<1>0. /\ request.slot \in Slot /\ request.offset \in Nat
      /\ request.count \in Nat /\ done \in Nat /\ left \in Nat \ {0}
      /\ Size \in Nat /\ Current \in Nat /\ Current < Size
  BY RequestFacts, DiskAssumption
     DEF ReadCopy, InCache, Reading, TypeOK, DriveType, Size, Current
<1>1. /\ c.slot = request.slot /\ c.offset = Align(Current) /\ c.offset \in Nat
      /\ c.length = Least(BlockUnits, Size - c.offset)
      /\ \A k \in 0 .. c.length - 1 :
           c.data[k] = content[drive[request.slot].image][c.offset + k]
  BY <1>0, AlignRange DEF ReadCopy, InCache, IsHit, CacheCoherent, Coherent, Size
<1>2. inBlock \in Nat /\ inBlock < c.length /\ c.length \in Nat
      /\ c.offset + c.length <= Size
  <2>1. inBlock \in Nat /\ inBlock < BlockUnits /\ inBlock < Size - c.offset
    BY <1>0, <1>1, AlignRange
  <2>2. c.length = BlockUnits \/ c.length = Size - c.offset
    BY <1>1 DEF Least
  <2>3. c.length <= Size - c.offset /\ c.length \in Nat
    BY <1>0, <1>1, <2>1, DiskAssumption DEF Least
  <2> HIDE DEF inBlock, c
  <2> QED
    BY <1>0, <1>1, <2>1, <2>2, <2>3
<1>3. n \in Nat /\ n <= left /\ n <= c.length - inBlock
  <2> HIDE DEF left, inBlock, c
  <2> QED
    BY <1>0, <1>2 DEF Least, left
<1>4. \A k \in 0 .. n - 1 :
        Part(c.data, inBlock, n)[k] = Drives!Wanted(request.slot, request.offset, done + k)
  <2> SUFFICES ASSUME NEW k \in 0 .. n - 1
               PROVE  Part(c.data, inBlock, n)[k]
                        = Drives!Wanted(request.slot, request.offset, done + k)
    OBVIOUS
  <2>1. inBlock + k \in 0 .. c.length - 1 /\ c.offset + (inBlock + k) = Current + k
    BY <1>0, <1>1, <1>2, <1>3
  <2>2. Current + k = request.offset + (done + k) /\ Current + k < Size
    BY <1>0, <1>1, <1>2, <1>3 DEF Current
  <2>3. Part(c.data, inBlock, n)[k] = c.data[inBlock + k]
    BY DEF Part
  <2> QED
    BY <1>1, <2>1, <2>2, <2>3 DEF Size, Drives!Wanted
<1>5. Give(n, Part(c.data, inBlock, n)) /\ UNCHANGED cache /\ memory
  BY <1>1, <1>2 DEF ReadCopy, InCache
<1>6. older' \subseteq Block \X Block
  BY TouchType DEF ReadCopy
<1>7. Reading /\ Mounted(request.slot) /\ done + n <= request.count
  BY <1>0, <1>3 DEF ReadCopy, InCache
<1> HIDE DEF n, Inv, inBlock
<1> QED
  BY <1>3, <1>4, <1>5, <1>6, <1>7, GiveInv

-----------------------------------------------------------------------------
(***************************************************************************)
(* The steps that change the cache.                                        *)
(***************************************************************************)
LEMMA ReadFillInv ==
  ASSUME Inv, NEW v \in Block, ReadFill(v) PROVE Inv'
<1> USE DEF Inv
<1> DEFINE offset == Align(Current)
           n == Least(BlockUnits, Size - offset)
           image == drive[request.slot].image
           new == [valid |-> TRUE, slot |-> request.slot, offset |-> offset,
                   length |-> n, data |-> Part(content[image], offset, n)]
<1>0. /\ request.slot \in Slot /\ Mounted(request.slot)
      /\ Size \in 0 .. Units /\ Current \in Nat /\ Current < Size /\ image \in Image
  BY RequestFacts, DiskAssumption
     DEF ReadFill, InCache, Reading, TypeOK, DriveType, Size, Current, Mounted
<1>1. offset \in Nat /\ offset < Size
  BY <1>0, AlignRange
<1>2. n \in 0 .. BlockUnits /\ n <= Size - offset
  BY <1>0, <1>1, DiskAssumption DEF Least
<1>3. cache' = [cache EXCEPT ![v] = new]
  BY DEF ReadFill
<1>4. \A k \in 0 .. n - 1 :
        /\ content[image][offset + k] \in Data
        /\ new.data[k] = content[image][offset + k]
  <2> SUFFICES ASSUME NEW k \in 0 .. n - 1
               PROVE  /\ content[image][offset + k] \in Data
                      /\ new.data[k] = content[image][offset + k]
    OBVIOUS
  <2>1. offset + k \in Unit
    BY <1>0, <1>1, <1>2, DiskAssumption DEF Unit
  <2> QED
    BY <1>0, <2>1 DEF TypeOK, Part
<1>5. new \in CacheBlock
  <2>1. new.data \in [0 .. n - 1 -> Data]
    BY <1>4 DEF Part
  <2> QED
    BY <1>0, <1>1, <1>2, <2>1, DiskAssumption DEF CacheBlock
<1>6. cache'[v] = new /\ \A b \in Block \ {v} : cache'[b] = cache[b]
  BY <1>3 DEF TypeOK
<1>7. UNCHANGED <<content, len, drive, memory, lock, request, out, done, fault, upload>>
  BY DEF ReadFill, fileVars, readVars
<1>8. TypeOK'
  <2>1. cache' \in [Block -> CacheBlock]
    BY <1>3, <1>5 DEF TypeOK
  <2>2. older' \subseteq Block \X Block
    BY TouchType DEF ReadFill
  <2> QED
    BY <1>7, <2>1, <2>2 DEF TypeOK, Unit, DriveType
<1>9. Locked' /\ Exclusive' /\ SizeCurrent' /\ OutRight'
  BY <1>7 DEF Locked, Protected, Exclusive, SizeCurrent, Mounted, OutRight, Drives!Wanted
<1>10. Coherent(new)
  <2> HIDE DEF offset, n, Inv
  <2> QED
    BY <1>0, <1>1, <1>2, <1>4 DEF Coherent, Size, n
<1>11. CacheCoherent'
  <2> SUFFICES ASSUME NEW b \in Block, cache'[b].valid
               PROVE  Coherent(cache[b])'
    BY DEF CacheCoherent
  <2>1. CASE b = v
    BY <1>6, <1>7, <1>10, <2>1 DEF Coherent, Mounted
  <2>2. CASE b # v
    BY <1>6, <1>7, <2>2 DEF CacheCoherent, Coherent, Mounted
  <2> QED
    BY <2>1, <2>2
<1>12. NoOverlap'
  <2>1. \A b \in Block \ {v} :
          cache[b].valid /\ cache[b].slot = new.slot => cache[b].offset # new.offset
    BY DEF ReadFill, IsHit
  <2> QED
    BY <1>6, <2>1 DEF NoOverlap
<1> QED
  BY <1>8, <1>9, <1>11, <1>12

LEMMA ReadFillFailsInv ==
  ASSUME Inv, NEW v \in Block, ReadFillFails(v) PROVE Inv'
<1> USE DEF Inv
<1>1. cache' = [cache EXCEPT ![v] = NoBlock]
  BY DEF ReadFillFails
<1>2. \A b \in Block : cache'[b].valid => cache'[b] = cache[b] /\ cache[b].valid
  BY <1>1, NoBlockType DEF TypeOK
<1>3. UNCHANGED <<content, len, drive, older, memory, lock, request, out, done, upload>>
      /\ fault' = TRUE
  BY DEF ReadFillFails, Fail, fileVars
<1>4. cache' \in [Block -> CacheBlock]
  BY <1>1, NoBlockType DEF TypeOK
<1>5. TypeOK' /\ Locked'
  BY <1>3, <1>4 DEF TypeOK, Unit, DriveType, Locked, Protected, ReadFillFails, InCache, Reading
<1>6. Exclusive' /\ SizeCurrent' /\ OutRight'
  BY <1>3 DEF Exclusive, SizeCurrent, Mounted, OutRight, Drives!Wanted
<1>7. CacheCoherent' /\ NoOverlap'
  BY <1>2, <1>3 DEF CacheCoherent, NoOverlap, Coherent, Mounted
<1> QED
  BY <1>5, <1>6, <1>7

LEMMA ReadReturnInv ==
  ASSUME Inv, ReadReturn PROVE Inv'
<1> USE DEF Inv
<1>1. out' \in [0 .. done' - 1 -> Data] /\ done' \in 0 .. request'.count
  BY DEF ReadReturn, Empty, NoRequest
<1>2. TypeOK' /\ Locked' /\ OutRight'
  BY <1>1 DEF ReadReturn, TypeOK, Unit, DriveType, Locked, OutRight, fileVars, cacheVars
<1> QED
  BY <1>2, CoherenceKept DEF ReadReturn, fileVars, cacheVars

LEMMA ColdBootInv ==
  ASSUME Inv, ColdBoot PROVE Inv'
<1> USE DEF Inv
<1>1. \A b \in Block : ~cache'[b].valid
  BY NoBlockType DEF ColdBoot
<1>2. TypeOK' /\ Locked'
  BY NoBlockType DEF ColdBoot, TypeOK, Unit, DriveType, Locked, Protected, fileVars, readVars
<1>3. Exclusive' /\ SizeCurrent' /\ OutRight'
  BY DEF ColdBoot, Exclusive, SizeCurrent, Mounted, OutRight, Drives!Wanted, fileVars, readVars
<1> QED
  BY <1>1, <1>2, <1>3 DEF CacheCoherent, NoOverlap

(* A write: blocks that stay valid hold none of the units it changes.      *)
LEMMA WriteInv ==
  ASSUME Inv, NEW s \in Slot, NEW offset \in Unit, NEW count \in Count,
         NEW units \in [0 .. count - 1 -> Data], NEW n \in 0 .. count,
         Write(s, offset, count, units, n)
  PROVE  Inv'
<1> USE DEF Inv
<1> DEFINE i == drive[s].image
           B == {b \in OfSlot(s) : /\ offset < cache[b].offset + cache[b].length
                                   /\ cache[b].offset < offset + count}
           new == [u \in Unit |-> IF u \in offset .. offset + n - 1
                                  THEN units[u - offset] ELSE content[i][u]]
<1>0. /\ i \in Image /\ offset \in Nat /\ count \in Nat /\ n \in Nat /\ n <= count
  BY DiskAssumption DEF Write, Mounted, TypeOK, DriveType, Unit, Count
<1>1. new \in [Unit -> Data]
  BY <1>0 DEF TypeOK
<1>2. content' = [content EXCEPT ![i] = new]
  BY DEF Write, Store
<1>3. UNCHANGED <<len, drive, older, memory, lock, request, out, done, fault, upload>>
      /\ lock = "free"
  BY DEF Write, readVars
<1>4. /\ cache' \in [Block -> CacheBlock]
      /\ \A b \in Block : cache'[b].valid
           => cache'[b] = cache[b] /\ cache[b].valid /\ b \notin B
  BY InvalidateKeeps DEF Write
<1>5. TypeOK'
  BY <1>0, <1>1, <1>2, <1>3, <1>4 DEF TypeOK, DriveType
<1>6. Locked' /\ Exclusive' /\ SizeCurrent'
  BY <1>3 DEF Locked, Protected, Exclusive, SizeCurrent, Mounted
<1>7. OutRight'
  BY <1>3, IdleRead DEF readVars
<1>8. NoOverlap'
  BY <1>4 DEF NoOverlap
<1>9. CacheCoherent'
  <2> SUFFICES ASSUME NEW b \in Block, cache'[b].valid
               PROVE  Coherent(cache[b])'
    BY DEF CacheCoherent
  <2> DEFINE c == cache[b]
  <2>1. cache'[b] = c /\ c.valid /\ b \notin B /\ Coherent(c)
    BY <1>4 DEF CacheCoherent
  <2>2. c.offset \in Nat /\ c.length \in Nat /\ c.slot \in Slot
    BY <2>1 DEF TypeOK, CacheBlock, Coherent
  <2>3. drive[c.slot].size \in 0 .. Units /\ drive[c.slot].image \in Image
    BY <2>1, <2>2 DEF TypeOK, DriveType, Coherent, Mounted
  <2>4. ASSUME NEW k \in 0 .. c.length - 1
        PROVE  content'[drive[c.slot].image][c.offset + k]
                 = content[drive[c.slot].image][c.offset + k]
    <3>1. CASE c.slot # s
      <4>1. drive[c.slot].image # i
        BY <2>1, <2>2, <3>1 DEF Exclusive, Coherent
      <4> QED
        BY <1>2, <2>3, <4>1 DEF TypeOK
    <3>2. CASE c.slot = s
      <4>1. c.offset + c.length <= offset \/ offset + count <= c.offset
        BY <1>0, <2>1, <2>2, <3>2 DEF OfSlot
      <4>2. c.length <= drive[c.slot].size - c.offset
        BY <2>1, <2>2, <2>3, DiskAssumption DEF Coherent, Least
      <4>3. c.offset + k \in Unit /\ c.offset + k \notin offset .. offset + n - 1
        <5>1. k \in Nat /\ k < c.length
          BY <2>2
        <5>2. c.offset + k \in Nat /\ c.offset + k < Units
          BY <2>2, <2>3, <4>2, <5>1, DiskAssumption
        <5>3. c.offset + k < offset \/ c.offset + k > offset + n - 1
          BY <1>0, <2>2, <4>1, <5>1
        <5> QED
          BY <1>0, <5>2, <5>3, DiskAssumption DEF Unit
      <4> QED
        BY <1>0, <1>2, <3>2, <4>3 DEF TypeOK
    <3> QED
      BY <3>1, <3>2
  <2> QED
    BY <1>3, <2>1, <2>4 DEF Coherent, Mounted
<1> QED
  BY <1>5, <1>6, <1>7, <1>8, <1>9

(* What Mount and Dismount have in common: slot s gets another medium. *)
LEMMA ChangeInv ==
  ASSUME Inv, NEW s \in Slot, NEW d \in DriveType,
         lock = "free", Invalidate(OfSlot(s)),
         drive' = [drive EXCEPT ![s] = d],
         d.image # NoImage => /\ d.size = len[d.image]
                              /\ \A t \in Slot \ {s} : drive[t].image # d.image,
         UNCHANGED <<fileVars, older, memory, lock, readVars, upload>>
  PROVE  Inv'
<1> USE DEF Inv
<1>1. drive'[s] = d /\ \A t \in Slot \ {s} : drive'[t] = drive[t]
  BY DEF TypeOK
<1>2. /\ cache' \in [Block -> CacheBlock]
      /\ \A b \in Block : cache'[b].valid
           => cache'[b] = cache[b] /\ cache[b].valid /\ b \notin OfSlot(s)
  BY InvalidateKeeps
<1>3. TypeOK'
  BY <1>2 DEF TypeOK, fileVars, readVars, Unit
<1>4. Locked' /\ SizeCurrent'
  BY <1>1 DEF Locked, SizeCurrent, Mounted, fileVars, readVars
<1>5. Exclusive'
  BY <1>1 DEF Exclusive, Mounted
<1>6. OutRight'
  BY IdleRead
<1>7. NoOverlap'
  BY <1>2 DEF NoOverlap
<1>8. CacheCoherent'
  BY <1>1, <1>2 DEF CacheCoherent, Coherent, Mounted, OfSlot, fileVars
<1> QED
  BY <1>3, <1>4, <1>5, <1>6, <1>7, <1>8

LEMMA MountInv ==
  ASSUME ~SharedImages, Inv, NEW s \in Slot, NEW i \in Image, NEW ro \in BOOLEAN,
         Mount(s, i, ro)
  PROVE  Inv'
<1> DEFINE d == [image |-> i, readonly |-> ro, size |-> len[i]]
<1>1. d \in DriveType
  BY DiskAssumption DEF Inv, TypeOK, DriveType
<1>2. \A t \in Slot \ {s} : drive[t].image # d.image
  BY DEF Mount
<1> QED
  BY <1>1, <1>2, ChangeInv DEF Mount

LEMMA DismountInv ==
  ASSUME Inv, NEW s \in Slot, Dismount(s) PROVE Inv'
<1>1. NoDrive \in DriveType /\ NoDrive.image = NoImage
  BY DiskAssumption DEF NoDrive, DriveType
<1> QED
  BY <1>1, ChangeInv DEF Dismount

LEMMA FtpCommandInv ==
  ASSUME Inv, NEW i \in Image, FtpCommand(i) PROVE Inv'
<1> USE DEF Inv
<1>1. TypeOK' /\ Locked'
  BY DEF FtpCommand, TypeOK, Unit, DriveType, Locked, Protected, fileVars, cacheVars, readVars
<1>2. OutRight'
  BY DEF FtpCommand, OutRight, Drives!Wanted, Mounted, fileVars, cacheVars, readVars
<1> QED
  BY <1>1, <1>2, CoherenceKept DEF FtpCommand, fileVars, cacheVars

LEMMA FtpTakeInv ==
  ASSUME Inv, FtpTake PROVE Inv'
<1> USE DEF Inv
<1>1. TypeOK' /\ Locked'
  BY DEF FtpTake, TypeOK, Unit, DriveType, Locked, Protected, fileVars, cacheVars, readVars
<1>2. OutRight'
  BY IdleRead DEF FtpTake, cacheVars
<1> QED
  BY <1>1, <1>2, CoherenceKept DEF FtpTake, fileVars, cacheVars

(* The file that an FTP transfer replaces is in no slot. *)
LEMMA FtpStoreInv ==
  ASSUME Inv, FtpStore PROVE Inv'
<1> USE DEF Inv
<1>1. PICK n \in FileSize, c \in [Unit -> Data] :
        /\ content' = [content EXCEPT ![upload] = c]
        /\ len' = [len EXCEPT ![upload] = n]
  BY DEF FtpStore
<1>2. upload \in Image /\ \A s \in Slot : drive[s].image # upload
  BY DEF FtpStore, Locked, Protected, TypeOK
<1>3. UNCHANGED <<drive, cache, older, memory, request, out, done, fault>>
      /\ lock' = "free" /\ upload' = NoImage /\ lock = "ftp"
  BY DEF FtpStore, cacheVars, readVars
<1>4. TypeOK'
  BY <1>1, <1>2, <1>3, DiskAssumption DEF TypeOK, Unit, DriveType
<1>5. \A i \in Image \ {upload} : content'[i] = content[i] /\ len'[i] = len[i]
  BY <1>1 DEF TypeOK
<1>6. \A s \in Slot : Mounted(s) => drive[s].image \in Image \ {upload}
  BY <1>2 DEF TypeOK, DriveType, Mounted
<1>7. Locked' /\ Exclusive' /\ NoOverlap'
  BY <1>3 DEF Locked, Exclusive, NoOverlap, Mounted
<1>8. SizeCurrent'
  BY <1>3, <1>5, <1>6 DEF SizeCurrent, Mounted
<1>9. CacheCoherent'
  BY <1>3, <1>5, <1>6 DEF CacheCoherent, Coherent, Mounted
<1>10. OutRight'
  BY <1>3, IdleRead DEF readVars
<1> QED
  BY <1>4, <1>7, <1>8, <1>9, <1>10

LEMMA StutterInv ==
  ASSUME Inv, UNCHANGED vars PROVE Inv'
<1> USE DEF Inv
<1>1. TypeOK' /\ Locked'
  BY DEF vars, TypeOK, Unit, DriveType, Locked, Protected, fileVars, cacheVars, readVars
<1>2. OutRight'
  BY DEF vars, OutRight, Drives!Wanted, Mounted, fileVars, cacheVars, readVars
<1> QED
  BY <1>1, <1>2, CoherenceKept DEF vars, fileVars, cacheVars

LEMMA InvNext ==
  ASSUME ~SharedImages, Inv, [Next]_vars PROVE Inv'
<1>1. ASSUME NEW s \in Slot, NEW offset \in 0 .. Units, NEW count \in Count,
             Read(s, offset, count)
      PROVE  Inv'
  BY <1>1, ReadInv
<1>2. CASE ReadStep
  BY <1>2, ReadUnmountedInv, ReadPastEndInv, ReadDirectInv, ReadReturnInv,
     ReadFillInv, ReadFillFailsInv, ReadCopyInv DEF ReadStep
<1>3. ASSUME NEW s \in Slot, NEW offset \in Unit, NEW count \in Count,
             NEW units \in [0 .. count - 1 -> Data], NEW n \in 0 .. count,
             Write(s, offset, count, units, n)
      PROVE  Inv'
  BY <1>3, WriteInv
<1>4. CASE Medium
  BY <1>4, MountInv, DismountInv DEF Medium
<1>5. CASE ColdBoot
  BY <1>5, ColdBootInv
<1>6. ASSUME NEW i \in Image, FtpCommand(i) PROVE Inv'
  BY <1>6, FtpCommandInv
<1>7. CASE FtpTake \/ FtpStore
  BY <1>7, FtpTakeInv, FtpStoreInv
<1>8. CASE UNCHANGED vars
  BY <1>8, StutterInv
<1> QED
  BY <1>1, <1>2, <1>3, <1>4, <1>5, <1>6, <1>7, <1>8 DEF Next

(***************************************************************************)
(* The cache never disagrees with the mounted images: blocks are coherent, *)
(* do not overlap, and the sizes are those of the files, whatever the FTP  *)
(* server and the operator do, as long as no image is in two slots.        *)
(***************************************************************************)
THEOREM CacheCorrect ==
  ASSUME ~SharedImages
  PROVE  SafeSpec => [](TypeOK /\ CacheCoherent /\ NoOverlap /\ SizeCurrent)
<1>1. Inv => TypeOK /\ CacheCoherent /\ NoOverlap /\ SizeCurrent
  BY DEF Inv
<1> QED
  BY <1>1, InvInit, InvNext, PTL DEF SafeSpec

(* No step, a short or failed transfer included, leaves the read, the      *)
(* cache or the slots in a state the code does not expect.                 *)
COROLLARY DiskTypes ==
  ASSUME ~SharedImages
  PROVE  SafeSpec => []TypeOK
BY CacheCorrect, PTL

(* The size that mount stored stays the size of the file: an upload never  *)
(* gets to a mounted image, although protection is tested before the       *)
(* client's data connection is there.                                      *)
COROLLARY SizesKept ==
  ASSUME ~SharedImages
  PROVE  SafeSpec => []SizeCurrent
BY CacheCorrect, PTL

-----------------------------------------------------------------------------
(***************************************************************************)
(* The refinement.                                                         *)
(***************************************************************************)
LEMMA AnswerOf ==
  ASSUME TypeOK, Locked
  PROVE  /\ request = NoRequest => answer = Drives!NoAnswer
         /\ Reading => answer = Drives!NoAnswer
         /\ fault => answer = Drives!Failed
         /\ ~fault /\ request # NoRequest /\ done = request.count
              => answer = [status |-> "data", data |-> out]
<1>1. fault \in BOOLEAN /\ (request = NoRequest => ~fault)
  BY DEF TypeOK, Locked
<1>2. Reading => ~fault /\ done # request.count
  BY DEF Reading, TypeOK
<1>3. fault => answer = Drives!Failed
  BY DEF answer, Drives!Failed, Empty
<1>4. ~fault /\ (request = NoRequest \/ done # request.count)
        => answer = Drives!NoAnswer
  BY DEF answer, Drives!NoAnswer, Empty
<1>5. ~fault /\ request # NoRequest /\ done = request.count
        => answer = [status |-> "data", data |-> out]
  BY DEF answer
<1> QED
  BY <1>1, <1>2, <1>3, <1>4, <1>5

LEMMA SameRequest == Drives!NoRequest = NoRequest /\ Drives!NoDrive = NoDrive
BY DEF Drives!NoRequest, NoRequest, Drives!NoDrive, NoDrive

(* Steps that neither the store nor the answer shows. *)
LEMMA Unseen ==
  ASSUME UNCHANGED <<content, drive, request, out, done, fault>>
  PROVE  UNCHANGED Drives!vars
BY DEF Drives!vars, answer

LEMMA FailAnswers ==
  ASSUME Inv, Inv', Reading, Fail PROVE Drives!Answer
<1>1. answer = Drives!NoAnswer
  BY AnswerOf DEF Inv
<1>2. answer' = Drives!Failed
  BY DEF Fail, answer, Drives!Failed, Empty
<1> QED
  BY <1>1, <1>2, SameRequest DEF Fail, Reading, fileVars, Drives!Answer

LEMMA GiveAnswers ==
  ASSUME Inv, Inv', Reading, Mounted(request.slot), NEW n, NEW unit, Give(n, unit)
  PROVE  Drives!Answer \/ UNCHANGED Drives!vars
<1>1. answer = Drives!NoAnswer
  BY AnswerOf DEF Inv
<1>2. UNCHANGED <<content, drive, request, fault>> /\ ~fault /\ request # NoRequest
  BY DEF Give, Reading, fileVars
<1>3. CASE done' = request.count
  <2>1. answer' = [status |-> "data", data |-> out']
    BY <1>2, <1>3 DEF answer
  <2>2. out' = [k \in 0 .. request.count - 1 |->
                  Drives!Wanted(request.slot, request.offset, k)]
    <3>1. \A k \in 0 .. request.count - 1 :
            out'[k] = Drives!Wanted(request.slot, request.offset, k)
      BY <1>2, <1>3 DEF Inv, OutRight, Drives!Wanted
    <3>2. out' \in [0 .. request.count - 1 -> Data]
      BY <1>3 DEF Inv, TypeOK
    <3> QED
      BY <3>1, <3>2
  <2> QED
    BY <1>1, <1>2, <2>1, <2>2, SameRequest DEF Drives!Answer, Drives!Mounted, Mounted
<1>4. CASE done' # request.count
  <2>1. answer' = Drives!NoAnswer
    BY <1>2, <1>4 DEF answer, Drives!NoAnswer, Empty
  <2> QED
    BY <1>1, <1>2, <2>1 DEF Drives!vars
<1> QED
  BY <1>3, <1>4

LEMMA ReadStepImplements ==
  ASSUME Inv, Inv', ReadStep
  PROVE  [Drives!Next]_Drives!vars
<1>1. CASE ReadUnmounted
  BY <1>1, FailAnswers DEF ReadUnmounted, Drives!Next
<1>2. CASE ReadPastEnd
  BY <1>2, GiveAnswers DEF ReadPastEnd, Drives!Next
<1>3. CASE ReadDirect
  BY <1>3, FailAnswers, GiveAnswers DEF ReadDirect, Drives!Next
<1>4. ASSUME NEW b \in Block, ReadFill(b)
      PROVE  UNCHANGED Drives!vars
  BY <1>4, Unseen DEF ReadFill, fileVars, readVars
<1>5. ASSUME NEW b \in Block, ReadFillFails(b)
      PROVE  Drives!Answer
  BY <1>5, FailAnswers DEF ReadFillFails, InCache
<1>6. ASSUME NEW b \in Block, ReadCopy(b)
      PROVE  Drives!Answer \/ UNCHANGED Drives!vars
  BY <1>6, GiveAnswers DEF ReadCopy, InCache
<1>7. CASE ReadReturn
  <2>1. answer # Drives!NoAnswer
    <3>1. fault \/ done = request.count
      BY <1>7, RequestFacts DEF ReadReturn, Reading, Inv
    <3> QED
      BY <1>7, <3>1, AnswerOf DEF ReadReturn, Inv, Drives!NoAnswer, Drives!Failed
  <2>2. answer' = Drives!NoAnswer
    BY <1>7 DEF ReadReturn, answer, Drives!NoAnswer, Empty
  <2> QED
    BY <1>7, <2>1, <2>2, SameRequest
       DEF ReadReturn, Drives!Return, Drives!Next, fileVars
<1> QED
  BY <1>1, <1>2, <1>3, <1>4, <1>5, <1>6, <1>7 DEF ReadStep, Drives!Next

LEMMA NextImplements ==
  ASSUME Inv, Inv', [Next]_vars
  PROVE  [Drives!Next]_Drives!vars
<1>1. ASSUME NEW s \in Slot, NEW offset \in 0 .. Units, NEW count \in Count,
             Read(s, offset, count)
      PROVE  Drives!Ask(s, offset, count)
  <2>1. request = NoRequest
    BY <1>1 DEF Read, Inv, Locked
  <2>2. answer = Drives!NoAnswer
    BY <2>1, AnswerOf DEF Inv
  <2>3. request'.count # 0 /\ done' = 0 /\ ~fault'
    BY <1>1, DiskAssumption DEF Read, Count
  <2>4. answer' = Drives!NoAnswer
    BY <2>3 DEF answer, Drives!NoAnswer, Empty
  <2> QED
    BY <1>1, <2>1, <2>2, <2>4, SameRequest DEF Read, Drives!Ask, fileVars
<1>2. CASE ReadStep
  BY <1>2, ReadStepImplements
<1>3. ASSUME NEW s \in Slot, NEW offset \in Unit, NEW count \in Count,
             NEW units \in [0 .. count - 1 -> Data], NEW n \in 0 .. count,
             Write(s, offset, count, units, n)
      PROVE  Drives!Write(s)
  <2> DEFINE i == drive[s].image
  <2>1. request = NoRequest /\ UNCHANGED <<drive, request, answer>>
    BY <1>3 DEF Write, Inv, Locked, readVars, answer
  <2>2. i \in Image /\ drive[s].size \in 0 .. Units
    BY <1>3 DEF Write, Inv, TypeOK, DriveType, Mounted
  <2>3. \A j \in Image \ {i} : content'[j] = content[j]
    BY <1>3 DEF Write, Store, Inv, TypeOK
  <2>4. \A u \in Unit : u >= drive[s].size => content'[i][u] = content[i][u]
    <3>1. \A u \in Unit : u >= drive[s].size => u \notin offset .. offset + n - 1
      BY <1>3, <2>2, DiskAssumption DEF Write, Unit, Count
    <3> QED
      BY <1>3, <2>2, <3>1 DEF Write, Store, Inv, TypeOK
  <2> QED
    BY <1>3, <2>1, <2>3, <2>4, SameRequest
       DEF Write, Drives!Write, Drives!OnlyFile, Drives!Mounted, Mounted, Drives!Unit,
           Unit, Inv, TypeOK
<1>4. ASSUME NEW s \in Slot, NEW d \in DriveType, lock = "free",
             drive' = [drive EXCEPT ![s] = d], UNCHANGED <<content, readVars>>
      PROVE  Drives!Change(s)
  <2>1. request = NoRequest /\ UNCHANGED <<request, answer>>
    BY <1>4 DEF Inv, Locked, readVars, answer
  <2>2. /\ d.image \in Image \union {NoImage} /\ d.readonly \in BOOLEAN /\ d.size \in 0 .. Units
        /\ d = [image |-> d.image, readonly |-> d.readonly, size |-> d.size]
    BY DEF DriveType
  <2> QED
    BY <1>4, <2>1, <2>2, SameRequest DEF Drives!Change
<1>5. CASE Medium
  <2>1. ASSUME NEW s \in Slot, NEW i \in Image, NEW ro \in BOOLEAN, Mount(s, i, ro)
        PROVE  Drives!Change(s)
    <3>1. [image |-> i, readonly |-> ro, size |-> len[i]] \in DriveType
      BY DEF Inv, TypeOK, DriveType
    <3> QED
      BY <1>4, <2>1, <3>1 DEF Mount, fileVars
  <2>2. ASSUME NEW s \in Slot, Dismount(s)
        PROVE  Drives!Change(s)
    <3>1. NoDrive \in DriveType
      BY DiskAssumption DEF NoDrive, DriveType
    <3> QED
      BY <1>4, <2>2, <3>1 DEF Dismount, fileVars
  <2> QED
    BY <1>5, <2>1, <2>2 DEF Medium, Drives!Next
<1>6. CASE ColdBoot \/ FtpTake
  BY <1>6, Unseen DEF ColdBoot, FtpTake, fileVars, readVars, cacheVars
<1>7. ASSUME NEW i \in Image, FtpCommand(i)
      PROVE  UNCHANGED Drives!vars
  BY <1>7, Unseen DEF FtpCommand, fileVars, readVars
<1>8. CASE FtpStore
  <2>1. upload \in Image /\ ~Protected(upload)
    BY <1>8 DEF FtpStore, Inv, Locked, TypeOK
  <2>2. UNCHANGED <<drive, request, answer>>
    BY <1>8 DEF FtpStore, readVars, answer
  <2>3. \A j \in Image \ {upload} : content'[j] = content[j]
    BY <1>8 DEF FtpStore, Inv, TypeOK
  <2>4. Drives!Replace(upload)
    BY <2>1, <2>2, <2>3
       DEF Drives!Replace, Drives!InUse, Protected, Drives!OnlyFile, Drives!Unit, Unit,
           Inv, TypeOK
  <2> QED
    BY <2>1, <2>4 DEF Drives!Next
<1>9. CASE UNCHANGED vars
  BY <1>9, Unseen DEF vars, fileVars, readVars
<1> QED
  BY <1>1, <1>2, <1>3, <1>5, <1>6, <1>7, <1>8, <1>9 DEF Next, Drives!Next, Count

(***************************************************************************)
(* The cache is invisible: every read fails or returns what the mounted    *)
(* image holds, as DriveStore promises.                                    *)
(***************************************************************************)
THEOREM CacheInvisible ==
  ASSUME ~SharedImages
  PROVE  SafeSpec => ImplementsStore
<1>1. Init => Drives!Init
  <2> SUFFICES ASSUME Init PROVE Drives!Init
    OBVIOUS
  <2>1. answer = Drives!NoAnswer
    BY DEF Init, answer, Drives!NoAnswer, Empty
  <2>2. content \in [Image -> [Unit -> Data]]
    BY DiskAssumption DEF Init
  <2> QED
    BY <2>1, <2>2, SameRequest DEF Init, Drives!Init, Drives!Unit, Unit
<1>2. SafeSpec => []Inv
  BY InvInit, InvNext, PTL DEF SafeSpec
<1> QED
  BY <1>1, <1>2, NextImplements, PTL DEF SafeSpec, ImplementsStore, Drives!Spec
=============================================================================
