---------------------------- MODULE FsDiskProofs ----------------------------
(***************************************************************************)
(* Proofs about FsDisk under the care of CareSpec, for any number of       *)
(* files, blocks and pointers.                                             *)
(***************************************************************************)
EXTENDS FsDisk, TLAPS

-----------------------------------------------------------------------------
(***************************************************************************)
(* The inductive invariant.                                                *)
(***************************************************************************)
\* The disk is behind memory: it has no block free that memory has not, and a
\* pointer that differs from the one in memory is still missing.
DiskBehind ==
  /\ dbitmap \subseteq bitmap
  /\ \A f \in File : /\ dfile[f].size = file[f].size
                     /\ \A i \in 0 .. NDIRECT : dfile[f].ptr[i] \in {Null, file[f].ptr[i]}

\* No pointer to a block beyond the size.
Inside ==
  \A f \in File : \A bno \in 0 .. MaxBlocks - 1 :
    BlockOf(f, bno) # Null => bno < file[f].size

\* The read or write under way.
OpRight ==
  op # NoOp => /\ op.bno < file[op.f].size
               /\ NeedsIndirect => FirstIsBlank
               /\ op.f \notin flushed /\ flushing = {}

Flushes == {flushes[i] : i \in 1 .. Len(flushes)}

\* What file_flush() or fs_sync() has not come to yet is still to come.
FlushRight ==
  /\ flushes = <<>> => flushing = {}
  /\ \A f \in flushing :
       /\ dfile[f] = file[f] \/ Dir \in Flushes
       /\ \A s \in Slot : At(f, s) # Null =>
            dword[At(f, s)] = word[At(f, s)] \/ At(f, s) \in Flushes

IInv ==
  /\ TypeOK /\ OneOwner /\ FlushedSurvives
  /\ DiskBehind /\ Inside /\ OpRight /\ FlushRight

-----------------------------------------------------------------------------
(***************************************************************************)
(* Pointers.                                                               *)
(***************************************************************************)
LEMMA Sizes ==
  /\ NBLOCKS \in Nat /\ NBLOCKS > 3 /\ NDIRECT \in Nat \ {0} /\ NINDIRECT \in Nat \ {0}
  /\ MaxBlocks \in Nat
  /\ Null \notin Block /\ Dir \notin Block /\ Bitmap \notin Block
  /\ Dir # Null /\ Bitmap # Null /\ Dir # Bitmap
  BY SizeAssumption DEF MaxBlocks, Block, Null, Dir, Bitmap

LEMMA Slots ==
  /\ \A s \in Slot : s \in Nat /\ (s > NDIRECT => s - NDIRECT - 1 \in Word)
  /\ \A i \in 0 .. NDIRECT : i \in Slot
  /\ \A w \in Word : w + NDIRECT + 1 \in Slot /\ w + NDIRECT + 1 > NDIRECT
  /\ \A bno \in 0 .. MaxBlocks - 1 : SlotOf(bno) \in Slot /\ SlotOf(bno) # NDIRECT
  /\ \A s \in Slot : s # NDIRECT => \E bno \in 0 .. MaxBlocks - 1 : s = SlotOf(bno)
  /\ \A b, c \in 0 .. MaxBlocks - 1 : SlotOf(b) = SlotOf(c) => b = c
  <1>1. \A s \in Slot : s # NDIRECT => \E bno \in 0 .. MaxBlocks - 1 : s = SlotOf(bno)
    <2> SUFFICES ASSUME NEW s \in Slot, s # NDIRECT
                 PROVE  \E bno \in 0 .. MaxBlocks - 1 : s = SlotOf(bno)
      OBVIOUS
    <2>1. CASE s < NDIRECT
      BY <2>1, Sizes DEF Slot, SlotOf, MaxBlocks
    <2>2. CASE s > NDIRECT
      <3>1. s - 1 \in 0 .. MaxBlocks - 1 /\ SlotOf(s - 1) = s
        BY <2>2, Sizes DEF Slot, SlotOf, MaxBlocks
      <3> QED BY <3>1
    <2> QED BY <2>1, <2>2, Sizes DEF Slot
  <1> QED BY <1>1, Sizes DEF Slot, SlotOf, MaxBlocks, Word

LEMMA AtType ==
  ASSUME TypeOK, NEW f \in File
  PROVE  /\ \A s \in Slot : At(f, s) \in Pointer
         /\ \A bno \in 0 .. MaxBlocks - 1 : BlockOf(f, bno) \in Pointer
         /\ \A i \in 0 .. NDIRECT : At(f, i) = file[f].ptr[i] /\ file[f].ptr[i] \in Pointer
         /\ Indirect(f) \in Pointer /\ At(f, NDIRECT) = Indirect(f)
         /\ file[f].size \in 0 .. MaxBlocks
  <1>1. /\ file[f].size \in 0 .. MaxBlocks
        /\ \A i \in 0 .. NDIRECT : file[f].ptr[i] \in Pointer
    BY DEF TypeOK, Structs
  <1>2. \A i \in 0 .. NDIRECT : At(f, i) = file[f].ptr[i]
    BY Sizes DEF At
  <1>3. Indirect(f) \in Pointer /\ At(f, NDIRECT) = Indirect(f)
    BY <1>1, <1>2, Sizes DEF Indirect
  <1>4. ASSUME NEW s \in Slot PROVE At(f, s) \in Pointer
    <2>1. CASE s <= NDIRECT
      BY <1>1, <1>2, <2>1, Slots, Sizes
    <2>2. CASE s > NDIRECT
      <3>1. CASE Indirect(f) = Null
        BY <2>2, <3>1, Slots, Sizes DEF At, Pointer
      <3>2. CASE Indirect(f) # Null
        <4>1. word[Indirect(f)] \in Content
          BY <1>3, <3>2 DEF TypeOK, Pointer
        <4>2. word[Indirect(f)][s - NDIRECT - 1] \in Pointer
          BY <4>1, <2>2, Slots DEF Content
        <4> QED BY <4>2, <3>2, <2>2, Slots, Sizes DEF At
      <3> QED BY <3>1, <3>2
    <2> QED BY <2>1, <2>2, Slots, Sizes
  <1>5. \A bno \in 0 .. MaxBlocks - 1 : BlockOf(f, bno) \in Pointer
    BY <1>4, Slots DEF BlockOf
  <1> QED BY <1>1, <1>2, <1>3, <1>4, <1>5

\* A file whose pointers and whose indirect block stay has the blocks it had.
LEMMA AtSame ==
  ASSUME NEW f \in File, file'[f].ptr = file[f].ptr,
         Indirect(f) # Null => word'[Indirect(f)] = word[Indirect(f)]
  PROVE  /\ Indirect(f)' = Indirect(f)
         /\ \A s \in Slot : At(f, s)' = At(f, s)
         /\ \A bno \in 0 .. MaxBlocks - 1 : BlockOf(f, bno)' = BlockOf(f, bno)
  <1>1. Indirect(f)' = Indirect(f)
    BY DEF Indirect
  <1>2. \A s \in Slot : At(f, s)' = At(f, s)
    BY <1>1 DEF At
  <1>3. ASSUME NEW bno \in 0 .. MaxBlocks - 1
        PROVE  BlockOf(f, bno)' = BlockOf(f, bno)
    <2>1. SlotOf(bno)' = SlotOf(bno)
      BY DEF SlotOf
    <2>2. SlotOf(bno) \in Slot
      BY Slots
    <2> QED BY <1>2, <2>1, <2>2 DEF BlockOf
  <1> QED BY <1>1, <1>2, <1>3

\* OneOwner for two pointers.
LEMMA OwnerOf ==
  ASSUME OneOwner, NEW f \in File, NEW g \in File, NEW s \in Slot, NEW t \in Slot,
         At(f, s) # Null
  PROVE  At(f, s) \notin bitmap /\ (At(f, s) = At(g, t) => f = g /\ s = t)
  BY DEF OneOwner

LEMMA OwnersNext ==
  ASSUME \A f, g \in File : \A s, t \in Slot :
           At(f, s)' # Null => /\ At(f, s)' \notin bitmap'
                               /\ At(f, s)' = At(g, t)' => f = g /\ s = t
  PROVE  OneOwner'
  BY DEF OneOwner

\* Who gives up pointers keeps OneOwner, as long as what is freed is not
\* pointed to any more.
LEMMA OwnersKept ==
  ASSUME OneOwner,
         \A f \in File : \A s \in Slot :
           At(f, s)' # Null => At(f, s)' = At(f, s) /\ At(f, s) \notin bitmap'
  PROVE  OneOwner'
  <1> SUFFICES ASSUME NEW f \in File, NEW g \in File, NEW s \in Slot, NEW t \in Slot,
                      At(f, s)' # Null
               PROVE  /\ At(f, s)' \notin bitmap'
                      /\ At(f, s)' = At(g, t)' => f = g /\ s = t
    BY OwnersNext
  <1>1. At(f, s)' = At(f, s) /\ At(f, s) \notin bitmap'
    OBVIOUS
  <1>2. At(f, s)' = At(g, t)' => At(g, t)' = At(g, t)
    OBVIOUS
  <1> QED BY <1>1, <1>2, OwnerOf

\* A block that was free becomes that of one pointer.
LEMMA OwnersGiven ==
  ASSUME OneOwner, NEW h \in File, NEW u \in Slot, NEW b \in bitmap, b # Null,
         bitmap' = bitmap \ {b},
         \A f \in File : \A s \in Slot :
           At(f, s)' = IF f = h /\ s = u THEN b ELSE At(f, s)
  PROVE  OneOwner'
  <1> SUFFICES ASSUME NEW f \in File, NEW g \in File, NEW s \in Slot, NEW t \in Slot,
                      At(f, s)' # Null
               PROVE  /\ At(f, s)' \notin bitmap'
                      /\ At(f, s)' = At(g, t)' => f = g /\ s = t
    BY OwnersNext
  <1>1. CASE f = h /\ s = u
    <2>1. At(f, s)' = b
      BY <1>1
    <2>2. At(g, t)' = b => g = h /\ t = u
      BY OwnerOf
    <2> QED BY <1>1, <2>1, <2>2
  <1>2. CASE ~(f = h /\ s = u)
    <2>1. At(f, s)' = At(f, s) /\ At(f, s) \notin bitmap
      BY <1>2, OwnerOf
    <2>2. CASE g = h /\ t = u
      BY <2>1, <2>2
    <2>3. CASE ~(g = h /\ t = u)
      <3>1. At(g, t)' = At(g, t)
        BY <2>3
      <3> QED BY <2>1, <3>1, OwnerOf
    <2> QED BY <2>1, <2>2, <2>3
  <1> QED BY <1>1, <1>2
-----------------------------------------------------------------------------
(***************************************************************************)
(* Each step preserves the invariant.                                      *)
(***************************************************************************)
\* While nothing is under way nothing is being flushed.
LEMMA NotFlushing ==
  ASSUME IInv, flushes = <<>>
  PROVE  flushing = {}
  BY DEF IInv, FlushRight

\* A file stays flushed while neither copy of it changes.
LEMMA FlushedKept ==
  ASSUME TypeOK, FlushedSurvives, flushed' \subseteq flushed,
         \A g \in flushed' \cap File :
           /\ dfile[g] = file[g] => dfile'[g] = file'[g]
           /\ \A s \in Slot : At(g, s)' # Null =>
                /\ At(g, s)' = At(g, s)
                /\ dword[At(g, s)] = word[At(g, s)] => dword'[At(g, s)] = word'[At(g, s)]
  PROVE  FlushedSurvives'
  <1> SUFFICES ASSUME NEW g \in flushed'
               PROVE  /\ dfile'[g] = file'[g]
                      /\ \A s \in Slot : At(g, s)' # Null => dword'[At(g, s)'] = word'[At(g, s)']
    BY DEF FlushedSurvives
  <1>1. g \in flushed /\ g \in flushed' \cap File
    BY DEF TypeOK
  <1>2. /\ dfile[g] = file[g]
        /\ \A s \in Slot : At(g, s) # Null => dword[At(g, s)] = word[At(g, s)]
    BY <1>1 DEF FlushedSurvives
  <1> QED BY <1>1, <1>2

LEMMA CreateStep ==
  ASSUME IInv, NEW f \in File, Create(f)
  PROVE  IInv'
  <1>1. \A g \in File : file'[g].ptr = file[g].ptr /\ file'[g].size = file[g].size
    BY DEF IInv, TypeOK, Structs, Create
  <1>2. \A g \in File :
          /\ \A s \in Slot : At(g, s)' = At(g, s)
          /\ \A bno \in 0 .. MaxBlocks - 1 : BlockOf(g, bno)' = BlockOf(g, bno)
    BY <1>1, AtSame DEF Create
  <1>3. TypeOK'
    <2>1. file' \in [File -> Structs]
      BY DEF IInv, TypeOK, Structs, Create
    <2> QED BY <2>1 DEF IInv, TypeOK, Create
  <1>4. OneOwner'
    BY <1>2, OwnersKept, OwnerOf DEF IInv, Create
  <1>5. FlushedSurvives'
    BY <1>2, FlushedKept DEF IInv, Create
  <1>6. DiskBehind'
    BY DEF IInv, DiskBehind, Create
  <1>7. Inside'
    BY <1>1, <1>2 DEF IInv, Inside
  <1>8. OpRight'
    BY DEF OpRight, Create, Idle
  <1>9. FlushRight'
    BY NotFlushing DEF FlushRight, Create, Idle
  <1> QED BY <1>3, <1>4, <1>5, <1>6, <1>7, <1>8, <1>9 DEF IInv

LEMMA FileReadStep ==
  ASSUME IInv, NEW f \in File, NEW bno \in 0 .. MaxBlocks - 1, FileRead(f, bno),
         bno >= NDIRECT /\ Indirect(f) = Null => FirstIsBlank
  PROVE  IInv'
  <1>0. op' = [f |-> f, bno |-> bno, buf |-> Read] /\ op' \in Ops /\ op' # NoOp
    BY OpAssumption DEF FileRead, Ops
  <1>2. \A g \in File :
          /\ Indirect(g)' = Indirect(g)
          /\ \A s \in Slot : At(g, s)' = At(g, s)
          /\ \A c \in 0 .. MaxBlocks - 1 : BlockOf(g, c)' = BlockOf(g, c)
    BY AtSame DEF FileRead, memory
  <1>3. TypeOK'
    BY <1>0 DEF IInv, TypeOK, FileRead, memory, disk
  <1>4. OneOwner'
    BY <1>2, OwnersKept, OwnerOf DEF IInv, FileRead, memory
  <1>5. FlushedSurvives'
    BY <1>2, FlushedKept DEF IInv, FileRead, memory, disk
  <1>6. DiskBehind'
    BY DEF IInv, DiskBehind, FileRead, memory, disk
  <1>7. Inside'
    BY <1>2 DEF IInv, Inside, FileRead, memory
  <1>8. OpRight'
    <2>1. NeedsIndirect' => FirstIsBlank'
      BY <1>0, <1>2 DEF NeedsIndirect, FirstIsBlank, FileRead, memory
    <2> QED BY <1>0, <2>1, NotFlushing DEF OpRight, FileRead, Idle, memory
  <1>9. FlushRight'
    BY NotFlushing DEF FlushRight, FileRead, Idle
  <1> QED BY <1>3, <1>4, <1>5, <1>6, <1>7, <1>8, <1>9 DEF IInv

LEMMA FileWriteStep ==
  ASSUME IInv, NEW f \in File, NEW bno \in 0 .. MaxBlocks - 1, NEW data \in Data,
         FileWrite(f, bno, data),
         bno >= NDIRECT /\ Indirect(f) = Null => FirstIsBlank
  PROVE  IInv'
  <1>0. op' = [f |-> f, bno |-> bno, buf |-> data] /\ op' \in Ops /\ op' # NoOp
    BY OpAssumption DEF FileWrite, Ops
  <1>1. /\ \A g \in File : file'[g].ptr = file[g].ptr /\ file'[g].size >= file[g].size
        /\ bno < file'[f].size
        /\ file' \in [File -> Structs]
    <2>1. CASE bno < file[f].size
      BY <2>1, AtType, Sizes DEF IInv, TypeOK, FileWrite
    <2>2. CASE bno >= file[f].size
      <3>1. file' = [file EXCEPT ![f].size = bno + 1] /\ bno + 1 \in 0 .. MaxBlocks
        BY <2>2, AtType, Sizes DEF IInv, FileWrite
      <3>2. file' \in [File -> Structs]
        BY <3>1 DEF IInv, TypeOK, Structs
      <3>3. \A g \in File : file'[g].ptr = file[g].ptr /\ (g # f => file'[g].size = file[g].size)
        BY <3>1 DEF IInv, TypeOK, Structs
      <3>4. file'[f].size = bno + 1
        BY <3>1 DEF IInv, TypeOK, Structs
      <3> QED BY <2>2, <3>2, <3>3, <3>4, AtType, Sizes DEF IInv
    <2> QED BY <2>1, <2>2, AtType, Sizes DEF IInv
  <1>2. \A g \in File :
          /\ Indirect(g)' = Indirect(g)
          /\ \A s \in Slot : At(g, s)' = At(g, s)
          /\ \A c \in 0 .. MaxBlocks - 1 : BlockOf(g, c)' = BlockOf(g, c)
    BY <1>1, AtSame DEF FileWrite
  <1>3. TypeOK'
    <2>1. dfile' \in [File -> Structs]
      BY <1>1 DEF IInv, TypeOK, FileWrite
    <2> QED BY <1>0, <1>1, <2>1 DEF IInv, TypeOK, FileWrite
  <1>4. OneOwner'
    BY <1>2, OwnersKept, OwnerOf DEF IInv, FileWrite
  <1>5. FlushedSurvives'
    BY <1>2, FlushedKept DEF IInv, FileWrite
  <1>6. DiskBehind'
    BY DEF IInv, DiskBehind, FileWrite
  <1>7. Inside'
    <2> SUFFICES ASSUME NEW g \in File, NEW c \in 0 .. MaxBlocks - 1, BlockOf(g, c)' # Null
                 PROVE  c < file'[g].size
      BY DEF Inside
    <2>1. c < file[g].size
      BY <1>2 DEF IInv, Inside
    <2>2. file[g].size \in Nat /\ file'[g].size \in Nat
      BY <1>1, Sizes DEF IInv, TypeOK, Structs
    <2> QED BY <1>1, <2>1, <2>2
  <1>8. OpRight'
    <2>1. NeedsIndirect' => FirstIsBlank'
      BY <1>0, <1>2 DEF NeedsIndirect, FirstIsBlank, FileWrite
    <2> QED BY <1>0, <1>1, <2>1, NotFlushing DEF OpRight, FileWrite, Idle
  <1>9. FlushRight'
    BY NotFlushing DEF FlushRight, FileWrite, Idle
  <1> QED BY <1>3, <1>4, <1>5, <1>6, <1>7, <1>8, <1>9 DEF IInv

LEMMA GetBlockFailsStep ==
  ASSUME IInv, GetBlockFails
  PROVE  IInv'
  <1>2. \A g \in File :
          /\ \A s \in Slot : At(g, s)' = At(g, s)
          /\ \A c \in 0 .. MaxBlocks - 1 : BlockOf(g, c)' = BlockOf(g, c)
    BY AtSame DEF GetBlockFails, memory
  <1>3. TypeOK'
    BY DEF IInv, TypeOK, GetBlockFails, memory, disk, ghosts
  <1>4. OneOwner'
    BY <1>2, OwnersKept, OwnerOf DEF IInv, GetBlockFails, memory
  <1>5. FlushedSurvives'
    BY <1>2, FlushedKept DEF IInv, GetBlockFails, memory, disk, ghosts
  <1>6. DiskBehind'
    BY DEF IInv, DiskBehind, GetBlockFails, memory, disk
  <1>7. Inside'
    BY <1>2 DEF IInv, Inside, GetBlockFails, memory
  <1>8. OpRight'
    BY DEF OpRight, GetBlockFails
  <1>9. FlushRight'
    BY NotFlushing DEF FlushRight, GetBlockFails, InOp, ghosts
  <1> QED BY <1>3, <1>4, <1>5, <1>6, <1>7, <1>8, <1>9 DEF IInv

LEMMA MoveStep ==
  ASSUME IInv, Move
  PROVE  IInv'
  <1> DEFINE b == BlockOf(op.f, op.bno)
  <1>0. op \in Ops /\ op.f \in File /\ op.bno \in 0 .. MaxBlocks - 1 /\ op.f \notin flushed
    BY DEF IInv, TypeOK, Move, InOp, Ops, OpRight
  <1>1. b \in Block /\ b = At(op.f, SlotOf(op.bno)) /\ SlotOf(op.bno) \in Slot /\ SlotOf(op.bno) # NDIRECT
    BY <1>0, AtType, Slots DEF IInv, Move, NeedsBlock, BlockOf, Pointer
  <1> HIDE DEF b
  <1>2. \A c \in Block \ {b} : word'[c] = word[c]
    BY DEF IInv, TypeOK, Move, b
  <1>3. \A g \in File : Indirect(g) # b
    <2> SUFFICES ASSUME NEW g \in File, Indirect(g) = b PROVE FALSE
      OBVIOUS
    <2>1. NDIRECT \in Slot /\ At(g, NDIRECT) = b /\ b # Null
      BY <1>1, AtType, Slots, Sizes DEF IInv
    <2> QED BY <1>0, <1>1, <2>1, OwnerOf DEF IInv
  <1>4. \A g \in File :
          /\ \A s \in Slot : At(g, s)' = At(g, s)
          /\ \A c \in 0 .. MaxBlocks - 1 : BlockOf(g, c)' = BlockOf(g, c)
    <2> SUFFICES ASSUME NEW g \in File
                 PROVE  /\ \A s \in Slot : At(g, s)' = At(g, s)
                        /\ \A c \in 0 .. MaxBlocks - 1 : BlockOf(g, c)' = BlockOf(g, c)
      OBVIOUS
    <2>1. Indirect(g) # Null => Indirect(g) \in Block \ {b}
      BY <1>3, AtType DEF IInv, Pointer
    <2>2. file'[g].ptr = file[g].ptr
      BY DEF Move
    <2> QED BY <1>2, <2>1, <2>2, AtSame
  <1>5. TypeOK'
    <2>1. word' \in [Block -> Content]
      <3>1. CASE op.buf = Read
        BY <3>1 DEF IInv, TypeOK, Move, DataAssumption
      <3>2. CASE op.buf # Read
        <4>1. op.buf \in Pointer
          BY <1>0, <3>2, DataAssumption DEF Ops, Pointer
        <4>2. [w \in Word |-> op.buf] \in Content
          BY <4>1 DEF Content
        <4> QED BY <3>2, <4>2 DEF IInv, TypeOK, Move
      <3> QED BY <3>1, <3>2
    <2> QED BY <2>1 DEF IInv, TypeOK, Move, disk, ghosts
  <1>6. OneOwner'
    BY <1>4, OwnersKept, OwnerOf DEF IInv, Move
  <1>7. FlushedSurvives'
    <2> SUFFICES ASSUME NEW g \in flushed, NEW s \in Slot, At(g, s) # Null
                 PROVE  dword[At(g, s)] = word'[At(g, s)]
      BY <1>4 DEF IInv, TypeOK, FlushedSurvives, Move, disk, ghosts
    <2>1. g \in File /\ dword[At(g, s)] = word[At(g, s)]
      BY DEF IInv, TypeOK, FlushedSurvives
    <2>2. At(g, s) \in Block
      BY <2>1, AtType DEF IInv, Pointer
    <2>3. At(g, s) # b
      BY <1>0, <1>1, <2>1, OwnerOf DEF IInv
    <2> QED BY <1>2, <2>1, <2>2, <2>3
  <1>8. DiskBehind'
    BY DEF IInv, DiskBehind, Move, disk
  <1>9. Inside'
    BY <1>4 DEF IInv, Inside, Move
  <1>10. OpRight'
    BY DEF OpRight, Move
  <1>11. FlushRight'
    BY NotFlushing DEF FlushRight, Move, InOp, ghosts
  <1> QED BY <1>5, <1>6, <1>7, <1>8, <1>9, <1>10, <1>11 DEF IInv
LEMMA FileFlushStep ==
  ASSUME IInv, NEW f \in File, FileFlush(f)
  PROVE  IInv'
  <1> DEFINE size == file[f].size
             n    == size + (IF Indirect(f) = Null THEN 1 ELSE 2)
             L(i) == IF i <= size THEN BlockOf(f, i - 1)
                     ELSE IF i = size + 1 THEN Dir ELSE Indirect(f)
  <1>1. /\ size \in 0 .. MaxBlocks /\ n \in Nat \ {0} /\ size + 1 <= n
        /\ flushes' = [i \in 1 .. n |-> L(i)]
    BY AtType, Sizes DEF IInv, FileFlush
  <1>2. \A i \in 1 .. n : L(i) \in {Null, Bitmap, Dir} \cup Block
    <2> SUFFICES ASSUME NEW i \in 1 .. n PROVE L(i) \in {Null, Bitmap, Dir} \cup Block
      OBVIOUS
    <2>1. CASE i <= size
      <3>1. i - 1 \in 0 .. MaxBlocks - 1
        BY <1>1, <2>1, Sizes
      <3> QED BY <2>1, <3>1, AtType DEF IInv, Pointer
    <2>2. CASE i > size
      BY <2>2, AtType DEF IInv, Pointer
    <2> QED BY <1>1, <2>1, <2>2, Sizes
  <1> HIDE DEF L, n
  <1>3. flushes' \in Seq({Null, Bitmap, Dir} \cup Block) /\ flushes' # <<>> /\ Len(flushes') = n
    BY <1>1, <1>2
  <1>4. Flushes' = {L(i) : i \in 1 .. n}
    BY <1>1, <1>3 DEF Flushes
  <1>5. Dir \in Flushes'
    <2>1. size + 1 \in 1 .. n /\ L(size + 1) = Dir
      BY <1>1, Sizes DEF L
    <2> QED BY <1>4, <2>1
  <1>6. ASSUME NEW s \in Slot, At(f, s) # Null PROVE At(f, s) \in Flushes'
    <2>1. CASE s = NDIRECT
      <3>1. Indirect(f) # Null /\ At(f, s) = Indirect(f)
        BY <1>6, <2>1, AtType DEF IInv
      <3>2. size + 2 \in 1 .. n /\ L(size + 2) = Indirect(f)
        BY <1>1, <3>1, Sizes DEF L, n
      <3> QED BY <1>4, <3>1, <3>2
    <2>2. CASE s # NDIRECT
      <3>1. PICK bno \in 0 .. MaxBlocks - 1 : s = SlotOf(bno)
        BY <2>2, Slots
      <3>2. BlockOf(f, bno) = At(f, s) /\ bno < size
        BY <1>6, <3>1 DEF IInv, Inside, BlockOf
      <3>3. bno + 1 \in 1 .. n /\ bno + 1 <= size /\ bno + 1 - 1 = bno
        BY <1>1, <3>2, Sizes
      <3>4. L(bno + 1) = At(f, s)
        BY <3>2, <3>3 DEF L
      <3> QED BY <1>4, <3>3, <3>4
    <2> QED BY <2>1, <2>2
  <1>7. \A g \in File :
          /\ \A s \in Slot : At(g, s)' = At(g, s)
          /\ \A c \in 0 .. MaxBlocks - 1 : BlockOf(g, c)' = BlockOf(g, c)
    BY AtSame DEF FileFlush, memory
  <1>8. TypeOK'
    BY <1>3 DEF IInv, TypeOK, FileFlush, memory, disk
  <1>9. OneOwner'
    BY <1>7, OwnersKept, OwnerOf DEF IInv, FileFlush, memory
  <1>10. FlushedSurvives'
    BY <1>7, FlushedKept DEF IInv, FileFlush, memory, disk
  <1>11. DiskBehind'
    BY DEF IInv, DiskBehind, FileFlush, memory, disk
  <1>12. Inside'
    BY <1>7 DEF IInv, Inside, FileFlush, memory
  <1>13. OpRight'
    BY DEF OpRight, FileFlush, Idle
  <1>14. FlushRight'
    BY <1>3, <1>5, <1>6, <1>7 DEF FlushRight, FileFlush
  <1> QED BY <1>8, <1>9, <1>10, <1>11, <1>12, <1>13, <1>14 DEF IInv

LEMMA FsSyncStep ==
  ASSUME IInv, FsSync
  PROVE  IInv'
  <1> DEFINE n == NBLOCKS - 2
  <1>0. /\ n \in Nat \ {0} /\ flushes' = [i \in 1 .. n |-> i + 1]
        /\ \A i \in 1 .. n : i + 1 \in {Null, Bitmap, Dir} \cup Block
        /\ \A b \in Block \cup {Dir} : b - 1 \in 1 .. n /\ b - 1 + 1 = b
    BY Sizes DEF FsSync, Block, Bitmap, Dir
  <1> HIDE DEF n
  <1>1. flushes' \in Seq({Null, Bitmap, Dir} \cup Block) /\ flushes' # <<>> /\ Len(flushes') = n
    BY <1>0
  <1>2. ASSUME NEW b \in Block \cup {Dir} PROVE b \in Flushes'
    <2>1. b - 1 \in 1 .. n /\ b - 1 + 1 = b
      BY <1>0
    <2>2. flushes'[b - 1] = b
      BY <1>0, <2>1
    <2> QED BY <1>1, <2>1, <2>2 DEF Flushes
  <1>7. \A g \in File :
          /\ \A s \in Slot : At(g, s)' = At(g, s)
          /\ \A c \in 0 .. MaxBlocks - 1 : BlockOf(g, c)' = BlockOf(g, c)
    BY AtSame DEF FsSync, memory
  <1>8. TypeOK'
    BY <1>1 DEF IInv, TypeOK, FsSync, memory, disk
  <1>9. OneOwner'
    BY <1>7, OwnersKept, OwnerOf DEF IInv, FsSync, memory
  <1>10. FlushedSurvives'
    BY <1>7, FlushedKept DEF IInv, FsSync, memory, disk
  <1>11. DiskBehind'
    BY DEF IInv, DiskBehind, FsSync, memory, disk
  <1>12. Inside'
    BY <1>7 DEF IInv, Inside, FsSync, memory
  <1>13. OpRight'
    BY DEF OpRight, FsSync, Idle
  <1>14. FlushRight'
    <2>1. Dir \in Flushes'
      BY <1>2
    <2>2. \A g \in File : \A s \in Slot : At(g, s) # Null => At(g, s) \in Flushes'
      BY <1>2, AtType DEF IInv, Pointer
    <2> QED BY <1>1, <2>1, <2>2, <1>7 DEF FlushRight, FsSync
  <1> QED BY <1>8, <1>9, <1>10, <1>11, <1>12, <1>13, <1>14 DEF IInv

LEMMA FlushBlockStep ==
  ASSUME IInv, FlushBlock
  PROVE  IInv'
  <1> DEFINE b == Head(flushes)
  <1>0. /\ flushes \in Seq({Null, Bitmap, Dir} \cup Block) /\ flushes # <<>>
        /\ Len(flushes) \in Nat \ {0}
        /\ flushes' = Tail(flushes) /\ Len(flushes') = Len(flushes) - 1
        /\ flushes' \in Seq({Null, Bitmap, Dir} \cup Block)
    BY DEF IInv, TypeOK, FlushBlock
  <1>1. Flushes \subseteq {b} \cup Flushes' /\ (Len(flushes) = 1 => Flushes \subseteq {b})
    <2> SUFFICES ASSUME NEW i \in 1 .. Len(flushes), flushes[i] # b
                 PROVE  flushes[i] \in Flushes' /\ Len(flushes) # 1
      BY DEF Flushes
    <2>1. i # 1
      BY <1>0
    <2>2. i - 1 \in 1 .. Len(flushes') /\ flushes'[i - 1] = flushes[i]
      BY <1>0, <2>1
    <2>3. flushes[i] \in Flushes'
      BY <2>2 DEF Flushes
    <2> QED BY <1>0, <2>1, <2>3
  <1> HIDE DEF b
  <1>2. /\ dfile' = IF b = Dir THEN file ELSE dfile
        /\ dbitmap' = IF b = Bitmap THEN bitmap ELSE dbitmap
        /\ dword' = [c \in Block |-> IF c = b THEN word[c] ELSE dword[c]]
        /\ UNCHANGED <<bitmap, file, word, op>>
    BY DEF FlushBlock, memory, b
  <1>3. /\ flushed' = IF Len(flushes) = 1 THEN flushed \cup flushing ELSE flushed
        /\ flushing' = IF Len(flushes) = 1 THEN {} ELSE flushing
    BY DEF FlushBlock
  <1>7. \A g \in File :
          /\ Indirect(g)' = Indirect(g)
          /\ \A s \in Slot : At(g, s)' = At(g, s)
          /\ \A c \in 0 .. MaxBlocks - 1 : BlockOf(g, c)' = BlockOf(g, c)
    BY <1>2, AtSame
  <1>8. TypeOK'
    BY <1>0, <1>2, <1>3 DEF IInv, TypeOK
  <1>9. OneOwner'
    BY <1>2, <1>7, OwnersKept, OwnerOf DEF IInv
  <1>10. FlushedSurvives'
    <2> SUFFICES ASSUME NEW g \in flushed'
                 PROVE  /\ dfile'[g] = file'[g]
                        /\ \A s \in Slot : At(g, s)' # Null => dword'[At(g, s)'] = word'[At(g, s)']
      BY DEF FlushedSurvives
    <2>0. g \in File /\ \A s \in Slot : At(g, s) # Null => At(g, s) \in Block
      BY <1>3, AtType DEF IInv, TypeOK, Pointer
    <2>1. /\ dfile[g] = file[g] \/ b = Dir
          /\ \A s \in Slot : At(g, s) # Null => dword[At(g, s)] = word[At(g, s)] \/ At(g, s) = b
      <3>1. CASE g \in flushed
        BY <3>1 DEF IInv, FlushedSurvives
      <3>2. CASE g \in flushing /\ Len(flushes) = 1
        BY <1>1, <3>2 DEF IInv, FlushRight
      <3> QED BY <1>3, <3>1, <3>2
    <2> QED BY <1>2, <1>7, <2>0, <2>1
  <1>11. DiskBehind'
    BY <1>2 DEF IInv, DiskBehind
  <1>12. Inside'
    BY <1>2, <1>7 DEF IInv, Inside
  <1>13. OpRight'
    <2> SUFFICES ASSUME op # NoOp
                 PROVE  /\ op.bno < file[op.f].size
                        /\ NeedsIndirect' => FirstIsBlank'
                        /\ op.f \notin flushed' /\ flushing' = {}
      BY <1>2 DEF OpRight
    <2>1. op.f \in File
      BY DEF IInv, TypeOK, Ops
    <2>2. NeedsIndirect' => NeedsIndirect
      BY <1>2, <1>7, <2>1 DEF NeedsIndirect
    <2>3. FirstIsBlank => FirstIsBlank'
      BY <1>2 DEF FirstIsBlank
    <2> QED BY <1>3, <2>2, <2>3 DEF IInv, OpRight
  <1>14. FlushRight'
    <2>1. flushes' = <<>> => flushing' = {}
      <3>1. flushes' = <<>> => Len(flushes') = 0
        OBVIOUS
      <3>2. Len(flushes') = 0 => Len(flushes) = 1
        BY <1>0
      <3> QED BY <1>3, <3>1, <3>2
    <2>2. ASSUME NEW g \in flushing'
          PROVE  /\ dfile'[g] = file'[g] \/ Dir \in Flushes'
                 /\ \A s \in Slot : At(g, s)' # Null =>
                      dword'[At(g, s)'] = word'[At(g, s)'] \/ At(g, s)' \in Flushes'
      <3>1. g \in flushing /\ g \in File
        BY <1>3 DEF IInv, TypeOK
      <3>2. /\ dfile[g] = file[g] \/ Dir \in Flushes
            /\ \A s \in Slot : At(g, s) # Null =>
                 dword[At(g, s)] = word[At(g, s)] \/ At(g, s) \in Flushes
        BY <3>1 DEF IInv, FlushRight
      <3>3. \A s \in Slot : At(g, s) # Null => At(g, s) \in Block
        BY <3>1, AtType DEF IInv, Pointer
      <3> QED BY <1>1, <1>2, <1>7, <3>1, <3>2, <3>3
    <2> QED BY <2>1, <2>2 DEF FlushRight
  <1> QED BY <1>8, <1>9, <1>10, <1>11, <1>12, <1>13, <1>14 DEF IInv

LEMMA CrashStep ==
  ASSUME IInv, AllSmall \/ Synced, Crash
  PROVE  IInv'
  <1>1. \A g \in File : \A i \in 0 .. NDIRECT :
          file'[g].ptr[i] = dfile[g].ptr[i] /\ file'[g].ptr[i] \in {Null, At(g, i)}
    BY AtType DEF IInv, DiskBehind, Crash
  <1>2. \A g \in File : \A s \in Slot : At(g, s)' \in {Null, At(g, s)}
    <2> SUFFICES ASSUME NEW g \in File, NEW s \in Slot PROVE At(g, s)' \in {Null, At(g, s)}
      OBVIOUS
    <2>1. CASE Synced
      BY <2>1, AtSame DEF Synced, Crash
    <2>2. CASE AllSmall
      <3>1. Indirect(g)' = Null
        BY <2>2, <1>1, Sizes DEF AllSmall, Indirect, Crash
      <3>2. CASE s <= NDIRECT
        <4>1. At(g, s)' = file'[g].ptr[s]
          BY <3>2 DEF At
        <4> QED BY <1>1, <3>2, <4>1, Slots, Sizes
      <3>3. CASE s > NDIRECT
        BY <3>1, <3>3, Slots, Sizes DEF At
      <3> QED BY <3>2, <3>3, Slots, Sizes
    <2> QED BY <2>1, <2>2
  <1>3. \A g \in File : file'[g].size = file[g].size
    BY DEF IInv, DiskBehind, Crash
  <1>8. TypeOK'
    BY DEF IInv, TypeOK, Crash, disk
  <1>9. OneOwner'
    BY <1>2, OwnersKept, OwnerOf DEF IInv, DiskBehind, Crash
  <1>10. FlushedSurvives'
    BY DEF FlushedSurvives, Crash, disk
  <1>11. DiskBehind'
    BY DEF DiskBehind, Crash, disk
  <1>12. Inside'
    <2> SUFFICES ASSUME NEW g \in File, NEW c \in 0 .. MaxBlocks - 1, BlockOf(g, c)' # Null
                 PROVE  c < file'[g].size
      BY DEF Inside
    <2>1. SlotOf(c) \in Slot /\ BlockOf(g, c)' = At(g, SlotOf(c))'
      BY Slots DEF BlockOf
    <2>2. At(g, SlotOf(c))' \in {Null, At(g, SlotOf(c))}
      <3>1. SlotOf(c)' = SlotOf(c)
        BY DEF SlotOf
      <3> QED BY <1>2, <2>1, <3>1
    <2>3. BlockOf(g, c) # Null
      BY <2>1, <2>2 DEF BlockOf
    <2> QED BY <1>3, <2>3 DEF IInv, Inside
  <1>13. OpRight'
    BY DEF OpRight, Crash
  <1>14. FlushRight'
    BY DEF FlushRight, Crash
  <1> QED BY <1>8, <1>9, <1>10, <1>11, <1>12, <1>13, <1>14 DEF IInv

LEMMA SetSizeStep ==
  ASSUME IInv, NEW f \in File, NEW size \in 0 .. MaxBlocks, SetSize(f, size)
  PROVE  IInv'
  <1>1. CASE size < file[f].size /\ TruncateBlocks(f, size)
    <2> DEFINE ptr == [s \in 0 .. NDIRECT |-> IF Goes(f, size, s) THEN Null ELSE file[f].ptr[s]]
    <2>1. /\ file' = [file EXCEPT ![f] = [file[f] EXCEPT !.size = size, !.ptr = ptr]]
          /\ file' \in [File -> Structs]
      <3>1. file' = [file EXCEPT ![f] = [file[f] EXCEPT !.size = size, !.ptr = ptr]]
        BY <1>1 DEF TruncateBlocks
      <3>2. ptr \in [0 .. NDIRECT -> Pointer]
        BY AtType DEF IInv, Pointer
      <3> HIDE DEF ptr
      <3>3. [file[f] EXCEPT !.size = size, !.ptr = ptr] \in Structs
        BY <3>2 DEF IInv, TypeOK, Structs
      <3> QED BY <3>1, <3>3 DEF IInv, TypeOK
    <2>2. /\ file'[f].size = size
          /\ \A g \in File \ {f} : file'[g] = file[g]
          /\ \A s \in 0 .. NDIRECT : file'[f].ptr[s] = IF Goes(f, size, s) THEN Null ELSE At(f, s)
      <3>1. file'[f] = [file[f] EXCEPT !.size = size, !.ptr = ptr]
        BY <2>1 DEF IInv, TypeOK
      <3>2. file'[f].size = size /\ file'[f].ptr = ptr
        BY <3>1 DEF IInv, TypeOK, Structs
      <3> QED BY <2>1, <3>2, AtType DEF IInv, TypeOK
    <2> HIDE DEF ptr
    <2>3. /\ \A c \in Block \ {Indirect(f)} : word'[c] = word[c]
          /\ Indirect(f) # Null => \A w \in Word :
               word'[Indirect(f)][w] = IF Goes(f, size, w + NDIRECT + 1) THEN Null
                                       ELSE word[Indirect(f)][w]
          /\ word' \in [Block -> Content]
      <3>1. CASE Indirect(f) = Null
        BY <1>1, <3>1 DEF IInv, TypeOK, TruncateBlocks
      <3>2. CASE Indirect(f) # Null
        <4> DEFINE new == [w \in Word |-> IF Goes(f, size, w + NDIRECT + 1) THEN Null
                                          ELSE word[Indirect(f)][w]]
        <4>1. Indirect(f) \in Block
          BY <3>2, AtType DEF IInv, Pointer
        <4>2. word' = [word EXCEPT ![Indirect(f)] = new]
          BY <1>1, <3>2 DEF TruncateBlocks
        <4>3. new \in Content
          BY <4>1 DEF IInv, TypeOK, Content, Pointer
        <4> QED BY <4>1, <4>2, <4>3 DEF IInv, TypeOK
      <3> QED BY <3>1, <3>2
    <2>4. ASSUME NEW g \in File \ {f}, NEW s \in Slot, At(g, s) # Null
          PROVE  At(g, s) # Indirect(f) /\ At(g, s) \in Block
      BY <2>4, AtType, Slots, OwnerOf, Sizes DEF IInv, Pointer
    <2>5. ASSUME NEW g \in File \ {f}
          PROVE  /\ \A s \in Slot : At(g, s)' = At(g, s)
                 /\ \A c \in 0 .. MaxBlocks - 1 : BlockOf(g, c)' = BlockOf(g, c)
      <3>1. Indirect(g) # Null => word'[Indirect(g)] = word[Indirect(g)]
        BY <2>3, <2>4, AtType, Slots, Sizes DEF IInv
      <3> QED BY <2>2, <3>1, AtSame
    <2>6. ASSUME NEW s \in Slot, At(f, s)' # Null
          PROVE  At(f, s)' = At(f, s) /\ ~Goes(f, size, s)
      <3>1. CASE s <= NDIRECT
        <4>1. At(f, s)' = file'[f].ptr[s]
          BY <3>1 DEF At
        <4> QED BY <2>2, <2>6, <3>1, <4>1, Slots, Sizes
      <3>2. CASE s > NDIRECT
        <4> DEFINE w == s - NDIRECT - 1
        <4>1. w \in Word /\ w + NDIRECT + 1 = s
          BY <3>2, Slots, Sizes
        <4>2. Indirect(f)' # Null /\ At(f, s)' = word'[Indirect(f)'][w]
          BY <2>6, <3>2, Slots, Sizes DEF At
        <4>3. Indirect(f)' = Indirect(f)
          BY <2>2, <4>2, AtType, Sizes DEF Indirect, IInv
        <4>4. At(f, s) = word[Indirect(f)][w]
          BY <3>2, <4>2, <4>3, Slots, Sizes DEF At
        <4> HIDE DEF w
        <4> QED BY <2>3, <2>6, <4>1, <4>2, <4>3, <4>4
      <3> QED BY <3>1, <3>2, Slots, Sizes
    <2>7. bitmap' = bitmap \cup ({At(f, t) : t \in {u \in Slot : Goes(f, size, u)}} \ {Null})
      BY <1>1 DEF TruncateBlocks
    <2>8. TypeOK'
      <3>1. bitmap' \subseteq Block
        BY <2>7, AtType DEF IInv, TypeOK, Pointer
      <3> QED BY <2>1, <2>3, <3>1 DEF IInv, TypeOK, SetSize
    <2>9. OneOwner'
      <3> SUFFICES ASSUME NEW g \in File, NEW s \in Slot, At(g, s)' # Null
                   PROVE  At(g, s)' = At(g, s) /\ At(g, s) \notin bitmap'
        BY OwnersKept DEF IInv
      <3>1. At(g, s)' = At(g, s) /\ At(g, s) # Null /\ (g = f => ~Goes(f, size, s))
        BY <2>5, <2>6
      <3>2. At(g, s) \notin bitmap
        BY <3>1, OwnerOf DEF IInv
      <3>3. ASSUME NEW t \in Slot, Goes(f, size, t), At(g, s) = At(f, t) PROVE FALSE
        BY <3>1, <3>3, OwnerOf DEF IInv
      <3> QED BY <2>7, <3>1, <3>2, <3>3
    <2>10. FlushedSurvives'
      <3> SUFFICES ASSUME NEW g \in flushed' \cap File
                   PROVE  /\ dfile'[g] = file'[g]
                          /\ \A s \in Slot : At(g, s)' # Null =>
                               /\ At(g, s)' = At(g, s)
                               /\ dword[At(g, s)] = word[At(g, s)] => dword'[At(g, s)] = word'[At(g, s)]
        BY FlushedKept DEF IInv, SetSize
      <3>1. g \in File \ {f} /\ dfile' = file' /\ dword' = dword
        BY DEF SetSize
      <3> QED BY <2>3, <2>4, <2>5, <3>1
    <2>11. DiskBehind'
      BY <2>7 DEF IInv, DiskBehind, SetSize
    <2>12. Inside'
      <3> SUFFICES ASSUME NEW g \in File, NEW c \in 0 .. MaxBlocks - 1, BlockOf(g, c)' # Null
                   PROVE  c < file'[g].size
        BY DEF Inside
      <3>1. CASE g # f
        BY <2>2, <2>5, <3>1 DEF IInv, Inside
      <3>2. CASE g = f
        <4>1. SlotOf(c) \in Slot /\ BlockOf(f, c)' = At(f, SlotOf(c))'
          BY Slots DEF BlockOf
        <4>2. At(f, SlotOf(c))' = At(f, SlotOf(c)) /\ ~Goes(f, size, SlotOf(c))
          <5>1. SlotOf(c)' = SlotOf(c)
            BY DEF SlotOf
          <5> QED BY <2>6, <3>2, <4>1, <5>1
        <4>3. c < file[f].size
          BY <3>2, <4>1, <4>2 DEF IInv, Inside, BlockOf
        <4>4. c \notin size .. file[f].size - 1
          BY <4>2 DEF Goes
        <4> QED BY <2>2, <3>2, <4>3, <4>4, AtType, Sizes DEF IInv
      <3> QED BY <3>1, <3>2
    <2>13. OpRight' /\ FlushRight'
      BY NotFlushing DEF OpRight, FlushRight, SetSize, Idle
    <2> QED BY <2>8, <2>9, <2>10, <2>11, <2>12, <2>13 DEF IInv
  <1>2. CASE size >= file[f].size /\ file' = [file EXCEPT ![f].size = size] /\ UNCHANGED <<bitmap, word>>
    <2>1. /\ \A g \in File : file'[g].ptr = file[g].ptr
          /\ \A g \in File \ {f} : file'[g] = file[g]
          /\ file'[f].size = size
          /\ file' \in [File -> Structs]
      BY <1>2 DEF IInv, TypeOK, Structs
    <2>2. \A g \in File :
            /\ \A s \in Slot : At(g, s)' = At(g, s)
            /\ \A c \in 0 .. MaxBlocks - 1 : BlockOf(g, c)' = BlockOf(g, c)
      BY <1>2, <2>1, AtSame
    <2>3. TypeOK'
      BY <1>2, <2>1 DEF IInv, TypeOK, SetSize
    <2>4. OneOwner'
      BY <1>2, <2>2, OwnersKept, OwnerOf DEF IInv
    <2>5. FlushedSurvives'
      BY <1>2, <2>2, FlushedKept DEF IInv, SetSize
    <2>6. DiskBehind'
      BY <1>2 DEF IInv, DiskBehind, SetSize
    <2>7. Inside'
      <3> SUFFICES ASSUME NEW g \in File, NEW c \in 0 .. MaxBlocks - 1, BlockOf(g, c)' # Null
                   PROVE  c < file'[g].size
        BY DEF Inside
      <3>1. c < file[g].size
        BY <2>2 DEF IInv, Inside
      <3> QED BY <1>2, <2>1, <3>1, AtType, Sizes DEF IInv
    <2>8. OpRight' /\ FlushRight'
      BY NotFlushing DEF OpRight, FlushRight, SetSize, Idle
    <2> QED BY <2>3, <2>4, <2>5, <2>6, <2>7, <2>8 DEF IInv
  <1> QED BY <1>1, <1>2 DEF SetSize

LEMMA AllocIndirectStep ==
  ASSUME IInv, NEW b \in Block, AllocIndirect(b)
  PROVE  IInv'
  <1>h. PICK h \in File : h = op.f
    BY DEF IInv, TypeOK, Ops, AllocIndirect, InOp
  <1>0. /\ op # NoOp /\ h \in File /\ op.bno >= NDIRECT /\ Indirect(h) = Null
        /\ b \in bitmap /\ b # Null /\ bitmap' = bitmap \ {b} /\ dbitmap' = bitmap'
        /\ word[b] = Blank
        /\ op.bno < file[h].size /\ h \notin flushed /\ flushing = {}
    BY <1>h, Sizes DEF IInv, TypeOK, Ops, AllocIndirect, InOp, NeedsIndirect, AllocBlock, OpRight, FirstIsBlank
  <1>a. file' = [file EXCEPT ![h].ptr[NDIRECT] = b] /\ word' = word
    BY <1>h DEF AllocIndirect
  <1>1. /\ \A g \in File \ {h} : file'[g] = file[g]
        /\ file'[h].size = file[h].size
        /\ file'[h].ptr = [file[h].ptr EXCEPT ![NDIRECT] = b]
        /\ file' \in [File -> Structs]
    <2>1. file[h].ptr \in [0 .. NDIRECT -> Pointer]
      BY DEF IInv, TypeOK, Structs
    <2> DEFINE ptr == [file[h].ptr EXCEPT ![NDIRECT] = b]
    <2>2. ptr \in [0 .. NDIRECT -> Pointer]
      BY <2>1 DEF Pointer
    <2>3. file' = [file EXCEPT ![h] = [file[h] EXCEPT !.ptr = ptr]]
      BY <1>a
    <2> HIDE DEF ptr
    <2>4. [file[h] EXCEPT !.ptr = ptr] \in Structs
      BY <2>2 DEF IInv, TypeOK, Structs
    <2>5. file'[h] = [file[h] EXCEPT !.ptr = ptr]
      BY <2>3 DEF IInv, TypeOK
    <2>6. file'[h].size = file[h].size /\ file'[h].ptr = ptr
      BY <2>5 DEF IInv, TypeOK, Structs
    <2>7. file' \in [File -> Structs] /\ \A g \in File \ {h} : file'[g] = file[g]
      BY <2>3, <2>4 DEF IInv, TypeOK
    <2> QED BY <2>6, <2>7 DEF ptr
  <1>2. ASSUME NEW g \in File \ {h}
        PROVE  \A s \in Slot : At(g, s)' = At(g, s)
    BY <1>a, <1>1, AtSame
  <1>3. Indirect(h)' = b /\ \A i \in 0 .. NDIRECT - 1 : file'[h].ptr[i] = file[h].ptr[i]
    <2>1. file[h].ptr \in [0 .. NDIRECT -> Pointer]
      BY <1>0 DEF IInv, TypeOK, Structs
    <2>2. NDIRECT \in 0 .. NDIRECT /\ \A i \in 0 .. NDIRECT - 1 : i \in 0 .. NDIRECT /\ i # NDIRECT
      BY Sizes
    <2> HIDE DEF IInv
    <2>3. file'[h].ptr[NDIRECT] = b /\ \A i \in 0 .. NDIRECT - 1 : file'[h].ptr[i] = file[h].ptr[i]
      BY <1>1, <2>1, <2>2
    <2> QED BY <2>3 DEF Indirect
  <1>4. ASSUME NEW s \in Slot PROVE At(h, s)' = IF s = NDIRECT THEN b ELSE At(h, s)
    <2>1. CASE s < NDIRECT
      <3>1. s \in 0 .. NDIRECT - 1 /\ s <= NDIRECT /\ s # NDIRECT
        BY <2>1, Slots, Sizes
      <3>2. At(h, s)' = file'[h].ptr[s] /\ At(h, s) = file[h].ptr[s]
        BY <3>1 DEF At
      <3> QED BY <1>3, <3>1, <3>2
    <2>2. CASE s = NDIRECT
      BY <1>3, <2>2, Sizes DEF At, Indirect
    <2>3. CASE s > NDIRECT
      <3>1. At(h, s) = Null
        BY <1>0, <2>3, Slots, Sizes DEF At
      <3>2. At(h, s)' = word[b][s - NDIRECT - 1]
        BY <1>0, <1>a, <1>3, <2>3, Slots, Sizes DEF At
      <3>3. word[b][s - NDIRECT - 1] = Null
        BY <1>0, <2>3, Slots DEF Blank
      <3> QED BY <2>3, <3>1, <3>2, <3>3, Slots, Sizes
    <2> QED BY <2>1, <2>2, <2>3, Slots, Sizes
  <1>5. \A g \in File : \A c \in 0 .. MaxBlocks - 1 : BlockOf(g, c)' = BlockOf(g, c)
    <2> SUFFICES ASSUME NEW g \in File, NEW c \in 0 .. MaxBlocks - 1
                 PROVE  BlockOf(g, c)' = BlockOf(g, c)
      OBVIOUS
    <2>1. SlotOf(c)' = SlotOf(c) /\ SlotOf(c) \in Slot /\ SlotOf(c) # NDIRECT
      BY Slots DEF SlotOf
    <2>2. BlockOf(g, c)' = At(g, SlotOf(c))'
      BY DEF BlockOf
    <2>3. At(g, SlotOf(c))' = At(g, SlotOf(c))
      <3>1. CASE g = h
        BY <1>4, <2>1, <3>1
      <3>2. CASE g # h
        BY <1>2, <2>1, <3>2
      <3> QED BY <3>1, <3>2
    <2> QED BY <2>2, <2>3 DEF BlockOf
  <1>6. ASSUME NEW g \in File, NEW s \in Slot
        PROVE  At(g, s)' = IF g = h /\ s = NDIRECT THEN b ELSE At(g, s)
    <2>1. CASE g = h
      BY <1>4, <2>1
    <2>2. CASE g # h
      BY <1>2, <2>2
    <2> QED BY <2>1, <2>2
  <1>7. TypeOK'
    <2>1. flushes' \in Seq({Null, Bitmap, Dir} \cup Block)
      BY DEF AllocIndirect
    <2> QED BY <1>0, <1>1, <2>1 DEF IInv, TypeOK, AllocIndirect, ghosts
  <1>8. OneOwner'
    BY <1>0, <1>6, OwnersGiven, Slots, Sizes DEF IInv
  <1>9. FlushedSurvives'
    BY <1>0, <1>1, <1>2, FlushedKept DEF IInv, AllocIndirect, ghosts
  <1>10. DiskBehind'
    <2>1. \A i \in 0 .. NDIRECT : dfile[h].ptr[i] \in {Null, file'[h].ptr[i]}
      <3>1. dfile[h].ptr[NDIRECT] = Null
        BY <1>0, Sizes DEF IInv, DiskBehind, Indirect
      <3> QED BY <1>0, <1>3, <3>1, Sizes DEF IInv, DiskBehind
    <2>2. dfile' = dfile /\ dbitmap' \subseteq bitmap'
      BY <1>0 DEF AllocIndirect
    <2>3. ASSUME NEW g \in File
          PROVE  /\ dfile[g].size = file'[g].size
                 /\ \A i \in 0 .. NDIRECT : dfile[g].ptr[i] \in {Null, file'[g].ptr[i]}
      <3>1. CASE g = h
        BY <1>1, <2>1, <3>1 DEF IInv, DiskBehind
      <3>2. CASE g # h
        BY <1>1, <3>2 DEF IInv, DiskBehind
      <3> QED BY <3>1, <3>2
    <2> QED BY <2>2, <2>3 DEF DiskBehind
  <1>11. Inside'
    BY <1>1, <1>5 DEF IInv, Inside
  <1>12. OpRight'
    BY <1>h, <1>0, <1>1, <1>3 DEF OpRight, NeedsIndirect, AllocIndirect, ghosts
  <1>13. FlushRight'
    BY <1>0 DEF FlushRight, AllocIndirect, ghosts
  <1> QED BY <1>7, <1>8, <1>9, <1>10, <1>11, <1>12, <1>13 DEF IInv

LEMMA GetBlockStep ==
  ASSUME IInv, NEW b \in Block, GetBlock(b)
  PROVE  IInv'
  <1>h. PICK h \in File, c \in 0 .. MaxBlocks - 1 : h = op.f /\ c = op.bno
    BY DEF IInv, TypeOK, Ops, GetBlock, InOp
  <1>0. /\ op # NoOp /\ op' = op /\ ~NeedsIndirect /\ BlockOf(h, c) = Null
        /\ b \in bitmap /\ b # Null /\ bitmap' = bitmap \ {b} /\ dbitmap' = bitmap'
        /\ c < file[h].size /\ h \notin flushed /\ flushing = {}
        /\ dfile' = dfile /\ dword' = dword /\ flushes' = <<b>>
        /\ flushed' = flushed /\ flushing' = {}
    BY <1>h, Sizes DEF IInv, GetBlock, InOp, NeedsBlock, AllocBlock, OpRight, ghosts
  <1>1. SlotOf(c) \in Slot /\ SlotOf(c) # NDIRECT /\ At(h, SlotOf(c)) = Null
    BY <1>0, Slots DEF BlockOf
  <1>a. /\ \A g \in File \ {h} : file'[g] = file[g]
        /\ file'[h].size = file[h].size
        /\ \A i \in 0 .. NDIRECT :
             file'[h].ptr[i] = IF i = SlotOf(c) THEN b ELSE file[h].ptr[i]
        /\ file' \in [File -> Structs]
    <2>1. CASE c < NDIRECT /\ file' = [file EXCEPT ![h].ptr[c] = b]
      <3>1. file[h].ptr \in [0 .. NDIRECT -> Pointer] /\ c \in 0 .. NDIRECT /\ SlotOf(c) = c
        BY <2>1, Sizes DEF IInv, TypeOK, Structs, SlotOf
      <3> DEFINE ptr == [file[h].ptr EXCEPT ![c] = b]
      <3>2. ptr \in [0 .. NDIRECT -> Pointer]
        BY <3>1 DEF Pointer
      <3>3. \A i \in 0 .. NDIRECT : ptr[i] = IF i = c THEN b ELSE file[h].ptr[i]
        BY <3>1
      <3>4. file' = [file EXCEPT ![h] = [file[h] EXCEPT !.ptr = ptr]]
        BY <2>1
      <3> HIDE DEF ptr
      <3>5. [file[h] EXCEPT !.ptr = ptr] \in Structs
        BY <3>2 DEF IInv, TypeOK, Structs
      <3>6. file'[h] = [file[h] EXCEPT !.ptr = ptr]
        BY <3>4 DEF IInv, TypeOK
      <3>7. file'[h].size = file[h].size /\ file'[h].ptr = ptr
        BY <3>6 DEF IInv, TypeOK, Structs
      <3>8. file' \in [File -> Structs] /\ \A g \in File \ {h} : file'[g] = file[g]
        BY <3>4, <3>5 DEF IInv, TypeOK
      <3> QED BY <3>1, <3>3, <3>7, <3>8
    <2>2. CASE c >= NDIRECT /\ file' = file
      <3>1. \A i \in 0 .. NDIRECT : i # SlotOf(c)
        BY <2>2, Sizes DEF SlotOf
      <3> QED BY <2>2, <3>1 DEF IInv, TypeOK
    <2> QED BY <1>h, <2>1, <2>2 DEF GetBlock
  <1>b. \A g \in File : Indirect(g)' = Indirect(g)
    <2> SUFFICES ASSUME NEW g \in File PROVE Indirect(g)' = Indirect(g)
      OBVIOUS
    <2>1. CASE g = h
      BY <1>1, <1>a, <2>1, Sizes DEF Indirect
    <2>2. CASE g # h
      BY <1>a, <2>2 DEF Indirect
    <2> QED BY <2>1, <2>2
  <1>c. /\ word' \in [Block -> Content]
        /\ \A d \in Block : d # Indirect(h) => word'[d] = word[d]
        /\ Indirect(h) # Null => \A w \in Word :
             word'[Indirect(h)][w] = IF w + NDIRECT + 1 = SlotOf(c) THEN b ELSE word[Indirect(h)][w]
    <2>1. CASE c < NDIRECT /\ word' = word
      <3>1. \A w \in Word : w + NDIRECT + 1 # SlotOf(c)
        BY <2>1, Sizes DEF SlotOf, Word
      <3> QED BY <2>1, <3>1 DEF IInv, TypeOK
    <2>2. CASE c >= NDIRECT /\ word' = [word EXCEPT ![Indirect(h)][c - NDIRECT] = b]
      <3>1. Indirect(h) \in Block
        BY <1>h, <1>0, <2>2, AtType DEF IInv, NeedsIndirect, Pointer
      <3>2. /\ c - NDIRECT \in Word
            /\ \A w \in Word : w + NDIRECT + 1 = SlotOf(c) <=> w = c - NDIRECT
        BY <2>2, Sizes DEF SlotOf, Word, MaxBlocks
      <3> DEFINE new == [word[Indirect(h)] EXCEPT ![c - NDIRECT] = b]
      <3>3. word[Indirect(h)] \in [Word -> Pointer]
        BY <3>1 DEF IInv, TypeOK, Content
      <3>4. new \in [Word -> Pointer] /\ \A w \in Word : new[w] = IF w = c - NDIRECT THEN b ELSE word[Indirect(h)][w]
        BY <3>2, <3>3 DEF Pointer
      <3>5. word' = [word EXCEPT ![Indirect(h)] = new]
        BY <2>2
      <3> HIDE DEF new
      <3>6. word' \in [Block -> Content] /\ word'[Indirect(h)] = new
        BY <3>1, <3>4, <3>5 DEF IInv, TypeOK, Content
      <3>7. \A d \in Block : d # Indirect(h) => word'[d] = word[d]
        BY <3>1, <3>5 DEF IInv, TypeOK
      <3> QED BY <3>2, <3>4, <3>6, <3>7
    <2> QED BY <1>h, <2>1, <2>2 DEF GetBlock
  <1>d. ASSUME NEW g \in File \ {h}, NEW s \in Slot, At(g, s) # Null
        PROVE  At(g, s) # Indirect(h) /\ At(g, s) \in Block
    BY <1>d, AtType, Slots, OwnerOf, Sizes DEF IInv, Pointer
  <1>2. ASSUME NEW g \in File \ {h}
        PROVE  \A s \in Slot : At(g, s)' = At(g, s)
    <2>1. Indirect(g) # Null => word'[Indirect(g)] = word[Indirect(g)]
      BY <1>c, <1>d, AtType, Slots, Sizes DEF IInv
    <2> QED BY <1>a, <2>1, AtSame
  <1>3. ASSUME NEW s \in Slot
        PROVE  At(h, s)' = IF s = SlotOf(c) THEN b ELSE At(h, s)
    <2>1. CASE s <= NDIRECT
      <3>1. s \in 0 .. NDIRECT
        BY <2>1, Slots, Sizes
      <3>2. At(h, s)' = file'[h].ptr[s] /\ At(h, s) = file[h].ptr[s]
        BY <2>1 DEF At
      <3> QED BY <1>a, <3>1, <3>2
    <2>2. CASE s > NDIRECT
      <3>0. ~(s <= NDIRECT)
        BY <2>2, Slots, Sizes
      <3>1. CASE Indirect(h) = Null
        <4>1. c < NDIRECT
          BY <1>h, <1>0, <3>1, Sizes DEF NeedsIndirect
        <4>2. s # SlotOf(c)
          BY <2>2, <4>1, Slots, Sizes DEF SlotOf
        <4>3. At(h, s)' = Null /\ At(h, s) = Null
          BY <1>b, <3>0, <3>1 DEF At
        <4> QED BY <4>2, <4>3
      <3>2. CASE Indirect(h) # Null
        <4>1. s - NDIRECT - 1 \in Word /\ (s - NDIRECT - 1) + NDIRECT + 1 = s
          BY <2>2, Slots, Sizes
        <4>2. At(h, s)' = word'[Indirect(h)][s - NDIRECT - 1] /\ At(h, s) = word[Indirect(h)][s - NDIRECT - 1]
          BY <1>b, <3>0, <3>2 DEF At
        <4> QED BY <1>c, <3>2, <4>1, <4>2
      <3> QED BY <3>1, <3>2
    <2> QED BY <2>1, <2>2, Slots, Sizes
  <1>4. ASSUME NEW g \in File, NEW s \in Slot
        PROVE  At(g, s)' = IF g = h /\ s = SlotOf(c) THEN b ELSE At(g, s)
    <2>1. CASE g = h
      BY <1>3, <2>1
    <2>2. CASE g # h
      BY <1>2, <2>2
    <2> QED BY <2>1, <2>2
  <1>5. TypeOK'
    <2>1. flushes' \in Seq({Null, Bitmap, Dir} \cup Block)
      BY <1>0
    <2> QED BY <1>0, <1>a, <1>c, <2>1 DEF IInv, TypeOK
  <1>6. OneOwner'
    BY <1>0, <1>1, <1>4, OwnersGiven DEF IInv
  <1>7. FlushedSurvives'
    <2> SUFFICES ASSUME NEW g \in flushed' \cap File
                 PROVE  /\ dfile[g] = file[g] => dfile'[g] = file'[g]
                        /\ \A s \in Slot : At(g, s)' # Null =>
                             /\ At(g, s)' = At(g, s)
                             /\ dword[At(g, s)] = word[At(g, s)] => dword'[At(g, s)] = word'[At(g, s)]
      BY <1>0, FlushedKept DEF IInv
    <2>1. g \in File \ {h}
      BY <1>0
    <2> QED BY <1>0, <1>a, <1>c, <1>d, <1>2, <2>1
  <1>8. DiskBehind'
    <2>1. ASSUME NEW i \in 0 .. NDIRECT PROVE dfile[h].ptr[i] \in {Null, file'[h].ptr[i]}
      <3>1. CASE i = SlotOf(c)
        <4>1. file[h].ptr[i] = Null
          BY <1>1, <3>1, AtType DEF IInv
        <4> QED BY <4>1 DEF IInv, DiskBehind
      <3>2. CASE i # SlotOf(c)
        BY <1>a, <3>2 DEF IInv, DiskBehind
      <3> QED BY <3>1, <3>2
    <2>2. ASSUME NEW g \in File
          PROVE  /\ dfile[g].size = file'[g].size
                 /\ \A i \in 0 .. NDIRECT : dfile[g].ptr[i] \in {Null, file'[g].ptr[i]}
      <3>1. CASE g = h
        BY <1>a, <2>1, <3>1 DEF IInv, DiskBehind
      <3>2. CASE g # h
        BY <1>a, <3>2 DEF IInv, DiskBehind
      <3> QED BY <3>1, <3>2
    <2> QED BY <1>0, <2>2 DEF DiskBehind
  <1>9. Inside'
    <2> SUFFICES ASSUME NEW g \in File, NEW k \in 0 .. MaxBlocks - 1, BlockOf(g, k)' # Null
                 PROVE  k < file'[g].size
      BY DEF Inside
    <2>0. file'[g].size = file[g].size
      BY <1>a
    <2>1. SlotOf(k)' = SlotOf(k) /\ SlotOf(k) \in Slot /\ BlockOf(g, k)' = At(g, SlotOf(k))'
      BY Slots DEF BlockOf, SlotOf
    <2>2. CASE g = h /\ SlotOf(k) = SlotOf(c)
      <3>1. k = c
        BY <2>2, Slots
      <3> QED BY <1>0, <2>0, <2>2, <3>1
    <2>3. CASE ~(g = h /\ SlotOf(k) = SlotOf(c))
      <3>1. At(g, SlotOf(k))' = At(g, SlotOf(k))
        BY <1>4, <2>1, <2>3
      <3>2. BlockOf(g, k) # Null
        BY <2>1, <3>1 DEF BlockOf
      <3> QED BY <2>0, <3>2 DEF IInv, Inside
    <2> QED BY <2>2, <2>3
  <1>10. OpRight'
    <2>1. ~NeedsIndirect'
      BY <1>h, <1>0, <1>b DEF NeedsIndirect
    <2>2. op.bno < file'[op.f].size
      BY <1>h, <1>0, <1>a
    <2> QED BY <1>h, <1>0, <2>1, <2>2 DEF OpRight
  <1>11. FlushRight'
    BY <1>0 DEF FlushRight
  <1> QED BY <1>5, <1>6, <1>7, <1>8, <1>9, <1>10, <1>11 DEF IInv

LEMMA StutterStep ==
  ASSUME IInv, UNCHANGED vars
  PROVE  IInv'
  <1>1. \A g \in File :
          /\ Indirect(g)' = Indirect(g)
          /\ \A s \in Slot : At(g, s)' = At(g, s)
          /\ \A c \in 0 .. MaxBlocks - 1 : BlockOf(g, c)' = BlockOf(g, c)
    BY AtSame DEF vars, memory
  <1>2. TypeOK'
    BY DEF IInv, TypeOK, vars, memory, disk, ghosts
  <1>3. OneOwner'
    BY <1>1, OwnersKept, OwnerOf DEF IInv, vars, memory
  <1>4. FlushedSurvives'
    BY <1>1, FlushedKept DEF IInv, vars, memory, disk, ghosts
  <1>5. DiskBehind'
    BY DEF IInv, DiskBehind, vars, memory, disk
  <1>6. Inside'
    BY <1>1 DEF IInv, Inside, vars, memory
  <1>7. OpRight'
    <2> SUFFICES ASSUME op # NoOp
                 PROVE  /\ op.bno < file[op.f].size
                        /\ NeedsIndirect' => FirstIsBlank'
                        /\ op.f \notin flushed /\ flushing = {}
      BY DEF OpRight, vars, memory, ghosts
    <2>1. op.f \in File
      BY DEF IInv, TypeOK, Ops
    <2>2. NeedsIndirect' => NeedsIndirect
      BY <1>1, <2>1 DEF NeedsIndirect, vars
    <2>3. FirstIsBlank => FirstIsBlank'
      BY DEF FirstIsBlank, vars, memory
    <2> QED BY <2>2, <2>3 DEF IInv, OpRight
  <1>8. FlushRight'
    <2>1. Flushes' = Flushes /\ flushes' = flushes /\ flushing' = flushing
      BY DEF Flushes, vars, ghosts
    <2>2. ASSUME NEW g \in flushing
          PROVE  /\ dfile[g] = file[g] \/ Dir \in Flushes
                 /\ \A s \in Slot : At(g, s)' # Null =>
                      dword[At(g, s)'] = word[At(g, s)'] \/ At(g, s)' \in Flushes
      BY <1>1 DEF IInv, TypeOK, FlushRight
    <2> QED BY <2>1, <2>2 DEF IInv, FlushRight, vars, memory, disk
  <1> QED BY <1>2, <1>3, <1>4, <1>5, <1>6, <1>7, <1>8 DEF IInv

-----------------------------------------------------------------------------
(***************************************************************************)
(* The theorems.                                                           *)
(***************************************************************************)
LEMMA InitInv ==
  ASSUME Init
  PROVE  IInv
  <1>1. \A g \in File : \A s \in Slot : At(g, s) = Null
    <2> SUFFICES ASSUME NEW g \in File, NEW s \in Slot PROVE At(g, s) = Null
      OBVIOUS
    <2>1. file[g] = Unused
      BY DEF Init
    <2>2. \A i \in 0 .. NDIRECT : file[g].ptr[i] = Null
      BY <2>1 DEF Unused
    <2>3. Indirect(g) = Null
      BY <2>2, Sizes DEF Indirect
    <2>4. s <= NDIRECT => s \in 0 .. NDIRECT
      BY Slots, Sizes
    <2> QED BY <2>2, <2>3, <2>4 DEF At
  <1>2. TypeOK
    <2>1. Unused \in Structs /\ Blank \in Content
      BY Sizes DEF Unused, Structs, Blank, Content, Pointer
    <2> QED BY <2>1 DEF Init, TypeOK
  <1>3. OneOwner
    BY <1>1 DEF OneOwner
  <1>4. FlushedSurvives
    BY DEF FlushedSurvives, Init
  <1>5. DiskBehind
    BY DEF DiskBehind, Init
  <1>6. Inside
    BY <1>1, Slots DEF Inside, BlockOf
  <1>7. OpRight /\ FlushRight
    BY DEF OpRight, FlushRight, Init
  <1> QED BY <1>2, <1>3, <1>4, <1>5, <1>6, <1>7 DEF IInv

LEMMA NextInv ==
  ASSUME IInv, [CareNext]_vars
  PROVE  IInv'
  <1>1. CASE Other
    <2>1. CASE \E f \in File : Create(f)
      BY <2>1, CreateStep
    <2>2. CASE \E f \in File : FileFlush(f)
      BY <2>2, FileFlushStep
    <2>3. CASE \E f \in File : \E size \in 0 .. MaxBlocks : SetSize(f, size)
      BY <2>3, SetSizeStep
    <2>4. CASE FsSync
      BY <2>4, FsSyncStep
    <2>5. CASE FlushBlock
      BY <2>5, FlushBlockStep
    <2>6. CASE \E b \in Block : AllocIndirect(b)
      BY <2>6, AllocIndirectStep
    <2>7. CASE \E b \in Block : GetBlock(b)
      BY <2>7, GetBlockStep
    <2>8. CASE GetBlockFails
      BY <2>8, GetBlockFailsStep
    <2>9. CASE Move
      BY <2>9, MoveStep
    <2> QED BY <1>1, <2>1, <2>2, <2>3, <2>4, <2>5, <2>6, <2>7, <2>8, <2>9 DEF Other
  <1>2. ASSUME NEW f \in File, NEW bno \in 0 .. MaxBlocks - 1, Transfer(f, bno),
               bno >= NDIRECT /\ Indirect(f) = Null => FirstIsBlank
        PROVE  IInv'
    BY <1>2, FileReadStep, FileWriteStep DEF Transfer
  <1>3. CASE (AllSmall \/ Synced) /\ Crash
    BY <1>3, CrashStep
  <1>4. CASE UNCHANGED vars
    BY <1>4, StutterStep
  <1> QED BY <1>1, <1>2, <1>3, <1>4 DEF CareNext

LEMMA Invariance == CareSpec => []IInv
  <1>1. Init => IInv
    BY InitInv
  <1>2. IInv /\ [CareNext]_vars => IInv'
    BY NextInv
  <1> QED BY <1>1, <1>2, PTL DEF CareSpec

\* A pointer on the disk is the one in memory, which is the block's only one.
LEMMA OnDisk ==
  ASSUME IInv
  PROVE  OneOwnerOnDisk
  <1> SUFFICES ASSUME NEW f \in File, NEW g \in File, NEW i \in 0 .. NDIRECT, NEW j \in 0 .. NDIRECT,
                      dfile[f].ptr[i] # Null
               PROVE  /\ dfile[f].ptr[i] \notin dbitmap
                      /\ dfile[f].ptr[i] = dfile[g].ptr[j] => f = g /\ i = j
    BY DEF OneOwnerOnDisk
  <1>1. i \in Slot /\ j \in Slot
    BY Slots
  <1>2. dfile[f].ptr[i] = At(f, i) /\ At(f, i) # Null
    BY AtType DEF IInv, DiskBehind
  <1>3. dfile[g].ptr[j] # Null => dfile[g].ptr[j] = At(g, j)
    BY AtType DEF IInv, DiskBehind
  <1>4. At(f, i) \notin bitmap /\ (At(f, i) = At(g, j) => f = g /\ i = j)
    BY <1>1, <1>2, OwnerOf DEF IInv
  <1> QED BY <1>2, <1>3, <1>4 DEF IInv, DiskBehind

\* Every value has the type its variable is declared with: what the server
\* takes for a block number is one, or none.
THEOREM TypeCorrect == CareSpec => []TypeOK
  <1>1. IInv => TypeOK
    BY DEF IInv
  <1> QED BY <1>1, Invariance, PTL

\* With the care of CareSpec no block has two pointers to it, and none that
\* is pointed to is free, whatever the order of creations, growth, truncation,
\* failed allocations and crashes (fs/fs.c).
THEOREM BlocksHaveOneOwner == CareSpec => []OneOwner
  <1>1. IInv => OneOwner
    BY DEF IInv
  <1> QED BY <1>1, Invariance, PTL

\* The same holds of the File structures on the disk at every moment, also
\* between two writes of one operation.
THEOREM DiskHasOneOwner == CareSpec => []OneOwnerOnDisk
  <1>1. IInv => OneOwnerOnDisk
    BY OnDisk
  <1> QED BY <1>1, Invariance, PTL

\* What file_flush() or fs_sync() wrote stays on the disk as it is in memory
\* as long as nobody touches the file, through crashes too.
THEOREM FlushedStays == CareSpec => []FlushedSurvives
  <1>1. IInv => FlushedSurvives
    BY DEF IInv
  <1> QED BY <1>1, Invariance, PTL
=============================================================================
