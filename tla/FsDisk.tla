------------------------------- MODULE FsDisk -------------------------------
(***************************************************************************)
(* The file system on its disk: fs/fs.c over the block cache of fs/bc.c.   *)
(* What the server has in memory and what is on the disk are two copies of *)
(* the block bitmap, of the directory and of every other block; only       *)
(* flush_block() makes the second like the first, a block at a time, and a *)
(* crash makes the first like the second.  A step goes from one such write *)
(* to the next: nothing else of an operation can be told by a crash, and   *)
(* the server runs one operation after the other (FsServ).                 *)
(*                                                                         *)
(* The files are those of one directory, whose one block holds all their   *)
(* File structures.  A size counts blocks, and a transfer stays in one     *)
(* block; a longer one is several, and none goes past the largest file.    *)
(* A block not read in yet is in memory what it is on the disk:            *)
(* flush_block() writes it no sooner than it has been changed.             *)
(***************************************************************************)
EXTENDS Naturals, Sequences

CONSTANTS
  File,                \* the File structures of the directory's block
  NBLOCKS,             \* s_nblocks: those from the fourth are for files
  NDIRECT, NINDIRECT,
  Data,                \* what a word of a file's data may be, as a number
  Read, NoOp           \* a read, unlike a write, has no data; no operation

Bitmap == 2 \* numbers of the bitmap's block and of the directory's
Dir    == 3
Null   == 0

Block  == 4 .. NBLOCKS - 1

ASSUME SizeAssumption  == /\ NBLOCKS \in Nat /\ NBLOCKS > Dir
                          /\ NDIRECT \in Nat \ {0} /\ NINDIRECT \in Nat \ {0}
ASSUME DataAssumption  == Data \subseteq Block \cup {Null} /\ Read \notin Data

Pointer   == Block \cup {Null}
MaxBlocks == NDIRECT + NINDIRECT
Word      == 0 .. NINDIRECT - 1
Content   == [Word -> Pointer]
Blank     == [w \in Word |-> Null]
\* f_direct[] and, at NDIRECT, f_indirect.
Structs   == [used : BOOLEAN, size : 0 .. MaxBlocks, ptr : [0 .. NDIRECT -> Pointer]]
Unused    == [used |-> FALSE, size |-> 0, ptr |-> [i \in 0 .. NDIRECT |-> Null]]

VARIABLES
  bitmap, file, word,    \* the free blocks, the directory and the contents of
                         \* the others, as the server has them in memory
  dbitmap, dfile, dword, \* and as they are on the disk
  op,                    \* the read or write under way
  flushes,               \* the blocks it will flush before it goes on
  flushing,              \* ghost: the files file_flush() or fs_sync() is about
  flushed                \* ghost: those not touched since one of these was done

memory == <<bitmap, file, word>>
disk   == <<dbitmap, dfile, dword>>
ghosts == <<flushing, flushed>>
vars   == <<memory, disk, op, flushes, ghosts>>

Ops    == [f : File, bno : 0 .. MaxBlocks - 1, buf : Data \cup {Read}]

ASSUME OpAssumption == NoOp \notin Ops

TypeOK ==
  /\ bitmap \in SUBSET Block /\ dbitmap \in SUBSET Block
  /\ file \in [File -> Structs] /\ dfile \in [File -> Structs]
  /\ word \in [Block -> Content] /\ dword \in [Block -> Content]
  /\ op \in Ops \cup {NoOp}
  /\ flushes \in Seq({Null, Bitmap, Dir} \cup Block)
  /\ flushing \in SUBSET File /\ flushed \in SUBSET File

\* fsformat leaves zeros where nothing is.
Init ==
  /\ bitmap = Block /\ dbitmap = Block
  /\ file = [f \in File |-> Unused] /\ dfile = file
  /\ word = [b \in Block |-> Blank] /\ dword = word
  /\ op = NoOp /\ flushes = <<>>
  /\ flushing = {} /\ flushed = {}

\* The pointers of a file: f_direct, f_indirect, and the words of the
\* indirect block.
Slot         == 0 .. MaxBlocks
Indirect(f)  == file[f].ptr[NDIRECT]
At(f, s)     == IF s <= NDIRECT THEN file[f].ptr[s]
                ELSE IF Indirect(f) = Null THEN Null
                ELSE word[Indirect(f)][s - NDIRECT - 1]
\* That to block bno of the file (file_block_walk).
SlotOf(bno)     == IF bno < NDIRECT THEN bno ELSE bno + 1
BlockOf(f, bno) == At(f, SlotOf(bno))

Idle == op = NoOp /\ flushes = <<>>

-----------------------------------------------------------------------------
(***************************************************************************)
(* file_create(), file_set_size(), file_flush(), fs_sync().                *)
(***************************************************************************)
\* The name goes into a free structure of the directory, which is flushed.
Create(f) ==
  /\ Idle /\ ~file[f].used
  /\ file' = [file EXCEPT ![f].used = TRUE]
  /\ dfile' = file'
  /\ UNCHANGED <<bitmap, word, dbitmap, dword, op, flushes, flushing>>
  /\ flushed' = flushed \ {f}

\* What file_truncate_blocks() leaves of a file: the blocks from the new size
\* up to the old go, and the indirect block if it is no longer needed.
Goes(f, size, s) ==
  \/ \E bno \in size .. file[f].size - 1 : s = SlotOf(bno)
  \/ s = NDIRECT /\ size <= NDIRECT

\* Mutant: the indirect block is freed, and f_indirect kept.
TruncateBlocksKeepsIndirect(f, size) ==
  /\ bitmap' = bitmap \cup ({At(f, s) : s \in {t \in Slot : Goes(f, size, t)}} \ {Null})
  /\ file' = [file EXCEPT ![f].size = size,
                          ![f].ptr = [s \in 0 .. NDIRECT |-> IF Goes(f, size, s) /\ s < NDIRECT THEN Null ELSE @[s]]]
  /\ word' = IF Indirect(f) = Null THEN word
             ELSE [word EXCEPT ![Indirect(f)] =
                    [w \in Word |-> IF Goes(f, size, w + NDIRECT + 1) THEN Null ELSE @[w]]]

TruncateBlocks(f, size) ==
  /\ bitmap' = bitmap \cup ({At(f, s) : s \in {t \in Slot : Goes(f, size, t)}} \ {Null})
  /\ file' = [file EXCEPT ![f].size = size,
                          ![f].ptr = [s \in 0 .. NDIRECT |-> IF Goes(f, size, s) THEN Null ELSE @[s]]]
  /\ word' = IF Indirect(f) = Null THEN word
             ELSE [word EXCEPT ![Indirect(f)] =
                    [w \in Word |-> IF Goes(f, size, w + NDIRECT + 1) THEN Null ELSE @[w]]]

SetSize(f, size) ==
  /\ Idle /\ file[f].used
  /\ \/ size < file[f].size /\ TruncateBlocks(f, size)
     \/ size >= file[f].size /\ file' = [file EXCEPT ![f].size = size] /\ UNCHANGED <<bitmap, word>>
  /\ dfile' = file'
  /\ flushed' = flushed \ {f}
  /\ UNCHANGED <<dbitmap, dword, op, flushes, flushing>>

\* Mutant: the indirect block is taken for one of the file's blocks.
FileFlushDataOnly(f) ==
  /\ Idle /\ file[f].used
  /\ flushes' = [i \in 1 .. file[f].size + 1 |-> IF i <= file[f].size THEN BlockOf(f, i - 1) ELSE Dir]
  /\ flushing' = {f}
  /\ UNCHANGED <<memory, disk, op, flushed>>

\* The data blocks in order, the directory, the indirect block.  Null stands
\* for a block that is not there.
FileFlush(f) ==
  /\ Idle /\ file[f].used
  /\ flushes' = [i \in 1 .. file[f].size + (IF Indirect(f) = Null THEN 1 ELSE 2) |->
                  IF i <= file[f].size THEN BlockOf(f, i - 1)
                  ELSE IF i = file[f].size + 1 THEN Dir ELSE Indirect(f)]
  /\ flushing' = {f}
  /\ UNCHANGED <<memory, disk, op, flushed>>

\* In the order of the blocks, the super block having nothing to flush.
FsSync ==
  /\ Idle
  /\ flushes' = [i \in 1 .. NBLOCKS - 2 |-> i + 1]
  /\ flushing' = {f \in File : file[f].used}
  /\ UNCHANGED <<memory, disk, op, flushed>>

\* flush_block() of the next one.
FlushBlock ==
  /\ flushes # <<>>
  /\ LET b == Head(flushes) IN
       /\ dbitmap' = IF b = Bitmap THEN bitmap ELSE dbitmap
       /\ dfile' = IF b = Dir THEN file ELSE dfile
       /\ dword' = [c \in Block |-> IF c = b THEN word[c] ELSE dword[c]]
  /\ flushes' = Tail(flushes)
  /\ flushed' = IF Len(flushes) = 1 THEN flushed \cup flushing ELSE flushed
  /\ flushing' = IF Len(flushes) = 1 THEN {} ELSE flushing
  /\ UNCHANGED <<memory, op>>

-----------------------------------------------------------------------------
(***************************************************************************)
(* file_read() and file_write() of one block.                              *)
(***************************************************************************)
FileRead(f, bno) ==
  /\ Idle /\ bno < file[f].size
  /\ op' = [f |-> f, bno |-> bno, buf |-> Read]
  /\ flushed' = flushed \ {f}
  /\ UNCHANGED <<memory, disk, flushes, flushing>>

\* Mutant: the size is counted from one past the last block.
FileWriteOnePast(f, bno, data) ==
  /\ Idle /\ file[f].used
  /\ op' = [f |-> f, bno |-> bno, buf |-> data]
  /\ file' = [file EXCEPT ![f].size = IF bno < @ THEN @ ELSE bno + 2]
  /\ dfile' = file'
  /\ flushed' = flushed \ {f}
  /\ UNCHANGED <<bitmap, word, dbitmap, dword, flushes, flushing>>

\* file_write() extends the file first.
FileWrite(f, bno, data) ==
  /\ Idle /\ file[f].used
  /\ op' = [f |-> f, bno |-> bno, buf |-> data]
  /\ \/ bno < file[f].size /\ UNCHANGED <<file, dfile>>
     \/ /\ bno >= file[f].size
        /\ file' = [file EXCEPT ![f].size = bno + 1]
        /\ dfile' = file'
  /\ flushed' = flushed \ {f}
  /\ UNCHANGED <<bitmap, word, dbitmap, dword, flushes, flushing>>

InOp == op # NoOp /\ flushes = <<>>

\* Mutant: the bitmap is flushed by fs_sync() only.
AllocBlockLazily(b) ==
  /\ b \in bitmap /\ \A c \in bitmap : b <= c
  /\ bitmap' = bitmap \ {b}
  /\ UNCHANGED dbitmap

\* alloc_block(): the first free one, and the bitmap is flushed at once.
AllocBlock(b) ==
  /\ b \in bitmap /\ \A c \in bitmap : b <= c
  /\ bitmap' = bitmap \ {b}
  /\ dbitmap' = bitmap'

\* file_block_walk() with alloc: the indirect block.  It is not cleared, and
\* flushed as it is.
NeedsIndirect == op.bno >= NDIRECT /\ Indirect(op.f) = Null

AllocIndirect(b) ==
  /\ InOp /\ NeedsIndirect
  /\ AllocBlock(b)
  /\ file' = [file EXCEPT ![op.f].ptr[NDIRECT] = b]
  /\ flushes' = <<b>>
  /\ UNCHANGED <<word, dfile, dword, op, ghosts>>

\* file_get_block(): the block itself, not cleared either.
NeedsBlock == ~NeedsIndirect /\ BlockOf(op.f, op.bno) = Null

GetBlock(b) ==
  /\ InOp /\ NeedsBlock
  /\ AllocBlock(b)
  /\ \/ /\ op.bno < NDIRECT
        /\ file' = [file EXCEPT ![op.f].ptr[op.bno] = b]
        /\ UNCHANGED word
     \/ /\ op.bno >= NDIRECT
        /\ word' = [word EXCEPT ![Indirect(op.f)][op.bno - NDIRECT] = b]
        /\ UNCHANGED file
  /\ flushes' = <<b>>
  /\ UNCHANGED <<dfile, dword, op, ghosts>>

\* -E_NO_DISK: what was done before is not undone.
GetBlockFails ==
  /\ InOp /\ (NeedsIndirect \/ NeedsBlock) /\ bitmap = {}
  /\ op' = NoOp
  /\ UNCHANGED <<memory, disk, flushes, ghosts>>

\* memmove
Move ==
  /\ InOp /\ ~NeedsIndirect /\ ~NeedsBlock
  /\ \/ op.buf = Read /\ UNCHANGED word
     \/ /\ op.buf # Read
        /\ word' = [word EXCEPT ![BlockOf(op.f, op.bno)] = [w \in Word |-> op.buf]]
  /\ op' = NoOp
  /\ UNCHANGED <<bitmap, file, disk, flushes, ghosts>>

-----------------------------------------------------------------------------
\* At any moment; fs_init() then starts from what is on the disk.
Crash ==
  /\ bitmap' = dbitmap /\ file' = dfile /\ word' = dword
  /\ op' = NoOp /\ flushes' = <<>>
  /\ flushing' = {}
  /\ UNCHANGED <<disk, flushed>>

Transfer(f, bno) == FileRead(f, bno) \/ \E data \in Data : FileWrite(f, bno, data)

Other ==
  \/ \E f \in File :
       \/ Create(f) \/ FileFlush(f)
       \/ \E size \in 0 .. MaxBlocks : SetSize(f, size)
  \/ FsSync \/ FlushBlock
  \/ \E b \in Block : AllocIndirect(b) \/ GetBlock(b)
  \/ GetBlockFails \/ Move

NoCrashNext == Other \/ \E f \in File, bno \in 0 .. MaxBlocks - 1 : Transfer(f, bno)
Next        == NoCrashNext \/ Crash

NoCrashSpec == Init /\ [][NoCrashNext]_vars
Spec        == Init /\ [][Next]_vars

\* The care that keeps the file system right.  Who makes a file longer than
\* its direct blocks finds only zeros in the block that becomes its indirect
\* block, as in every block that was never used; and when the machine stops
\* there is no such file, or everything has been synced.
FirstIsBlank == \A b \in bitmap : (\A c \in bitmap : b <= c) => word[b] = Blank
Synced       == bitmap = dbitmap /\ file = dfile /\ word = dword
AllSmall     == \A f \in File : Indirect(f) = Null /\ dfile[f].ptr[NDIRECT] = Null

CareNext ==
  \/ Other
  \/ \E f \in File, bno \in 0 .. MaxBlocks - 1 :
       /\ bno >= NDIRECT /\ Indirect(f) = Null => FirstIsBlank
       /\ Transfer(f, bno)
  \/ (AllSmall \/ Synced) /\ Crash

CareSpec == Init /\ [][CareNext]_vars

-----------------------------------------------------------------------------
\* No block is the file system's twice: two pointers to one block are the
\* same pointer, whichever files, direct or indirect, they are in, and no
\* block a pointer leads to is free (all of fs/fs.c; bc_pgfault panics when
\* it reads a free block).
OneOwner ==
  \A f, g \in File : \A s, t \in Slot :
    At(f, s) # Null => /\ At(f, s) \notin bitmap
                       /\ At(f, s) = At(g, t) => f = g /\ s = t

\* What the comment above file_block_walk() asks for, "Don't forget to clear
\* any block you allocate": between alloc_block() and the first use of the
\* indirect block there is nothing in it that could pass for a block number.
AllocatedIsClear ==
  op # NoOp /\ Indirect(op.f) # Null /\ flushes = <<Indirect(op.f)>> => word[Indirect(op.f)] = Blank

\* If the machine stops now, no File structure on the disk points to a block
\* the bitmap on the disk has free, or another one points to: alloc_block
\* flushes the bitmap before anybody can flush the pointer, file_set_size the
\* structure before the block can be allocated again.
OneOwnerOnDisk ==
  \A f, g \in File : \A i, j \in 0 .. NDIRECT :
    dfile[f].ptr[i] # Null => /\ dfile[f].ptr[i] \notin dbitmap
                              /\ dfile[f].ptr[i] = dfile[g].ptr[j] => f = g /\ i = j

\* Once file_flush() or fs_sync() is done, a file that is left alone is on
\* the disk as it is, all of it, whatever happens to other files or to the
\* machine.
FlushedSurvives ==
  \A f \in flushed : /\ dfile[f] = file[f]
                     /\ \A s \in Slot : At(f, s) # Null => dword[At(f, s)] = word[At(f, s)]
=============================================================================
