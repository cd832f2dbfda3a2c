------------------------------ MODULE BlockMmio ------------------------------
(***************************************************************************)
(* The block device of src/src/block_mmio.cpp: the guest sets up a         *)
(* transfer in three registers and starts it by writing the command; the   *)
(* transfer is done when the write returns.                                *)
(***************************************************************************)
EXTENDS Integers

CONSTANTS
  BlockUnits,     \* kBlockSize, in cells
  ImageBlocks,    \* the blocks of the image
  BufferRam,      \* the RAM cells, an interval
  BufferAddrs,    \* the values written to the address register
  Lbas, Counts,   \* the values written to the other two
  CellValues      \* what a cell holds

ASSUME BlockAssumption ==
  /\ BlockUnits \in Nat \ {0}
  /\ ImageBlocks \in Nat
  /\ BufferRam \subseteq Nat
  /\ \E first, last \in BufferRam : BufferRam = first .. last
  /\ BufferAddrs \cup Lbas \cup Counts \subseteq Nat

VARIABLES
  block,          \* the device
  block_ram       \* guest RAM

block_vars == <<block, block_ram>>

NumBlocks == ImageBlocks
Padded(cells) == ((cells + BlockUnits - 1) \div BlockUnits) * BlockUnits
ImageCells == 0 .. Padded(ImageBlocks * BlockUnits) - 1

ResetBlockRegisters(b) == [b EXCEPT !.addr = 0, !.lba = 0, !.count = 0, !.status = "Ok"]

RangeStatus(b) ==
  IF b.count = 0 THEN "Count"
  ELSE IF b.lba >= NumBlocks \/ b.count > NumBlocks - b.lba THEN "Range" ELSE "Ok"

InBufferRam(addr, cells) == addr \in BufferRam /\ addr + cells - 1 \in BufferRam

Cells(b) == b.count * BlockUnits
StartUnit(b) == b.lba * BlockUnits

\* Mutant: a buffer that is not RAM is skipped without a word.
TransferStatus_Quiet(b) == RangeStatus(b)

TransferStatus(b) ==
  IF RangeStatus(b) # "Ok" THEN RangeStatus(b)
  ELSE IF ~InBufferRam(b.addr, Cells(b)) THEN "Buffer" ELSE "Ok"

\* execute_command, a read of the image.
ReadBlocks ==
  LET status == TransferStatus(block)
      moved(c) == status = "Ok" /\ c \in block.addr .. block.addr + Cells(block) - 1
  IN  /\ block' = [block EXCEPT !.status = status]
      /\ block_ram' = [c \in BufferRam |->
                         IF moved(c) THEN block.image[StartUnit(block) + c - block.addr]
                         ELSE block_ram[c]]

WriteBlocks ==
  LET status == TransferStatus(block)
      at(i) == block.addr + i - StartUnit(block)
      moved(i) == /\ status = "Ok" /\ i \in StartUnit(block) .. StartUnit(block) + Cells(block) - 1
                  /\ at(i) \in BufferRam
  IN  /\ block' = [block EXCEPT !.status = status,
                     !.image = [i \in ImageCells |-> IF moved(i) THEN block_ram[at(i)] ELSE @[i]]]
      /\ UNCHANGED block_ram

BadCommand == block' = [block EXCEPT !.status = "BadCommand"] /\ UNCHANGED block_ram

WriteBlockRegister ==
  /\ \/ \E addr \in BufferAddrs : block' = [block EXCEPT !.addr = addr]
     \/ \E lba \in Lbas : block' = [block EXCEPT !.lba = lba]
     \/ \E count \in Counts : block' = [block EXCEPT !.count = count]
     \/ block' = [block EXCEPT !.status = "Ok"]
  /\ UNCHANGED block_ram

\* The guest stores to a buffer.
GuestStores == \E c \in BufferRam, v \in CellValues :
                 block_ram' = [block_ram EXCEPT ![c] = v] /\ UNCHANGED block

BlockInit ==
  /\ block = ResetBlockRegisters([image |-> [i \in ImageCells |-> i % 2], addr |-> 0, lba |-> 0,
                                  count |-> 0, status |-> "Ok"])
  /\ block_ram = [c \in BufferRam |-> 0]

BlockNext == ReadBlocks \/ WriteBlocks \/ BadCommand \/ WriteBlockRegister \/ GuestStores

BlockSpec == BlockInit /\ [][BlockNext]_block_vars

-----------------------------------------------------------------------------
(* Properties                                                              *)

Command == ReadBlocks \/ WriteBlocks

Holds(b, ram) ==
  \A i \in 0 .. Cells(b) - 1 : ram[b.addr + i] = b.image[StartUnit(b) + i]

(* A command is all or nothing: with status Ok every cell of the range is  *)
(* equal on both sides, with any other status neither side has changed,    *)
(* also for counts and addresses beyond the ends (execute_command,         *)
(* valid_transfer_range).                                                  *)
BlockAllOrNothing ==
  [][Command => IF block'.status = "Ok"
                THEN InBufferRam(block.addr, Cells(block)) /\ Holds(block', block_ram')
                ELSE block_ram' = block_ram /\ block'.image = block.image]_block_vars
=============================================================================
