-------------------------------- MODULE IDE ---------------------------------
(***************************************************************************)
(* The IDE driver, src/src/drivers/ide.c: which drives ide_init finds, and *)
(* how a sector number is written into the registers of a drive and read   *)
(* back by it.  The drives are not part of the repository: what they do    *)
(* with a command is modelled from the registers the driver writes.        *)
(*                                                                         *)
(* A sector number is an integer; the registers are digits of radix Byte,  *)
(* 256 in the code.  Polling loops end, as the code relies on.             *)
(***************************************************************************)
EXTENDS Integers, Sequences

CONSTANTS
  Byte,               \* values of a register, 256
  HeadRange,          \* values of the head field of HDDEVSEL, 16
  SectorsPerTrack,    \* 63
  Heads               \* 16

ASSUME IDEAssumption ==
  /\ Byte \in Nat \ {0, 1} /\ HeadRange \in Nat \ {0}
  /\ SectorsPerTrack \in 1 .. (Byte - 1) /\ Heads \in 1 .. HeadRange

(* The places of drives in the order ide_init asks them: channel 0 and 1,  *)
(* on each the master and the slave.                                       *)
Places == << <<0, 0>>, <<0, 1>>, <<1, 0>>, <<1, 1>> >>

(* bus: a function from places to "none", "ata" or "atapi".  A drive that  *)
(* is there takes the next slot of g_ide_devices; an empty place and one   *)
(* whose signature is unknown take none.                                   *)
Present(bus) == SelectSeq(Places, LAMBDA p : bus[p] # "none")

ide_init(bus) ==
  [i \in DOMAIN Present(bus) |->
     [channel |-> Present(bus)[i][1], drive |-> Present(bus)[i][2],
      type |-> bus[Present(bus)[i]]]]

-----------------------------------------------------------------------------
(* ide_ata_access: the registers for a sector *)

(* Sectors that cylinders, heads and sectors can tell apart. *)
CHSCapacity == Byte * Byte * Heads * SectorsPerTrack

LBA28Limit == Byte * Byte * Byte * HeadRange

lba48(lba) == [mode |-> "48", head |-> 0,
               lba_io |-> << lba % Byte, (lba \div Byte) % Byte,
                             (lba \div (Byte * Byte)) % Byte,
                             (lba \div (Byte * Byte * Byte)) % Byte >>]

lba28(lba) == [mode |-> "28", head |-> (lba \div (Byte * Byte * Byte)) % HeadRange,
               lba_io |-> << lba % Byte, (lba \div Byte) % Byte,
                             (lba \div (Byte * Byte)) % Byte >>]

(* Mutant: sectors are counted from 0, like heads and cylinders. *)
CountsFromZero(lba) ==
  LET sect == lba % SectorsPerTrack
      cyl  == (lba - sect) \div (Heads * SectorsPerTrack)
  IN [mode |-> "chs", head |-> ((lba - sect) % (Heads * SectorsPerTrack)) \div SectorsPerTrack,
      lba_io |-> <<sect, cyl % Byte, (cyl \div Byte) % Byte>>]

chs(lba) ==
  LET sect == (lba % SectorsPerTrack) + 1
      cyl  == ((lba + 1 - sect) \div (Heads * SectorsPerTrack)) % (Byte * Byte)
  IN [mode |-> "chs",
      head |-> ((lba + 1 - sect) % (Heads * SectorsPerTrack)) \div SectorsPerTrack,
      lba_io |-> <<sect, cyl % Byte, (cyl \div Byte) % Byte>>]

(* features: the drive says that it knows LBA addresses. *)
ide_ata_access(lba, features) ==
  IF lba >= LBA28Limit THEN lba48(lba)
  ELSE IF features THEN lba28(lba) ELSE chs(lba)

(* The drive: the sector that the registers name. *)
Addressed(r) ==
  LET Value[i \in 0 .. Len(r.lba_io)] ==
        IF i = 0 THEN 0
        ELSE Value[i - 1] * Byte + r.lba_io[Len(r.lba_io) + 1 - i]
  IN CASE r.mode = "48" -> Value[4]
       [] r.mode = "28" -> r.head * Byte * Byte * Byte + Value[3]
       [] r.mode = "chs" -> ((r.lba_io[3] * Byte + r.lba_io[2]) * Heads + r.head)
                            * SectorsPerTrack + r.lba_io[1] - 1

(* ide_read_sectors: the sectors whose contents may arrive when one sector *)
(* of a drive with `size` sectors is asked for; none when the call fails.  *)
(* A failure of the drive itself is the caller's to consider.              *)
ide_read_sectors(lba, size, features) ==
  IF lba + 1 > size THEN {} ELSE {Addressed(ide_ata_access(lba, features))}
=============================================================================
