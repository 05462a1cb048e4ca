------------------------------ MODULE Storage ------------------------------
(***************************************************************************)
(* The FAT32 reader on the SD card driver: fat32_test() of src/kernel/     *)
(* kernel.c, which initialises the card, then the calls that the console   *)
(* makes.  Each blkdev_read() of Fat32 is a call of Emmc, whose result is  *)
(* the outcome that Fat32 goes on with.                                    *)
(***************************************************************************)
EXTENDS Fat32, Emmc

vars == <<fat_vars, emmc_vars>>

StorageInit == FatInit /\ EmmcInit

\* What blkdev_read() has done for its caller.
Outcome == CASE sd_ret = 0   -> "ok"
             [] buf = Nil   -> "early"
             [] OTHER        -> "late"

call ==
  /\ at = "idle"       \* the boot is over, and no read is in progress
  /\ NewCall
  /\ UNCHANGED emmc_vars

\* Without a card the kernel goes on all the same, and every read fails.
boot_returns ==
  /\ op = "none"
  /\ taken
  /\ UNCHANGED fat_vars

blkdev_read ==
  /\ op # "none" /\ Wanted # None
  /\ sd_read_block(Wanted)
  /\ UNCHANGED fat_vars

\* blkdev_read() returns to Fat32.
goes_on ==
  /\ op # "none"
  /\ taken
  /\ ReadingStep(Outcome)

\* A step of Fat32 that reads nothing: a hit in the cache, the end of a call.
no_read ==
  /\ at = "idle" /\ op # "none" /\ Wanted = None
  /\ follow_chain("ok") \/ finish
  /\ UNCHANGED emmc_vars

Works ==
  \/ Driver /\ UNCHANGED fat_vars
  \/ boot_returns \/ blkdev_read \/ goes_on \/ no_read

StorageNext ==
  \/ Works
  \/ call
  \/ Hardware /\ UNCHANGED fat_vars

Spec == StorageInit /\ [][StorageNext]_vars

\* The processor goes on, and the card does not fail for ever the FAT sectors
\* that it is asked for again and again: in every phase of such a read it
\* answers at last, before the driver gives up.
FatSectorAsked == op # "none" /\ ~MoreSectors

LiveSpec ==
  /\ Spec
  /\ WF_vars(Works)
  /\ WF_vars(Hardware /\ UNCHANGED fat_vars)
  /\ SF_vars(answer /\ FatSectorAsked /\ UNCHANGED fat_vars)
  /\ SF_vars(deliver /\ FatSectorAsked /\ UNCHANGED fat_vars)

=============================================================================
