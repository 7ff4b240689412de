--------------------------------- MODULE Ipl ---------------------------------
(***************************************************************************)
(* The cold boot of the main CPU (bios.asm assembled as the IPL ROM, and   *)
(* the entry of the resident BIOS it loads), over the PIO, the latches and *)
(* the memory bank.  The IPL copies itself to RAM under the ROM by way of  *)
(* a shadow, switches the ROM off, reads CP/M from track 0 of drive 0      *)
(* record by record, and waits for a key and tries again when a read       *)
(* fails.  Selecting the drive switches the ROM on again.  Meanwhile the   *)
(* user exchanges the disk, types, or presses reset, which keeps the RAM.  *)
(*                                                                         *)
(* pc is the piece of code the CPU is in, cut at every write to a port     *)
(* and wherever it waits.  Messages are left out, and so are the writes to *)
(* the control registers of SIO and PIO that set them up.                  *)
(***************************************************************************)
EXTENDS IoBus, Floppy

CONSTANTS
  SectorsPerSide,     \* 16
  CPM_LOAD_SECTORS,   \* records of the CP/M image; 64, which is one track
  GoodDisk, BadDisk,  \* system disks; a read of a bad one may fail
  NoDisk

ASSUME OneTrack ==
  /\ SectorsPerSide \in Nat \ {0}
  /\ CPM_LOAD_SECTORS \in 1 .. 4 * SectorsPerSide

PIO_PORT_A_DATA == 48
PIO_PORT_B_DATA == 49
SIO_CHB_CTRL_PORT == 35
ROM_CTRL_BOOT == {3, 7}
ROM_CTRL_OFF == {3}
DRIVE_CTRL == {3, 7}                      \* DRIVE0_CTRL of the IPL
RESIDENT_DRIVE_CTRL == {{3}, {0, 2}}      \* both of the resident BIOS
SideByte(side) == IF side = 1 THEN {4, 6} ELSE {4}

Disk == GoodDisk \cup BadDisk
Record == 1 .. CPM_LOAD_SECTORS
Place == {0, 1} \X (1 .. SectorsPerSide)  \* side, sector of track 0
Junk == <<>>

VARIABLES
  pc,
  low, shadow, vectors,  \* RAM at 0000h without page zero, 2000h, page zero
  image,                 \* RAM at CPM_LOAD_ADDR, in records
  n,                     \* CURRENT_SECTOR
  cache,                 \* CACHE_VALID, the tags, SECBUF
  disk,                  \* what is in drive 0
  key,                   \* the byte the keyboard holds, if any
  mixed                  \* history: was the disk exchanged during the load?

latches == <<floppy, fdc, membus>>
ram == <<low, shadow, vectors, image>>
vars == <<floppy, fdc, membus, pc, low, shadow, vectors, image, n, cache,
          disk, key, mixed>>

-----------------------------------------------------------------------------
(* The bus and the memory.                                                 *)

Out(port, data) ==
  LET to == MainSelect(port)
  IN  \/ to.dev = "pio" /\ PioWrite(to.reg, data)
      \/ to.dev # "pio" /\ UNCHANGED latches

(* What the CPU fetches from 0008h - 07FFh and from page zero. *)
LowRead == IF membus.low = "rom" THEN "ipl" ELSE low
VectorRead == IF membus.low = "rom" THEN "ipl" ELSE vectors

Goto(next) == pc' = next

-----------------------------------------------------------------------------
(* From the reset vector to RAM.                                           *)

RESET ==
  /\ pc = "RESET" /\ Goto("COPY")
  /\ Out(PIO_PORT_B_DATA, ROM_CTRL_BOOT)
  /\ UNCHANGED <<ram, n, cache, disk, key, mixed>>

IPL_COPY_ROM_TO_SHADOW ==
  /\ pc = "COPY" /\ Goto("SHADOW")
  /\ shadow' = LowRead
  /\ UNCHANGED <<latches, low, vectors, image, n, cache, disk, key, mixed>>

IPL_SHADOW_ENTRY ==
  /\ pc = "SHADOW" /\ Goto("COPY_BACK")
  /\ Out(PIO_PORT_B_DATA, ROM_CTRL_OFF)
  /\ UNCHANGED <<ram, n, cache, disk, key, mixed>>

CopyNothing ==
  /\ pc = "COPY_BACK" /\ Goto("RAM_BOOT")
  /\ UNCHANGED <<latches, ram, n, cache, disk, key, mixed>>

CopyBack ==
  /\ pc = "COPY_BACK" /\ Goto("RAM_BOOT")
  /\ low' = shadow /\ vectors' = shadow
  /\ UNCHANGED <<latches, shadow, image, n, cache, disk, key, mixed>>

BootKeepsCache ==
  /\ Out(PIO_PORT_B_DATA, ROM_CTRL_OFF)
  /\ UNCHANGED cache

(* BIOS_BOOT of the IPL: the ROM off, the cache invalid. *)
BIOS_BOOT ==
  /\ Out(PIO_PORT_B_DATA, ROM_CTRL_OFF)
  /\ cache' = [cache EXCEPT !.valid = FALSE]

RAM_BOOT_START ==
  /\ pc = "RAM_BOOT" /\ Goto("RETRY")
  /\ BIOS_BOOT
  /\ UNCHANGED <<ram, n, disk, key, mixed>>

-----------------------------------------------------------------------------
(* BOOT_RETRY: IPL_LOAD_CPM reads record after record.                     *)

BOOT_RETRY ==
  /\ pc = "RETRY" /\ Goto("LOAD")
  /\ BIOS_BOOT
  /\ n' = 1 /\ mixed' = FALSE
  /\ UNCHANGED <<ram, disk, key>>

PlaceOffByOne(r) ==
  LET q == (r - 1) \div 2
  IN  IF q <= SectorsPerSide THEN <<0, q + 1>> ELSE <<1, q - SectorsPerSide + 1>>

(* FDC_MAP_LOGICAL_SECTOR. *)
PlaceOf(r) ==
  LET q == (r - 1) \div 2
  IN  IF q < SectorsPerSide THEN <<0, q + 1>> ELSE <<1, q - SectorsPerSide + 1>>
Half(r) == (r - 1) % 2

(* The record's half goes to the DMA address, which moves on with it. *)
Advance(secbuf) ==
  /\ image' = [image EXCEPT ![n] = <<secbuf, Half(n)>>]
  /\ n' = n + 1
  /\ Goto(IF n = CPM_LOAD_SECTORS THEN "PATCH" ELSE "LOAD")

(* FDC_READ_SECTOR: a hit needs no drive; a miss begins with               *)
(* FDC_SELECT_DRIVE, whose first byte has the bit that shows the ROM.      *)
FDC_READ_SECTOR ==
  /\ pc = "LOAD"
  /\ \/ /\ cache.valid /\ cache.place = PlaceOf(n)
        /\ Advance(cache.SECBUF)
        /\ UNCHANGED latches
     \/ /\ ~(cache.valid /\ cache.place = PlaceOf(n))
        /\ Out(PIO_PORT_B_DATA, DRIVE_CTRL)
        /\ Goto("SIDE") /\ UNCHANGED <<image, n>>
  /\ UNCHANGED <<low, shadow, vectors, cache, disk, key, mixed>>

FDC_SELECT_SIDE ==
  /\ pc = "SIDE" /\ Goto("FETCH")
  /\ Out(PIO_PORT_A_DATA, SideByte(PlaceOf(n)[1]))
  /\ UNCHANGED <<ram, n, cache, disk, key, mixed>>

(* The seek and the read.  The controller reads the drive, side and        *)
(* density it has been told, if that drive's motor runs.                   *)
DriveReads == disk # NoDisk /\ fdc.drive = 0 /\ fdc.motor /\ fdc.mfm[0]

FetchOk ==
  /\ pc = "FETCH"
  /\ DriveReads
  /\ LET secbuf == <<disk, <<fdc.side, PlaceOf(n)[2]>>>>
     IN  /\ cache' = [valid |-> TRUE, place |-> PlaceOf(n), SECBUF |-> secbuf]
         /\ Advance(secbuf)
  /\ UNCHANGED <<latches, low, shadow, vectors, disk, key, mixed>>

(* A failed read may have put part of a sector into SECBUF. *)
FetchFail ==
  /\ pc = "FETCH" /\ Goto("FAIL")
  /\ ~DriveReads \/ disk \in BadDisk \/ mixed
  /\ \E secbuf \in {cache.SECBUF, Junk} : cache' = [cache EXCEPT !.SECBUF = secbuf]
  /\ UNCHANGED <<latches, ram, n, disk, key, mixed>>

BOOT_FAIL ==
  /\ pc = "FAIL" /\ Goto("KEY")
  /\ BIOS_BOOT
  /\ UNCHANGED <<ram, n, disk, key, mixed>>

(* BIOS_CONIN polls the status register of SIO channel B. *)
Quiet == {}
BIOS_CONIN ==
  /\ pc = "KEY" /\ Goto("RETRY")
  /\ 0 \in MainRead(SIO_CHB_CTRL_PORT, Quiet, key)
  /\ key' = {}
  /\ UNCHANGED <<latches, ram, n, cache, disk, mixed>>

-----------------------------------------------------------------------------
(* CP/M.                                                                   *)

NoPatch ==
  /\ pc = "PATCH" /\ Goto("ENTRY")
  /\ UNCHANGED <<latches, ram, n, cache, disk, key, mixed>>

(* The ROM is visible here; the write goes to the RAM under it. *)
IPL_PATCH_PAGE_ZERO ==
  /\ pc = "PATCH" /\ Goto("ENTRY")
  /\ vectors' = "cpm"
  /\ UNCHANGED <<latches, low, shadow, image, n, cache, disk, key, mixed>>

(* BIOS_BOOT of the resident BIOS, at CPM_BOOT_ADDR. *)
ResidentBoot ==
  /\ pc = "ENTRY" /\ Goto("CPM")
  /\ Out(PIO_PORT_B_DATA, ROM_CTRL_OFF)
  /\ UNCHANGED <<ram, n, cache, disk, key, mixed>>

(* CP/M runs: its BIOS selects drives and sides, and programs use the      *)
(* memory below it as they like, the IPL's variables included.             *)
RunCpm ==
  /\ pc = "CPM"
  /\ \/ \E data \in RESIDENT_DRIVE_CTRL : Out(PIO_PORT_B_DATA, data) /\ UNCHANGED <<low, shadow, cache>>
     \/ \E side \in {0, 1} : Out(PIO_PORT_A_DATA, SideByte(side)) /\ UNCHANGED <<low, shadow, cache>>
     \/ /\ low' = "junk" /\ shadow' = "junk"
        /\ \E p \in Place : cache' = [valid |-> TRUE, place |-> p, SECBUF |-> Junk]
        /\ UNCHANGED latches
  /\ UNCHANGED <<pc, vectors, image, n, disk, key, mixed>>

-----------------------------------------------------------------------------
(* The world.                                                              *)

(* VM::reset at any moment. *)
Reset ==
  /\ LatchReset
  /\ Goto("RESET") /\ key' = {}
  /\ UNCHANGED <<ram, n, cache, disk, mixed>>

Exchange(d) ==
  /\ d # disk /\ disk' = d
  /\ mixed' = (mixed \/ pc \in {"LOAD", "SIDE", "FETCH"})
  /\ UNCHANGED <<latches, pc, ram, n, cache, key>>

Press ==
  /\ key' = {{0}}
  /\ UNCHANGED <<latches, pc, ram, n, cache, disk, mixed>>

(* The RAM is cleared when the program starts. *)
Init ==
  /\ LatchInit
  /\ pc = "RESET"
  /\ low = "junk" /\ shadow = "junk" /\ vectors = "junk"
  /\ image = [r \in Record |-> Junk]
  /\ n = 1
  /\ cache = [valid |-> FALSE, place |-> <<0, 1>>, SECBUF |-> Junk]
  /\ disk \in Disk \cup {NoDisk}
  /\ key = {} /\ mixed = FALSE

Code ==
  \/ RESET \/ IPL_COPY_ROM_TO_SHADOW \/ IPL_SHADOW_ENTRY \/ CopyBack
  \/ RAM_BOOT_START \/ BOOT_RETRY \/ FDC_READ_SECTOR \/ FDC_SELECT_SIDE
  \/ FetchOk \/ FetchFail \/ BOOT_FAIL \/ BIOS_CONIN
  \/ IPL_PATCH_PAGE_ZERO \/ ResidentBoot

Next ==
  \/ Code
  \/ RunCpm
  \/ Reset
  \/ \E d \in Disk \cup {NoDisk} : Exchange(d)
  \/ Press

(* The CPU and the controller do not stop, and a user who is asked for a   *)
(* key presses one.                                                        *)
Spec == Init /\ [][Next]_vars /\ WF_vars(Code) /\ WF_vars(pc = "KEY" /\ Press)

-----------------------------------------------------------------------------

(* The image and the cache are made of sectors of disks that were in the   *)
(* drive, and the count of records never runs past the end (Advance).      *)
BootTypeOK ==
  /\ pc \in {"RESET", "COPY", "SHADOW", "COPY_BACK", "RAM_BOOT", "RETRY", "LOAD", "SIDE",
             "FETCH", "FAIL", "KEY", "PATCH", "ENTRY", "CPM"}
  /\ low \in {"junk", "ipl"} /\ shadow \in {"junk", "ipl"}
  /\ vectors \in {"junk", "ipl", "cpm"}
  /\ image \in [Record -> {Junk} \cup (({Junk} \cup (Disk \X Place)) \X {0, 1})]
  /\ n \in 1 .. CPM_LOAD_SECTORS + 1
  /\ cache \in [valid: BOOLEAN, place: Place, SECBUF: {Junk} \cup (Disk \X Place)]
  /\ disk \in Disk \cup {NoDisk}
  /\ key \in {{}, {{0}}} /\ mixed \in BOOLEAN
TypeOK == LatchTypeOK /\ BootTypeOK

InShadow == {"SHADOW", "COPY_BACK"}
InCpm == {"ENTRY", "CPM"}
InLow == {"RESET", "COPY", "RAM_BOOT", "RETRY", "LOAD", "SIDE", "FETCH", "FAIL", "KEY", "PATCH"}

(* Wherever the bank is switched, by the IPL, by selecting the drive or by *)
(* a reset, the CPU finds the code it is executing in the memory it sees.  *)
CodeIsThere ==
  /\ pc \in InLow => LowRead = "ipl"
  /\ pc \in InShadow => shadow = "ipl"

(* While CP/M runs, JP 0 and CALL 5 reach CP/M and not the IPL ROM, and no *)
(* drive selection brings the ROM back.                                    *)
PageZeroIsCpm == pc = "CPM" => VectorRead = "cpm"

(* CP/M starts from a complete image with every record in its place, all   *)
(* from one disk unless the disk was exchanged while it was read: nothing  *)
(* is left of an attempt that failed, of the disk it failed on, of a cache *)
(* that a failed read or a program has spoiled.                            *)
From(d, r) == <<<<d, PlaceOf(r)>>, Half(r)>>
ImageIsWhole ==
  pc \in InCpm =>
    /\ \A r \in Record : \E d \in Disk : image[r] = From(d, r)
    /\ ~mixed => \E d \in Disk : \A r \in Record : image[r] = From(d, r)

(* With a good disk left in the drive, CP/M comes up, whatever failed      *)
(* before, unless reset is pressed again and again.                        *)
BootCompletes ==
  (\E d \in GoodDisk : <>[](disk = d)) =>
    []<>(pc = "RESET") \/ <>[](pc = "CPM")

=============================================================================
