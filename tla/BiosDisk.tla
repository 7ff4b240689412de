------------------------------ MODULE BiosDisk ------------------------------
(***************************************************************************)
(* The disk calls of the BIOS (bios.asm): 128-byte records over 256-byte   *)
(* sectors through a single-sector, write-through cache in SECBUF.  The    *)
(* BIOS runs alone on the main CPU; what happens around it is the floppy   *)
(* controller, whose commands succeed or fail, the user, who exchanges     *)
(* disks, and the reset button.  A call is cut where it waits for the      *)
(* controller.                                                             *)
(***************************************************************************)
EXTENDS Naturals

CONSTANTS
  Drive,            \* 0 and 1
  Track,            \* track numbers; 0 is one of them
  SectorsPerSide,   \* 16 on the machine
  SystemRecords,    \* records a warm boot reloads from track 0; 16 there
  Data,             \* contents of 128 bytes, as far as they differ
  Images,           \* the disks the user has: contents of a whole drive
  TransferErrors,   \* may a sector read fail after it has transferred data?
  CarefulUser       \* does the user warm-boot after exchanging a disk?

ASSUME DriveIsNat == Drive \subseteq Nat /\ 0 \in Drive
ASSUME TrackIsNat == Track \subseteq Nat /\ 0 \in Track
ASSUME SectorsIsPos == SectorsPerSide \in Nat \ {0}
ASSUME FlagsAreBoolean == TransferErrors \in BOOLEAN /\ CarefulUser \in BOOLEAN

SectorsPerTrack == 4 * SectorsPerSide

ASSUME SystemOnTrack == SystemRecords \in 1 .. (SectorsPerTrack - 1)

Half == {0, 1}
NoStatus == 2       \* A holds something else
Sector == [Half -> Data]
Place == Track \X Half \X (1 .. SectorsPerSide)   \* track, side, sector
Addr == Drive \X Place

ASSUME ImagesAreDisks == Images \subseteq [Place -> Sector]

VARIABLES
  disk,             \* disk[drive][place]: what is in the drives
  CURRENT_DRIVE, CURRENT_TRACK, CURRENT_SECTOR,
  dma,              \* the 128 bytes at DMA_ADDR
  A,                \* the status a READ or WRITE returned, until A is used
  call,             \* "none", or the wait for the controller a call is in
  boot,             \* "done", or where the reload of a warm boot is
  SECBUF,
  CACHE_VALID,
  cache_tag,        \* CACHE_DRIVE, CACHE_TRACK, CACHE_SIDE, CACHE_SECTOR
  exchanged,        \* history: drives with a new disk since the last boot
  spoiled           \* history: SECBUF was hit by a failed read, tags kept

position == <<CURRENT_DRIVE, CURRENT_TRACK, CURRENT_SECTOR>>
cache == <<SECBUF, CACHE_VALID, cache_tag, spoiled>>
vars == <<disk, CURRENT_DRIVE, CURRENT_TRACK, CURRENT_SECTOR, dma, A, call,
          boot, SECBUF, CACHE_VALID, cache_tag, exchanged, spoiled>>

-----------------------------------------------------------------------------
(* FDC_MAP_LOGICAL_SECTOR: CURRENT_HALF, and CURRENT_SIDE with PHYS_SECTOR. *)

CURRENT_HALF(n) == (n - 1) % 2

PlaceOf(t, n) ==
  LET q == (n - 1) \div 2
  IN  IF q < SectorsPerSide THEN <<t, 0, q + 1>>
                            ELSE <<t, 1, q - SectorsPerSide + 1>>

Here == PlaceOf(CURRENT_TRACK, CURRENT_SECTOR)
HereHalf == CURRENT_HALF(CURRENT_SECTOR)

CacheMatchNoSide ==
  /\ CACHE_VALID
  /\ cache_tag[1] = CURRENT_DRIVE
  /\ cache_tag[2][1] = Here[1] /\ cache_tag[2][3] = Here[3]

CacheMatchNoDrive ==
  /\ CACHE_VALID
  /\ cache_tag[2] = Here

FDC_CACHE_MATCH ==
  /\ CACHE_VALID
  /\ cache_tag = <<CURRENT_DRIVE, Here>>

FDC_CACHE_STORE ==
  /\ cache_tag' = <<CURRENT_DRIVE, Here>>
  /\ CACHE_VALID' = TRUE
  /\ spoiled' = FALSE

InvalidateKeepsTag ==
  UNCHANGED <<CACHE_VALID, spoiled, cache_tag>>

FDC_CACHE_INVALIDATE ==
  /\ CACHE_VALID' = FALSE
  /\ spoiled' = FALSE
  /\ UNCHANGED cache_tag

(* What a write command that did not complete leaves in the sector. *)
DiskAfterBrokenWrite ==
  \/ UNCHANGED disk
  \/ \E s \in Sector : disk' = [disk EXCEPT ![CURRENT_DRIVE][Here] = s]

-----------------------------------------------------------------------------
(* The calls that only set a variable.  BDOS passes tracks and sectors of  *)
(* the disk; SELDSK refuses a drive it does not have.                      *)

MayCall ==
  /\ boot = "done" /\ call = "none"
  /\ CarefulUser => exchanged = {}

SelectUnchecked(c) ==
  /\ MayCall
  /\ CURRENT_DRIVE' = c /\ A' = NoStatus
  /\ UNCHANGED <<disk, CURRENT_TRACK, CURRENT_SECTOR, dma, call,
                 boot, cache, exchanged>>

BIOS_SELDSK(c) ==
  /\ MayCall
  /\ CURRENT_DRIVE' = IF c \in Drive THEN c ELSE CURRENT_DRIVE
  /\ A' = NoStatus
  /\ UNCHANGED <<disk, CURRENT_TRACK, CURRENT_SECTOR, dma, call,
                 boot, cache, exchanged>>

BIOS_SETTRK(t) ==
  /\ MayCall
  /\ CURRENT_TRACK' = t /\ A' = NoStatus
  /\ UNCHANGED <<disk, CURRENT_DRIVE, CURRENT_SECTOR, dma, call,
                 boot, cache, exchanged>>

BIOS_SETSEC(n) ==
  /\ MayCall
  /\ CURRENT_SECTOR' = n /\ A' = NoStatus
  /\ UNCHANGED <<disk, CURRENT_DRIVE, CURRENT_TRACK, dma, call,
                 boot, cache, exchanged>>

(* SETTRK 0, then a restore command, whose outcome nobody looks at. *)
BIOS_HOME ==
  /\ MayCall
  /\ CURRENT_TRACK' = 0 /\ A' = NoStatus
  /\ UNCHANGED <<disk, CURRENT_DRIVE, CURRENT_SECTOR, dma, call,
                 boot, cache, exchanged>>

(* The caller points DMA_ADDR at a record or fills the one there. *)
BIOS_SETDMA(d) ==
  /\ MayCall
  /\ dma' = d /\ A' = NoStatus
  /\ UNCHANGED <<disk, position, call, boot, cache, exchanged>>

-----------------------------------------------------------------------------
(* READ and WRITE.                                                         *)

(* FDC_READ_SECTOR up to the read command: a hit copies its half to the    *)
(* DMA address and returns.                                                *)
FDC_READ_SECTOR ==
  /\ IF FDC_CACHE_MATCH
       THEN dma' = SECBUF[HereHalf] /\ A' = 0 /\ UNCHANGED call
       ELSE call' = "read" /\ UNCHANGED <<dma, A>>
  /\ UNCHANGED <<disk, position, cache, exchanged>>

BIOS_READ == MayCall /\ FDC_READ_SECTOR /\ UNCHANGED boot

(* FDC_WRITE_SECTOR up to the first command: a hit merges the DMA half     *)
(* into SECBUF and goes on to the write command.                           *)
BIOS_WRITE ==
  /\ MayCall
  /\ IF FDC_CACHE_MATCH
       THEN SECBUF' = [SECBUF EXCEPT ![HereHalf] = dma] /\ call' = "flush"
       ELSE call' = "write" /\ UNCHANGED SECBUF
  /\ UNCHANGED <<disk, position, dma, A, boot, CACHE_VALID, cache_tag,
                 spoiled, exchanged>>

(* FDC_READ_PHYSICAL_SECTOR succeeds.  A read stores the tags, copies its  *)
(* half and returns; a write merges and goes on, the tags still old.       *)
FetchOk ==
  /\ LET fetched == disk[CURRENT_DRIVE][Here]
     IN  \/ /\ call = "read"
            /\ SECBUF' = fetched
            /\ FDC_CACHE_STORE
            /\ dma' = fetched[HereHalf] /\ A' = 0 /\ call' = "none"
         \/ /\ call = "write"
            /\ SECBUF' = [fetched EXCEPT ![HereHalf] = dma]
            /\ call' = "flush"
            /\ UNCHANGED <<dma, A, CACHE_VALID, cache_tag, spoiled>>
  /\ UNCHANGED <<disk, position, boot, exchanged>>

(* It fails: seek error, drive not ready or record not found leave SECBUF  *)
(* alone; a CRC error, a lost byte or a drive that goes away has put bytes *)
(* there first.  Either way the call returns 1 and the tags are not        *)
(* touched.                                                                *)
FetchFail ==
  /\ call \in {"read", "write"}
  /\ \/ UNCHANGED <<SECBUF, spoiled>>
     \/ /\ TransferErrors
        /\ SECBUF' \in Sector
        /\ spoiled' = CACHE_VALID
  /\ A' = 1 /\ call' = "none"
  /\ UNCHANGED <<disk, position, dma, boot, CACHE_VALID, cache_tag, exchanged>>

(* FDC_WRITE_PHYSICAL_SECTOR succeeds. *)
FlushOk ==
  /\ call = "flush"
  /\ disk' = [disk EXCEPT ![CURRENT_DRIVE][Here] = SECBUF]
  /\ FDC_CACHE_STORE
  /\ A' = 0 /\ call' = "none"
  /\ UNCHANGED <<position, dma, boot, SECBUF, exchanged>>

(* It fails, and FDC_WRITE_SECTOR_FAIL drops the cache. *)
FlushFail ==
  /\ call = "flush"
  /\ DiskAfterBrokenWrite
  /\ FDC_CACHE_INVALIDATE
  /\ A' = 1 /\ call' = "none"
  /\ UNCHANGED <<position, dma, boot, SECBUF, exchanged>>

-----------------------------------------------------------------------------
(* Boots, and the world around the BIOS.                                   *)

(* BIOS_WBOOT up to its loop: drive 0, track 0, sector 1, an invalid cache *)
(* and the DMA address at the start of the CCP.  A program jumps here, and *)
(* the key that ends BIOS_WBOOT_RETRY leads here again.                    *)
WarmBootKeepsCache ==
  /\ call = "none" /\ boot \in {"done", "retry"}
  /\ CURRENT_DRIVE' = 0 /\ CURRENT_TRACK' = 0 /\ CURRENT_SECTOR' = 1
  /\ dma' \in Data /\ A' = NoStatus
  /\ boot' = "ready"
  /\ exchanged' = {}
  /\ UNCHANGED <<disk, call, cache>>

BIOS_WBOOT ==
  /\ call = "none" /\ boot \in {"done", "retry"}
  /\ CURRENT_DRIVE' = 0 /\ CURRENT_TRACK' = 0 /\ CURRENT_SECTOR' = 1
  /\ FDC_CACHE_INVALIDATE
  /\ dma' \in Data /\ A' = NoStatus
  /\ boot' = "ready"
  /\ exchanged' = {}
  /\ UNCHANGED <<disk, call, SECBUF>>

(* BIOS_WBOOT_RELOAD: a READ, and then the next record into the next 128   *)
(* bytes, the return to the CCP after the last, or the retry message.      *)
ReloadRead ==
  /\ boot = "ready"
  /\ FDC_READ_SECTOR
  /\ boot' = "reading"

ReloadNext ==
  /\ boot = "reading" /\ call = "none" /\ A = 0
  /\ CURRENT_SECTOR' = CURRENT_SECTOR + 1
  /\ dma' \in Data /\ A' = NoStatus
  /\ boot' = IF CURRENT_SECTOR = SystemRecords THEN "done" ELSE "ready"
  /\ UNCHANGED <<disk, CURRENT_DRIVE, CURRENT_TRACK, call, cache, exchanged>>

ReloadFailed ==
  /\ boot = "reading" /\ call = "none" /\ A # 0
  /\ boot' = "retry"
  /\ UNCHANGED <<disk, position, dma, A, call, cache, exchanged>>

(* The reset button at any moment, up to the end of BIOS_BOOT: a write in  *)
(* progress is cut short.                                                  *)
BIOS_BOOT ==
  /\ IF call = "flush" THEN DiskAfterBrokenWrite ELSE UNCHANGED disk
  /\ call' = "none" /\ boot' = "done" /\ A' = NoStatus
  /\ CURRENT_DRIVE' = 0 /\ CURRENT_TRACK' = 0 /\ CURRENT_SECTOR' = 1
  /\ FDC_CACHE_INVALIDATE
  /\ exchanged' = {}
  /\ UNCHANGED <<dma, SECBUF>>

(* The user puts another disk into a drive; the machine is not told.  A    *)
(* careful user waits for the prompt, or for the message of a warm boot.   *)
Exchange(d, img) ==
  /\ CarefulUser => call = "none" /\ boot \in {"done", "retry"}
  /\ disk' = [disk EXCEPT ![d] = img]
  /\ exchanged' = exchanged \cup {d}
  /\ UNCHANGED <<position, dma, A, call, boot, cache>>

Init ==
  /\ disk \in [Drive -> Images]
  /\ CURRENT_DRIVE = 0 /\ CURRENT_TRACK = 0 /\ CURRENT_SECTOR = 1
  /\ dma \in Data /\ A = NoStatus /\ call = "none" /\ boot = "done"
  /\ SECBUF \in Sector
  /\ CACHE_VALID = FALSE
  /\ cache_tag \in Addr
  /\ exchanged = {} /\ spoiled = FALSE

Next ==
  \/ \E c \in Drive \cup {2} : BIOS_SELDSK(c)
  \/ \E t \in Track : BIOS_SETTRK(t)
  \/ \E n \in 1 .. SectorsPerTrack : BIOS_SETSEC(n)
  \/ \E d \in Data : BIOS_SETDMA(d)
  \/ BIOS_HOME \/ BIOS_READ \/ BIOS_WRITE
  \/ FetchOk \/ FetchFail \/ FlushOk \/ FlushFail
  \/ BIOS_WBOOT \/ ReloadRead \/ ReloadNext \/ ReloadFailed \/ BIOS_BOOT
  \/ \E d \in Drive, img \in Images : Exchange(d, img)

Spec == Init /\ [][Next]_vars

-----------------------------------------------------------------------------

TypeOK ==
  /\ disk \in [Drive -> [Place -> Sector]]
  /\ CURRENT_DRIVE \in Drive
  /\ CURRENT_TRACK \in Track
  /\ CURRENT_SECTOR \in 1 .. SectorsPerTrack
  /\ dma \in Data
  /\ A \in {0, 1, NoStatus}
  /\ call \in {"none", "read", "write", "flush"}
  /\ boot \in {"done", "ready", "reading", "retry"}
  /\ boot \in {"ready", "reading"} => CURRENT_SECTOR <= SystemRecords
  /\ boot = "ready" => call = "none"
  /\ SECBUF \in Sector
  /\ CACHE_VALID \in BOOLEAN
  /\ cache_tag \in Addr
  /\ exchanged \subseteq Drive
  /\ spoiled \in BOOLEAN

(* A hit is as good as a read of the disk: whenever the BIOS is between    *)
(* calls and the tags are valid, SECBUF is the tagged sector, unless its   *)
(* disk was exchanged without a warm boot or a later read failed after it  *)
(* had overwritten SECBUF (FDC_CACHE_STORE against every path that writes  *)
(* SECBUF or the disk).                                                    *)
CacheCoherent ==
  CACHE_VALID /\ call # "flush" /\ ~spoiled /\ cache_tag[1] \notin exchanged
    => SECBUF = disk[cache_tag[1]][cache_tag[2]]

(* A WRITE that returns 0 has put the caller's record on the disk and left *)
(* the other record of the sector as it was there: the half that comes out *)
(* of the cache is the half the disk has.  A WRITE that fails touches no   *)
(* other sector (FDC_WRITE_SECTOR, hit and miss).                          *)
WriteIsLocal ==
  [][(FlushOk \/ FlushFail) /\ ~spoiled /\ CURRENT_DRIVE \notin exchanged =>
       /\ \A d \in Drive, p \in Place :
            disk'[d][p] # disk[d][p] => d = CURRENT_DRIVE /\ p = Here
       /\ A' = 0 => disk'[CURRENT_DRIVE][Here] =
                      [disk[CURRENT_DRIVE][Here] EXCEPT ![HereHalf] = dma]
    ]_vars

(* READ with status 0 delivers the record of the disk image, whatever      *)
(* happened to the calls before it (BIOS_READ and its cache).              *)
ReadsAreTrue ==
  [][(BIOS_READ \/ ReloadRead \/ FetchOk) /\ call' = "none" =>
       A' = 0 /\ dma' = disk[CURRENT_DRIVE][Here][HereHalf]]_vars

(* The same for a SECBUF no failed read has been through and a drive whose *)
(* disk is the one of the last boot: nothing else makes a READ lie, not    *)
(* the hit after a write, the write after a hit, a failed write, another   *)
(* drive's sector of the same number or a warm boot.                       *)
Sound == ~spoiled /\ CURRENT_DRIVE \notin exchanged

SoundReadsAreTrue ==
  [][(BIOS_READ \/ ReloadRead \/ FetchOk) /\ call' = "none" /\ Sound =>
       A' = 0 /\ dma' = disk[CURRENT_DRIVE][Here][HereHalf]]_vars

(* Under the same condition every step of the calls is one of a plain disk *)
(* of 128-byte records.                                                    *)
Image ==
  [r \in Drive \X Track \X (1 .. SectorsPerTrack) |->
     disk[r[1]][PlaceOf(r[2], r[3])][CURRENT_HALF(r[3])]]
Selected == <<CURRENT_DRIVE, CURRENT_TRACK, CURRENT_SECTOR>>
Records == INSTANCE RecordDisk
             WITH image <- Image, buffer <- dma, status <- A, selected <- Selected
ImplementsRecords ==
  Records!Init /\ [][Sound => [Records!Next]_(Records!world)]_vars

=============================================================================
