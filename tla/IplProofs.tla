------------------------------ MODULE IplProofs ------------------------------
(***************************************************************************)
(* The cold boot never executes bytes that are not there and never starts  *)
(* an image that is not whole, for any disks, any image that fits on the   *)
(* track, any failing reads, and a user who exchanges disks, types and     *)
(* presses reset whenever he likes.                                        *)
(***************************************************************************)
EXTENDS Ipl, TLAPS

USE OneTrack, DriveFits

(* CodeIsThere and PageZeroIsCpm say nothing of the moments they rest on:  *)
(* the bank must be in step with rom_enabled, or a write to port B that    *)
(* changes nothing would leave it wrong; page zero is patched one step     *)
(* before CP/M runs; and the ROM goes off on the way into CP/M.            *)
MapFollows(m) == m.low = IF m.rom_enabled THEN "rom" ELSE "ram"
InRam == InLow \ {"RESET", "COPY"}
CodePart ==
  /\ pc \in {"RESET", "COPY"} => membus.low = "rom"
  /\ pc \in InShadow => shadow = "ipl"
  /\ pc \in InRam => low = "ipl"
  /\ pc \in InCpm => vectors = "cpm"
  /\ pc = "CPM" => membus.low = "ram"

(* ImageIsWhole speaks of the end of the load.  On the way there, every    *)
(* record read so far and the sector in the cache come from a disk, the    *)
(* one in the drive unless it was exchanged; and the controller has been   *)
(* told the side before it reads.                                          *)
Loading == {"LOAD", "SIDE", "FETCH"}
Loaded == {"PATCH", "ENTRY", "CPM"}
MayBe(d) == ~mixed => d = disk
SoFar(m) == \A r \in 1 .. (m - 1) : \E d \in Disk : MayBe(d) /\ image[r] = From(d, r)
CacheTrue == cache.valid => \E d \in Disk : MayBe(d) /\ cache.SECBUF = <<d, cache.place>>
LoadPart ==
  /\ pc \in Loading =>
       /\ n <= CPM_LOAD_SECTORS
       /\ SoFar(n) /\ CacheTrue
  /\ pc = "FETCH" => fdc.side = PlaceOf(n)[1]
Whole ==
  /\ \A r \in Record : \E d \in Disk : image[r] = From(d, r)
  /\ ~mixed => \E d \in Disk : \A r \in Record : image[r] = From(d, r)
ImagePart == LoadPart /\ (pc \in Loaded => Whole)

IInv == TypeOK /\ MapFollows(membus) /\ CodePart /\ ImagePart

-----------------------------------------------------------------------------
(* The latches, whatever is written to them. *)

LEMMA LatchesChanged ==
  ASSUME NEW f \in Latches, NEW a \in Bits, NEW b \in Bits,
         NEW h \in BOOLEAN, NEW i \in BOOLEAN, NEW u \in BOOLEAN, NEW s \in BOOLEAN
  PROVE  [f EXCEPT !.control_a = a, !.control_b = b, !.head_select_n = h,
                   !.in_use_n = i, !.unsafe_reset_n = u, !.disk2_sense = s] \in Latches
BY DEF Latches

LEMMA LatchesTyped ==
  ASSUME NEW f \in Latches, NEW g, g = update_control_latches(f)
  PROVE  g \in Latches /\ g.romen = f.romen /\ g.disk2_sense = (6 \in f.port_a)
<1> DEFINE a == f.port_a \cap {1, 2, 4, 5, 6}
           b == f.port_b \cap {0, 1, 2, 3}
           h == 1 \in a
           i == 2 \in a
           u == 5 \in a
           s == 6 \in a
<1>1. a \in Bits /\ b \in Bits
  BY DEF Latches, Bits
<1>2. h \in BOOLEAN /\ i \in BOOLEAN /\ u \in BOOLEAN /\ s \in BOOLEAN
  OBVIOUS
<1>3. g = [f EXCEPT !.control_a = a, !.control_b = b, !.head_select_n = h,
                    !.in_use_n = i, !.unsafe_reset_n = u, !.disk2_sense = s]
  BY DEF update_control_latches
<1>4. g.romen = f.romen /\ g.disk2_sense = (6 \in f.port_a)
  BY <1>3 DEF Latches
<1> HIDE DEF a, b, h, i, u, s
<1>5. [f EXCEPT !.control_a = a, !.control_b = b, !.head_select_n = h,
                !.in_use_n = i, !.unsafe_reset_n = u, !.disk2_sense = s] \in Latches
  BY <1>1, <1>2, LatchesChanged, ZenonT(30)
<1>6. QED
  BY <1>3, <1>4, <1>5

LEMMA SignalsTyped ==
  ASSUME NEW f \in Latches, NEW c \in Controller
  PROVE  Signals(f, c) \in Controller
<1>1. DriveOf(f) \in 0 .. 3 /\ SideSignal(f) \in {0, 1} /\ Ready(f) \in BOOLEAN
  BY DEF DriveOf, SideSignal, Ready
<1>2. [d \in Drive |-> IF d = DriveOf(f) THEN 4 \in f.control_a ELSE c.mfm[d]]
        \in [Drive -> BOOLEAN]
  <2>1. \A d \in Drive : c.mfm[d] \in BOOLEAN
    BY DEF Controller
  <2>2. (4 \in f.control_a) \in BOOLEAN
    OBVIOUS
  <2>3. QED
    BY <2>1, <2>2, Zenon
<1>3. QED
  BY <1>1, <1>2 DEF Signals, Controller

LEMMA RomenMaps ==
  ASSUME NEW m \in Bank, MapFollows(m), NEW next \in BOOLEAN
  PROVE  /\ Romen(m, next) \in Bank
         /\ MapFollows(Romen(m, next))
         /\ Romen(m, next).low = IF next THEN "rom" ELSE "ram"
BY DEF Romen, update_memory_map, Bank, MapFollows

-----------------------------------------------------------------------------
(* Writes to the ports. *)

BankOK == LatchTypeOK /\ MapFollows(membus)

LEMMA PortAStep ==
  ASSUME BankOK, NEW data, Out(PIO_PORT_A_DATA, data)
  PROVE  /\ BankOK' /\ membus' = membus
         /\ fdc'.side = IF 6 \in data THEN 1 ELSE 0
<1>1. MainSelect(PIO_PORT_A_DATA) = At("pio", 0)
  BY DEF MainSelect, PIO_PORT_A_DATA, MainIoGroup, io_group, io_decoder_enabled,
         main_minsub_selected, swapped_reg, io_reg, At, Nothing
<1>2. WritePortA(data)
  BY <1>1 DEF Out, PioWrite, At
<1> DEFINE f == [floppy EXCEPT !.port_a = data \cap {1, 2, 4, 5, 6}]
<1>3. f \in Latches /\ (6 \in f.port_a <=> 6 \in data)
  BY DEF BankOK, LatchTypeOK, Latches, Bits
<1> HIDE DEF f
<1>4. /\ floppy' = update_control_latches(f) /\ fdc' = Signals(floppy', fdc)
      /\ membus' = membus
  BY <1>2 DEF WritePortA, PortA, f
<1>5. floppy' \in Latches /\ floppy'.disk2_sense = (6 \in f.port_a)
  BY <1>3, <1>4, LatchesTyped
<1>6. fdc' \in Controller
  BY <1>4, <1>5, SignalsTyped DEF BankOK, LatchTypeOK
<1>7. floppy'.disk2_sense <=> 6 \in data
  BY <1>3, <1>5, Zenon
<1>8. fdc'.side = SideSignal(floppy')
  BY <1>4 DEF Signals
<1>9. fdc'.side = IF 6 \in data THEN 1 ELSE 0
  BY <1>7, <1>8 DEF SideSignal
<1>10. QED
  BY <1>4, <1>5, <1>6, <1>9 DEF BankOK, LatchTypeOK

LEMMA PortBStep ==
  ASSUME BankOK, NEW data, Out(PIO_PORT_B_DATA, data)
  PROVE  BankOK' /\ membus'.low = IF 7 \in data THEN "rom" ELSE "ram"
<1>1. MainSelect(PIO_PORT_B_DATA) = At("pio", 2)
  BY DEF MainSelect, PIO_PORT_B_DATA, MainIoGroup, io_group, io_decoder_enabled,
         main_minsub_selected, swapped_reg, io_reg, At, Nothing
<1>2. WritePortB(data)
  BY <1>1 DEF Out, PioWrite, At
<1> DEFINE b == data \cap {0, 1, 2, 3, 7}
           r == 7 \in data
           f == [floppy EXCEPT !.port_b = b, !.romen = r]
<1>3. b \in Bits /\ r \in BOOLEAN /\ (r <=> 7 \in data)
  BY DEF Bits
<1>4. /\ floppy' = update_control_latches(f) /\ fdc' = Signals(floppy', fdc)
      /\ membus' = Romen(membus, floppy'.romen)
  BY <1>2 DEF WritePortB, PortB
<1> HIDE DEF b, r
<1>5. f \in Latches /\ f.romen = r
  BY <1>3 DEF BankOK, LatchTypeOK, Latches
<1> HIDE DEF f
<1>6. floppy' \in Latches /\ floppy'.romen = r
  BY <1>4, <1>5, LatchesTyped
<1>7. fdc' \in Controller
  BY <1>4, <1>6, SignalsTyped DEF BankOK, LatchTypeOK
<1>8. /\ membus' \in Bank /\ MapFollows(membus')
      /\ membus'.low = IF r THEN "rom" ELSE "ram"
  BY <1>3, <1>4, <1>6, RomenMaps DEF BankOK, LatchTypeOK
<1>9. QED
  BY <1>3, <1>6, <1>7, <1>8 DEF BankOK, LatchTypeOK

LEMMA ResetTyped ==
  ASSUME NEW c \in Controller
  PROVE  /\ FloppyReset \in Latches /\ FloppyReset.romen = TRUE
         /\ Signals(FloppyReset, c) \in Controller
<1> DEFINE f == [port_a |-> {}, port_b |-> {7}, control_a |-> {}, control_b |-> {},
                 head_select_n |-> TRUE, in_use_n |-> TRUE, unsafe_reset_n |-> TRUE,
                 disk2_sense |-> FALSE, romen |-> TRUE]
<1>1. f \in Latches /\ f.romen = TRUE
  <2>1. {} \in Bits /\ {7} \in Bits
    BY DEF Bits
  <2>2. QED
    BY <2>1 DEF Latches
<1>2. FloppyReset = update_control_latches(f)
  BY DEF FloppyReset
<1> HIDE DEF f
<1>3. FloppyReset \in Latches /\ FloppyReset.romen = TRUE
  BY <1>1, <1>2, LatchesTyped
<1>4. QED
  BY <1>3, SignalsTyped

LEMMA LatchResetStep ==
  ASSUME BankOK, LatchReset
  PROVE  BankOK' /\ membus'.low = "rom"
<1>1. MembusReset \in Bank /\ MapFollows(MembusReset)
  BY DEF BankOK, LatchTypeOK, MembusReset, update_memory_map, Bank, MapFollows
<1>2. membus' = Romen(MembusReset, floppy'.romen) /\ floppy' = FloppyReset
      /\ fdc' = Signals(floppy', fdc)
  BY DEF LatchReset
<1>3. QED
  BY <1>1, <1>2, ResetTyped, RomenMaps DEF BankOK, LatchTypeOK

-----------------------------------------------------------------------------
(* The records of the image. *)

LEMMA PlaceType ==
  ASSUME NEW r \in Record
  PROVE  PlaceOf(r) \in Place /\ Half(r) \in {0, 1}
<1> DEFINE q == (r - 1) \div 2
<1>1. q \in Nat /\ q < 2 * SectorsPerSide
  BY DEF Record
<1>2. CASE q < SectorsPerSide
  <2>1. q + 1 \in 1 .. SectorsPerSide
    BY <1>1, <1>2
  <2>2. QED BY <1>2, <2>1 DEF PlaceOf, Place, Half, Record
<1>3. CASE ~(q < SectorsPerSide)
  <2>1. q - SectorsPerSide + 1 \in 1 .. SectorsPerSide
    BY <1>1, <1>3
  <2>2. QED BY <1>3, <2>1 DEF PlaceOf, Place, Half, Record
<1>4. QED BY <1>2, <1>3

-----------------------------------------------------------------------------
(* Types.                                                                  *)

(* Which steps write to a port, and which leave the latches alone. *)
LEMMA BankStep ==
  ASSUME BankOK, [Next]_vars
  PROVE  BankOK'
<1> USE DEF BankOK
<1>1. ASSUME UNCHANGED latches PROVE BankOK'
  BY <1>1 DEF latches, LatchTypeOK
<1>2. ASSUME NEW data, Out(PIO_PORT_B_DATA, data) PROVE BankOK'
  BY <1>2, PortBStep
<1>3. ASSUME NEW data, Out(PIO_PORT_A_DATA, data) PROVE BankOK'
  BY <1>3, PortAStep
<1>4. ASSUME LatchReset PROVE BankOK'
  BY <1>4, LatchResetStep
<1> HIDE DEF BankOK
<1>5. CASE Code
  BY <1>1, <1>2, <1>3, <1>5
  DEF Code, RESET, IPL_COPY_ROM_TO_SHADOW, IPL_SHADOW_ENTRY, CopyBack, RAM_BOOT_START,
      BOOT_RETRY, BIOS_BOOT, FDC_READ_SECTOR, FDC_SELECT_SIDE, FetchOk, FetchFail,
      BOOT_FAIL, BIOS_CONIN, IPL_PATCH_PAGE_ZERO, ResidentBoot
<1>6. CASE RunCpm
  BY <1>1, <1>2, <1>3, <1>6 DEF RunCpm
<1>7. CASE Reset
  BY <1>4, <1>7 DEF Reset
<1>8. ASSUME NEW d, Exchange(d) PROVE BankOK'
  BY <1>1, <1>8 DEF Exchange
<1>9. CASE Press
  BY <1>1, <1>9 DEF Press
<1>10. CASE UNCHANGED vars
  BY <1>1, <1>10 DEF vars, latches
<1>11. QED
  BY <1>5, <1>6, <1>7, <1>8, <1>9, <1>10 DEF Next

LEMMA BootTypeStep ==
  ASSUME IInv, [Next]_vars
  PROVE  BootTypeOK'
<1>0. BootTypeOK /\ BankOK
  BY DEF IInv, TypeOK, BootTypeOK, BankOK
<1> USE DEF BootTypeOK, ram, Goto
<1>1. CASE RESET
  BY <1>0, <1>1 DEF RESET
<1>2. CASE IPL_COPY_ROM_TO_SHADOW
  BY <1>0, <1>2 DEF IPL_COPY_ROM_TO_SHADOW, LowRead
<1>3. CASE IPL_SHADOW_ENTRY
  BY <1>0, <1>3 DEF IPL_SHADOW_ENTRY
<1>4. CASE CopyBack
  BY <1>0, <1>4 DEF CopyBack
<1>5. CASE RAM_BOOT_START
  BY <1>0, <1>5 DEF RAM_BOOT_START, BIOS_BOOT
<1>6. CASE BOOT_RETRY
  <2>1. 1 \in 1 .. CPM_LOAD_SECTORS + 1
    OBVIOUS
  <2>2. cache' = [cache EXCEPT !.valid = FALSE] /\ pc' = "LOAD" /\ n' = 1 /\ mixed' = FALSE
        /\ UNCHANGED <<low, shadow, vectors, image, disk, key>>
    BY <1>6 DEF BOOT_RETRY, BIOS_BOOT
  <2>3. QED
    BY <1>0, <2>1, <2>2
<1>7. CASE FDC_READ_SECTOR
  <2>1. n \in Record /\ n + 1 \in 1 .. CPM_LOAD_SECTORS + 1
    BY <1>0, <1>7 DEF FDC_READ_SECTOR, Record, IInv, ImagePart, LoadPart, Loading
  <2>2. Half(n) \in {0, 1}
    BY <2>1, PlaceType
  <2>3. QED
    BY <1>0, <1>7, <2>1, <2>2 DEF FDC_READ_SECTOR, Advance
<1>8. CASE FDC_SELECT_SIDE
  BY <1>0, <1>8 DEF FDC_SELECT_SIDE
<1>9. CASE FetchOk
  <2>1. n \in Record /\ n + 1 \in 1 .. CPM_LOAD_SECTORS + 1
    BY <1>0, <1>9 DEF FetchOk, Record, IInv, ImagePart, LoadPart, Loading
  <2>2. PlaceOf(n) \in Place /\ Half(n) \in {0, 1}
    BY <2>1, PlaceType
  <2>3. <<disk, <<fdc.side, PlaceOf(n)[2]>>>> \in Disk \X Place
    BY <1>0, <1>9, <2>2
    DEF FetchOk, DriveReads, BankOK, LatchTypeOK, Controller, Place
  <2>4. QED
    BY <1>0, <1>9, <2>1, <2>2, <2>3 DEF FetchOk, Advance
<1>10. CASE FetchFail
  BY <1>0, <1>10 DEF FetchFail
<1>11. CASE BOOT_FAIL
  BY <1>0, <1>11 DEF BOOT_FAIL, BIOS_BOOT
<1>12. CASE BIOS_CONIN
  BY <1>0, <1>12 DEF BIOS_CONIN
<1>13. CASE IPL_PATCH_PAGE_ZERO
  BY <1>0, <1>13 DEF IPL_PATCH_PAGE_ZERO
<1>14. CASE ResidentBoot
  BY <1>0, <1>14 DEF ResidentBoot
<1>15. CASE RunCpm
  <2>1. UNCHANGED <<pc, vectors, image, n, disk, key, mixed>>
    BY <1>15 DEF RunCpm
  <2>2. CASE UNCHANGED <<low, shadow, cache>>
    BY <1>0, <2>1, <2>2
  <2>3. ASSUME low' = "junk", shadow' = "junk",
               NEW p \in Place, cache' = [valid |-> TRUE, place |-> p, SECBUF |-> Junk]
        PROVE  BootTypeOK'
    BY <1>0, <2>1, <2>3
  <2>4. QED
    BY <1>15, <2>2, <2>3 DEF RunCpm
<1>16. CASE Reset
  BY <1>0, <1>16 DEF Reset
<1>17. ASSUME NEW d \in Disk \cup {NoDisk}, Exchange(d) PROVE BootTypeOK'
  BY <1>0, <1>17 DEF Exchange
<1>18. CASE Press
  BY <1>0, <1>18 DEF Press
<1>19. CASE UNCHANGED vars
  BY <1>0, <1>19 DEF vars
<1>20. QED
  BY <1>1, <1>2, <1>3, <1>4, <1>5, <1>6, <1>7, <1>8, <1>9, <1>10, <1>11, <1>12,
     <1>13, <1>14, <1>15, <1>16, <1>17, <1>18, <1>19 DEF Next, Code

LEMMA TypeStep == IInv /\ [Next]_vars => TypeOK' /\ MapFollows(membus')
<1> SUFFICES ASSUME IInv, [Next]_vars PROVE TypeOK' /\ MapFollows(membus')
  OBVIOUS
<1>1. BankOK'
  BY BankStep DEF IInv, TypeOK, BankOK
<1>2. BootTypeOK'
  BY BootTypeStep
<1>3. QED
  BY <1>1, <1>2 DEF BankOK, BootTypeOK, TypeOK

LEMMA TypeInit == Init => TypeOK /\ MapFollows(membus)
<1> SUFFICES ASSUME Init PROVE TypeOK /\ MapFollows(membus)
  OBVIOUS
<1>1. BankOK
  <2> DEFINE c == [drive |-> 0, side |-> 0, mfm |-> [d \in Drive |-> FALSE],
                   motor |-> FALSE]
  <2>1. c \in Controller
    BY DEF Controller
  <2>2. fdc = Signals(floppy, c) /\ floppy = FloppyReset
    BY DEF Init, LatchInit, Signals
  <2> HIDE DEF c
  <2>3. floppy \in Latches /\ fdc \in Controller
    BY <2>1, <2>2, ResetTyped
  <2>4. membus \in Bank /\ MapFollows(membus)
    BY DEF Init, LatchInit, Bank, MapFollows
  <2>5. QED
    BY <2>3, <2>4 DEF BankOK, LatchTypeOK
<1>2. BootTypeOK
  <2>1. <<0, 1>> \in Place /\ 1 \in 1 .. CPM_LOAD_SECTORS + 1
    BY DEF Place
  <2>2. QED
    BY <2>1 DEF Init, BootTypeOK
<1>3. QED
  BY <1>1, <1>2 DEF BankOK, BootTypeOK, TypeOK

-----------------------------------------------------------------------------
(* The code. *)

LEMMA CodeStep ==
  ASSUME IInv, [Next]_vars
  PROVE  CodePart'
<1>0. CodePart /\ BankOK
  BY DEF IInv, TypeOK, BankOK
<1> USE DEF CodePart, InRam, InLow, InShadow, InCpm, ram, Goto
<1>1. CASE RESET
  <2>1. membus'.low = "rom"
    BY <1>0, <1>1, PortBStep DEF RESET, ROM_CTRL_BOOT
  <2>2. QED
    BY <1>1, <2>1 DEF RESET
<1>2. CASE IPL_COPY_ROM_TO_SHADOW
  BY <1>0, <1>2 DEF IPL_COPY_ROM_TO_SHADOW, LowRead
<1>3. CASE IPL_SHADOW_ENTRY
  BY <1>0, <1>3 DEF IPL_SHADOW_ENTRY
<1>4. CASE CopyBack
  BY <1>0, <1>4 DEF CopyBack
<1>5. CASE RAM_BOOT_START
  BY <1>0, <1>5 DEF RAM_BOOT_START
<1>6. CASE BOOT_RETRY
  BY <1>0, <1>6 DEF BOOT_RETRY
<1>7. CASE FDC_READ_SECTOR
  BY <1>0, <1>7 DEF FDC_READ_SECTOR, Advance
<1>8. CASE FDC_SELECT_SIDE
  BY <1>0, <1>8 DEF FDC_SELECT_SIDE
<1>9. CASE FetchOk
  BY <1>0, <1>9 DEF FetchOk, Advance
<1>10. CASE FetchFail
  BY <1>0, <1>10 DEF FetchFail
<1>11. CASE BOOT_FAIL
  BY <1>0, <1>11 DEF BOOT_FAIL
<1>12. CASE BIOS_CONIN
  BY <1>0, <1>12 DEF BIOS_CONIN
<1>13. CASE IPL_PATCH_PAGE_ZERO
  BY <1>13 DEF IPL_PATCH_PAGE_ZERO
<1>14. CASE ResidentBoot
  <2>1. membus'.low = "ram"
    BY <1>0, <1>14, PortBStep DEF ResidentBoot, ROM_CTRL_OFF
  <2>2. QED
    BY <1>0, <1>14, <2>1 DEF ResidentBoot
<1>15. CASE RunCpm
  <2>1. pc = "CPM" /\ pc' = "CPM" /\ vectors' = vectors
    BY <1>15 DEF RunCpm
  <2>2. ASSUME NEW data \in RESIDENT_DRIVE_CTRL, Out(PIO_PORT_B_DATA, data)
        PROVE  membus'.low = "ram"
    BY <1>0, <2>2, PortBStep DEF RESIDENT_DRIVE_CTRL
  <2>3. ASSUME NEW data, Out(PIO_PORT_A_DATA, data)
        PROVE  membus' = membus
    BY <1>0, <2>3, PortAStep
  <2>4. membus'.low = "ram"
    BY <1>0, <1>15, <2>1, <2>2, <2>3 DEF RunCpm, latches
  <2>5. QED
    BY <1>0, <2>1, <2>4
<1>16. CASE Reset
  <2>1. membus'.low = "rom"
    BY <1>0, <1>16, LatchResetStep DEF Reset
  <2>2. QED
    BY <1>16, <2>1 DEF Reset
<1>17. ASSUME NEW d, Exchange(d) PROVE CodePart'
  BY <1>0, <1>17 DEF Exchange, latches
<1>18. CASE Press
  BY <1>0, <1>18 DEF Press, latches
<1>19. CASE UNCHANGED vars
  BY <1>0, <1>19 DEF vars
<1>20. QED
  BY <1>1, <1>2, <1>3, <1>4, <1>5, <1>6, <1>7, <1>8, <1>9, <1>10, <1>11, <1>12,
     <1>13, <1>14, <1>15, <1>16, <1>17, <1>18, <1>19 DEF Next, Code

-----------------------------------------------------------------------------
(* The image. *)

(* A record from the sector it lies in goes to its place, and after the    *)
(* last one the image is whole.                                            *)
LEMMA Advances ==
  ASSUME IInv, pc \in Loading, UNCHANGED <<disk, mixed>>,
         NEW d \in Disk, MayBe(d), Advance(<<d, PlaceOf(n)>>),
         CacheTrue'
  PROVE  ImagePart'
<1>1. /\ n \in Record /\ SoFar(n)
      /\ image \in [Record -> {Junk} \cup (({Junk} \cup (Disk \X Place)) \X {0, 1})]
  BY DEF IInv, ImagePart, LoadPart, SoFar, TypeOK, BootTypeOK, Record
<1>2. image' = [image EXCEPT ![n] = From(d, n)] /\ n' = n + 1
  BY DEF Advance, From
<1>3. image'[n] = From(d, n) /\ \A r \in Record : r # n => image'[r] = image[r]
  BY <1>1, <1>2
<1>4. ASSUME NEW r \in 1 .. n
      PROVE  \E e \in Disk : MayBe(e)' /\ image'[r] = From(e, r)
  <2>1. CASE r = n
    BY <1>3, <2>1 DEF MayBe
  <2>2. CASE r # n
    <3>1. r \in 1 .. (n - 1) /\ r \in Record
      BY <1>1, <2>2 DEF Record
    <3>2. PICK e \in Disk : MayBe(e) /\ image[r] = From(e, r)
      BY <1>1, <3>1 DEF SoFar
    <3>3. MayBe(e)' /\ image'[r] = From(e, r)
      BY <1>3, <2>2, <3>1, <3>2 DEF MayBe
    <3>4. QED
      BY <3>3
  <2>3. QED
    BY <2>1, <2>2
<1>5. CASE n < CPM_LOAD_SECTORS
  <2>1. pc' = "LOAD" /\ n' <= CPM_LOAD_SECTORS /\ n' - 1 = n
    BY <1>1, <1>2, <1>5 DEF Advance, Goto, Record
  <2>2. SoFar(n)'
    BY <1>4, <2>1 DEF SoFar
  <2>3. QED
    BY <2>1, <2>2 DEF ImagePart, LoadPart, Loading, Loaded, CacheTrue, SoFar
<1>6. CASE n = CPM_LOAD_SECTORS
  <2>1. pc' = "PATCH"
    BY <1>6 DEF Advance, Goto
  <2>2. \A r \in Record : \E e \in Disk : image'[r] = From(e, r)
    BY <1>4, <1>6 DEF Record
  <2>3. ASSUME ~mixed'
        PROVE  \E e \in Disk : \A r \in Record : image'[r] = From(e, r)
    <3>1. \A r \in Record : image'[r] = From(d, r)
      BY <1>4, <1>6, <2>3 DEF Record, MayBe
    <3>2. QED
      BY <3>1
  <2>4. Whole'
    BY <2>2, <2>3 DEF Whole
  <2>5. QED
    BY <2>1, <2>4 DEF ImagePart, LoadPart, Loading, Loaded
<1>7. QED
  BY <1>1, <1>5, <1>6 DEF Record

(* Steps of the load that read nothing. *)
LEMMA StillLoading ==
  ASSUME IInv, pc \in Loading, pc' \in Loading,
         UNCHANGED <<image, n, cache>>,
         UNCHANGED <<disk, mixed>> \/ mixed',
         pc' = "FETCH" => fdc'.side = PlaceOf(n)[1]
  PROVE  ImagePart'
BY DEF IInv, ImagePart, LoadPart, SoFar, CacheTrue, Loading, Loaded, MayBe

LEMMA StillWhole ==
  ASSUME IInv, pc \in Loaded, pc' \in Loaded, UNCHANGED <<image, mixed>>
  PROVE  ImagePart'
BY DEF IInv, ImagePart, LoadPart, Loading, Loaded, Whole

LEMMA NoLoad ==
  ASSUME pc' \notin Loading, pc' \notin Loaded
  PROVE  ImagePart'
BY DEF ImagePart, LoadPart, Loading

LEMMA ImageStep ==
  ASSUME IInv, [Next]_vars
  PROVE  ImagePart'
<1>0. ImagePart /\ BankOK /\ TypeOK
  BY DEF IInv, TypeOK, BootTypeOK, BankOK
<1> USE DEF Loading, Loaded, ram, Goto
<1>1. CASE RESET \/ IPL_COPY_ROM_TO_SHADOW \/ IPL_SHADOW_ENTRY \/ CopyBack
           \/ RAM_BOOT_START \/ FetchFail \/ BOOT_FAIL \/ BIOS_CONIN \/ Reset
  BY <1>1, NoLoad
  DEF RESET, IPL_COPY_ROM_TO_SHADOW, IPL_SHADOW_ENTRY, CopyBack, RAM_BOOT_START,
      FetchFail, BOOT_FAIL, BIOS_CONIN, Reset
<1>2. CASE BOOT_RETRY
  <2>1. pc' = "LOAD" /\ n' = 1 /\ ~cache'.valid
    BY <1>0, <1>2 DEF BOOT_RETRY, BIOS_BOOT, TypeOK, BootTypeOK
  <2>2. QED
    BY <2>1 DEF ImagePart, LoadPart, SoFar, CacheTrue
<1>3. CASE FDC_READ_SECTOR
  <2>1. pc = "LOAD" /\ UNCHANGED <<cache, disk, mixed>>
    BY <1>3 DEF FDC_READ_SECTOR
  <2>2. CASE cache.valid /\ cache.place = PlaceOf(n) /\ Advance(cache.SECBUF)
    <3>1. CacheTrue
      BY <1>0, <2>1 DEF ImagePart, LoadPart, CacheTrue
    <3>2. PICK d \in Disk : MayBe(d) /\ cache.SECBUF = <<d, PlaceOf(n)>>
      BY <2>2, <3>1 DEF CacheTrue
    <3>3. CacheTrue'
      BY <2>1, <3>1 DEF CacheTrue, MayBe
    <3>4. QED
      BY <2>1, <2>2, <3>2, <3>3, Advances
  <2>3. CASE pc' = "SIDE" /\ UNCHANGED <<image, n>>
    BY <2>1, <2>3, StillLoading
  <2>4. QED
    BY <1>3, <2>2, <2>3 DEF FDC_READ_SECTOR
<1>4. CASE FDC_SELECT_SIDE
  <2>1. /\ pc = "SIDE" /\ pc' = "FETCH" /\ UNCHANGED <<image, n, cache, disk, mixed>>
        /\ Out(PIO_PORT_A_DATA, SideByte(PlaceOf(n)[1]))
    BY <1>4 DEF FDC_SELECT_SIDE
  <2>2. PlaceOf(n)[1] \in {0, 1}
    BY <1>0, <2>1, PlaceType DEF ImagePart, LoadPart, TypeOK, BootTypeOK, Record, Place
  <2>3. fdc'.side = PlaceOf(n)[1]
    BY <1>0, <2>1, <2>2, PortAStep DEF SideByte
  <2>4. QED
    BY <2>1, <2>3, StillLoading
<1>5. CASE FetchOk
  <2> DEFINE secbuf == <<disk, <<fdc.side, PlaceOf(n)[2]>>>>
  <2>1. /\ pc = "FETCH" /\ disk # NoDisk /\ UNCHANGED <<disk, mixed>>
        /\ cache' = [valid |-> TRUE, place |-> PlaceOf(n), SECBUF |-> secbuf]
        /\ Advance(secbuf)
    BY <1>5 DEF FetchOk, DriveReads
  <2>2. disk \in Disk /\ MayBe(disk)
    BY <1>0, <2>1 DEF TypeOK, BootTypeOK, MayBe
  <2>3. secbuf = <<disk, PlaceOf(n)>>
    <3>1. PlaceOf(n) \in Place
      BY <1>0, <2>1, PlaceType DEF ImagePart, LoadPart, TypeOK, BootTypeOK, Record
    <3>2. fdc.side = PlaceOf(n)[1]
      BY <1>0, <2>1 DEF ImagePart, LoadPart
    <3>3. QED
      BY <3>1, <3>2 DEF Place
  <2> HIDE DEF secbuf
  <2>4. CacheTrue'
    BY <2>1, <2>2, <2>3 DEF CacheTrue, MayBe
  <2>5. QED
    BY <2>1, <2>2, <2>3, <2>4, Advances
<1>6. CASE IPL_PATCH_PAGE_ZERO
  BY <1>6, StillWhole DEF IPL_PATCH_PAGE_ZERO
<1>7. CASE ResidentBoot
  BY <1>7, StillWhole DEF ResidentBoot
<1>8. CASE RunCpm
  BY <1>8, StillWhole DEF RunCpm
<1>9. ASSUME NEW d \in Disk \cup {NoDisk}, Exchange(d) PROVE ImagePart'
  <2>1. /\ UNCHANGED <<pc, image, n, cache, fdc>>
        /\ mixed' = (mixed \/ pc \in {"LOAD", "SIDE", "FETCH"})
    BY <1>9 DEF Exchange, latches
  <2>2. CASE pc \in Loading
    <3>1. mixed'
      BY <2>1, <2>2
    <3>2. pc' = "FETCH" => fdc'.side = PlaceOf(n)[1]
      BY <1>0, <2>1 DEF ImagePart, LoadPart
    <3>3. QED
      BY <2>1, <2>2, <3>1, <3>2, StillLoading
  <2>3. CASE pc \in Loaded
    <3>1. mixed' = mixed
      BY <1>0, <2>1, <2>3 DEF TypeOK, BootTypeOK
    <3>2. QED
      BY <2>1, <2>3, <3>1, StillWhole
  <2>4. CASE pc \notin Loading /\ pc \notin Loaded
    BY <2>1, <2>4, NoLoad
  <2>5. QED
    BY <2>2, <2>3, <2>4
<1>10. CASE Press \/ UNCHANGED vars
  <2>1. UNCHANGED <<pc, image, n, cache, fdc, disk, mixed>>
    BY <1>10 DEF Press, latches, vars
  <2>2. QED
    BY <1>0, <2>1 DEF ImagePart, LoadPart, SoFar, CacheTrue, Whole, MayBe
<1>11. QED
  BY <1>1, <1>2, <1>3, <1>4, <1>5, <1>6, <1>7, <1>8, <1>9, <1>10 DEF Next, Code

-----------------------------------------------------------------------------

LEMMA Inductive == IInv /\ [Next]_vars => IInv'
BY TypeStep, CodeStep, ImageStep DEF IInv

LEMMA Initially == Init => IInv
<1> SUFFICES ASSUME Init PROVE IInv
  OBVIOUS
<1>1. pc = "RESET" /\ membus.low = "rom"
  BY DEF Init, LatchInit
<1>2. QED
  BY <1>1, TypeInit
  DEF IInv, CodePart, InRam, InLow, InShadow, InCpm, ImagePart, LoadPart, Loading, Loaded

(* Every value of the state variables has its type. *)
THEOREM TypeCorrect == Spec => []TypeOK
<1>1. IInv => TypeOK
  BY DEF IInv
<1>2. QED
  BY <1>1, Initially, Inductive, PTL DEF Spec

(* Wherever the bank is switched, by the IPL, by a drive selection or by a *)
(* reset, the CPU finds its code in the memory it sees.                    *)
THEOREM CodeStaysThere == Spec => []CodeIsThere
<1>1. IInv => CodeIsThere
  BY DEF IInv, CodePart, CodeIsThere, LowRead, InRam, InLow, InShadow
<1>2. QED
  BY <1>1, Initially, Inductive, PTL DEF Spec

(* While CP/M runs, page zero is the one the IPL has patched, and no drive *)
(* selection of the resident BIOS brings the ROM back.                     *)
THEOREM PageZeroStaysCpm == Spec => []PageZeroIsCpm
<1>1. IInv => PageZeroIsCpm
  BY DEF IInv, CodePart, PageZeroIsCpm, VectorRead, InCpm
<1>2. QED
  BY <1>1, Initially, Inductive, PTL DEF Spec

(* CP/M starts from a complete image with every record in its place, from  *)
(* one disk unless the disk was exchanged during the load, whatever failed *)
(* before.                                                                 *)
THEOREM ImageStaysWhole == Spec => []ImageIsWhole
<1>1. IInv => ImageIsWhole
  BY DEF IInv, ImagePart, Whole, ImageIsWhole, Loaded, InCpm
<1>2. QED
  BY <1>1, Initially, Inductive, PTL DEF Spec

=============================================================================
