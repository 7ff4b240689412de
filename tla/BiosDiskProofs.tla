--------------------------- MODULE BiosDiskProofs ---------------------------
(***************************************************************************)
(* The sector cache of the BIOS, for any number of drives and tracks, any  *)
(* geometry, any disks, any failing commands and any user.                 *)
(***************************************************************************)
EXTENDS BiosDisk, TLAPS

USE DriveIsNat, TrackIsNat, SectorsIsPos, SystemOnTrack, FlagsAreBoolean,
    ImagesAreDisks

-----------------------------------------------------------------------------
(* The logical-sector arithmetic stays on the disk. *)

LEMMA HalfType ==
  ASSUME NEW n \in 1 .. SectorsPerTrack
  PROVE  CURRENT_HALF(n) \in Half
BY DEF SectorsPerTrack, CURRENT_HALF, Half

LEMMA PlaceType ==
  ASSUME NEW n \in 1 .. SectorsPerTrack, NEW t \in Track
  PROVE  PlaceOf(t, n) \in Place
<1> DEFINE q == (n - 1) \div 2
<1>1. q \in Nat /\ q < 2 * SectorsPerSide
  BY DEF SectorsPerTrack
<1>2. CASE q < SectorsPerSide
  <2>1. q + 1 \in 1 .. SectorsPerSide
    BY <1>1, <1>2
  <2>2. QED BY <1>2, <2>1 DEF PlaceOf, Place, Half
<1>3. CASE ~(q < SectorsPerSide)
  <2>1. q - SectorsPerSide + 1 \in 1 .. SectorsPerSide
    BY <1>1, <1>3
  <2>2. QED BY <1>3, <2>1 DEF PlaceOf, Place, Half
<1>4. QED BY <1>2, <1>3

LEMMA HalvesDiffer ==
  ASSUME NEW j \in Nat, NEW k \in Nat, j \div 2 = k \div 2, j % 2 = k % 2
  PROVE  j = k
OBVIOUS

(* Two logical sectors of a track never share a half sector: no record is  *)
(* stored over another one (FDC_MAP_LOGICAL_SECTOR).                       *)
THEOREM MapIsInjective ==
  ASSUME NEW t \in Track,
         NEW m \in 1 .. SectorsPerTrack, NEW n \in 1 .. SectorsPerTrack,
         PlaceOf(t, m) = PlaceOf(t, n), CURRENT_HALF(m) = CURRENT_HALF(n)
  PROVE  m = n
<1> DEFINE q(k) == (k - 1) \div 2
<1>1. m - 1 \in Nat /\ n - 1 \in Nat /\ q(m) \in Nat /\ q(n) \in Nat
  BY DEF SectorsPerTrack
<1>2. q(m) = q(n)
  <2>1. CASE q(m) < SectorsPerSide /\ q(n) < SectorsPerSide
    BY <1>1, <2>1 DEF PlaceOf
  <2>2. CASE ~(q(m) < SectorsPerSide) /\ ~(q(n) < SectorsPerSide)
    BY <1>1, <2>2 DEF PlaceOf
  <2>3. CASE q(m) < SectorsPerSide /\ ~(q(n) < SectorsPerSide)
    BY <2>3 DEF PlaceOf
  <2>4. CASE ~(q(m) < SectorsPerSide) /\ q(n) < SectorsPerSide
    BY <2>4 DEF PlaceOf
  <2>5. QED BY <2>1, <2>2, <2>3, <2>4
<1>3. (m - 1) % 2 = (n - 1) % 2
  BY DEF CURRENT_HALF
<1>4. m - 1 = n - 1
  BY <1>1, <1>2, <1>3, HalvesDiffer
<1>5. QED BY <1>4 DEF SectorsPerTrack

-----------------------------------------------------------------------------

Places == Here \in Place /\ HereHalf \in Half

LEMMA HereType == TypeOK => Places
BY HalfType, PlaceType DEF TypeOK, Places, Here, HereHalf

LEMMA BrokenWriteType ==
  TypeOK /\ DiskAfterBrokenWrite => disk' \in [Drive -> [Place -> Sector]]
<1> SUFFICES ASSUME TypeOK, DiskAfterBrokenWrite
             PROVE  disk' \in [Drive -> [Place -> Sector]]
  OBVIOUS
<1>1. Here \in Place /\ disk \in [Drive -> [Place -> Sector]]
  BY HereType DEF TypeOK, Places
<1>2. QED
  BY <1>1 DEF DiskAfterBrokenWrite

LEMMA MergeType ==
  ASSUME NEW s \in Sector, NEW h \in Half, NEW x \in Data
  PROVE  [s EXCEPT ![h] = x] \in Sector
BY DEF Sector

(* Every step keeps the types. *)
LEMMA TypeStep == TypeOK /\ [Next]_vars => TypeOK'
<1> SUFFICES ASSUME TypeOK, [Next]_vars PROVE TypeOK'
  OBVIOUS
<1>0. Here \in Place /\ HereHalf \in Half
  BY HereType DEF Places
<1>00. SECBUF[HereHalf] \in Data /\ disk[CURRENT_DRIVE][Here] \in Sector
  BY <1>0 DEF TypeOK, Sector
<1> USE DEF TypeOK, NoStatus, position, cache
<1>1. ASSUME NEW c \in Drive \cup {2}, BIOS_SELDSK(c) PROVE TypeOK'
  BY <1>1 DEF BIOS_SELDSK, MayCall
<1>2. ASSUME NEW t \in Track, BIOS_SETTRK(t) PROVE TypeOK'
  BY <1>2 DEF BIOS_SETTRK, MayCall
<1>3. ASSUME NEW n \in 1 .. SectorsPerTrack, BIOS_SETSEC(n) PROVE TypeOK'
  BY <1>3 DEF BIOS_SETSEC, MayCall
<1>4. ASSUME NEW d \in Data, BIOS_SETDMA(d) PROVE TypeOK'
  BY <1>4 DEF BIOS_SETDMA, MayCall
<1>5. CASE BIOS_HOME
  BY <1>5 DEF BIOS_HOME, MayCall
<1>6. CASE BIOS_READ
  BY <1>6, <1>00 DEF BIOS_READ, FDC_READ_SECTOR, MayCall
<1>7. CASE BIOS_WRITE
  <2>1. [SECBUF EXCEPT ![HereHalf] = dma] \in Sector
    BY <1>0, MergeType
  <2>2. QED BY <1>7, <2>1 DEF BIOS_WRITE, MayCall
<1>8. CASE FetchOk
  <2>1. disk[CURRENT_DRIVE][Here][HereHalf] \in Data
    BY <1>0, <1>00 DEF Sector
  <2>2. [disk[CURRENT_DRIVE][Here] EXCEPT ![HereHalf] = dma] \in Sector
    BY <1>0, <1>00, MergeType
  <2>3. <<CURRENT_DRIVE, Here>> \in Addr
    BY <1>0 DEF Addr
  <2>4. QED
    BY <1>8, <1>00, <2>1, <2>2, <2>3 DEF FetchOk, FDC_CACHE_STORE
<1>9. CASE FetchFail
  BY <1>9 DEF FetchFail
<1>10. CASE FlushOk
  <2>1. disk' \in [Drive -> [Place -> Sector]]
    BY <1>10, <1>0 DEF FlushOk
  <2>2. <<CURRENT_DRIVE, Here>> \in Addr
    BY <1>0 DEF Addr
  <2>3. QED
    BY <1>10, <2>1, <2>2 DEF FlushOk, FDC_CACHE_STORE
<1>11. CASE FlushFail
  <2>1. disk' \in [Drive -> [Place -> Sector]]
    BY <1>11, BrokenWriteType DEF FlushFail
  <2>2. QED
    BY <1>11, <2>1 DEF FlushFail, FDC_CACHE_INVALIDATE
<1>12. CASE BIOS_WBOOT
  <2>1. 1 \in 1 .. SectorsPerTrack /\ 1 <= SystemRecords
    BY DEF SectorsPerTrack
  <2>2. QED
    BY <1>12, <2>1 DEF BIOS_WBOOT, FDC_CACHE_INVALIDATE
<1>13. CASE BIOS_BOOT
  <2>1. disk' \in [Drive -> [Place -> Sector]]
    BY <1>13, BrokenWriteType DEF BIOS_BOOT
  <2>2. 1 \in 1 .. SectorsPerTrack
    BY DEF SectorsPerTrack
  <2>3. QED
    BY <1>13, <2>1, <2>2 DEF BIOS_BOOT, FDC_CACHE_INVALIDATE
<1>14. CASE ReloadRead
  BY <1>14, <1>00 DEF ReloadRead, FDC_READ_SECTOR
<1>15. CASE ReloadNext
  <2>1. CURRENT_SECTOR + 1 \in 1 .. SectorsPerTrack
    BY <1>15 DEF ReloadNext, SectorsPerTrack
  <2>2. boot' = "ready" => CURRENT_SECTOR + 1 <= SystemRecords
    BY <1>15 DEF ReloadNext, SectorsPerTrack
  <2>3. QED
    BY <1>15, <2>1, <2>2 DEF ReloadNext
<1>16. CASE ReloadFailed
  BY <1>16 DEF ReloadFailed
<1>17. ASSUME NEW d \in Drive, NEW img \in Images, Exchange(d, img)
       PROVE  TypeOK'
  BY <1>17 DEF Exchange
<1>18. CASE UNCHANGED vars
  BY <1>18 DEF vars
<1>19. QED
  BY <1>1, <1>2, <1>3, <1>4, <1>5, <1>6, <1>7, <1>8, <1>9, <1>10, <1>11,
     <1>12, <1>13, <1>14, <1>15, <1>16, <1>17, <1>18 DEF Next

LEMMA TypeInit == Init => TypeOK
<1> SUFFICES ASSUME Init PROVE TypeOK
  OBVIOUS
<1>1. disk \in [Drive -> [Place -> Sector]]
  BY DEF Init
<1>2. 1 \in 1 .. SectorsPerTrack
  BY DEF SectorsPerTrack
<1>3. QED
  BY <1>1, <1>2 DEF Init, TypeOK, NoStatus

(* Every value of the state variables has its type. *)
THEOREM TypeCorrect == Spec => []TypeOK
BY TypeInit, TypeStep, PTL DEF Spec

-----------------------------------------------------------------------------
(* Coherence.  While a write waits for the controller SECBUF is ahead of   *)
(* the disk by exactly the caller's record; this is what makes the step    *)
(* from one coherent moment to the next.                                   *)

FlushReady ==
  call = "flush" /\ ~spoiled /\ CURRENT_DRIVE \notin exchanged =>
    SECBUF = [disk[CURRENT_DRIVE][Here] EXCEPT ![HereHalf] = dma]

IInv == TypeOK /\ CacheCoherent /\ FlushReady

(* Steps that leave SECBUF, its tags and the disks alone, while no write   *)
(* is in progress.                                                         *)
LEMMA CacheUntouched ==
  ASSUME IInv, UNCHANGED <<disk, SECBUF, CACHE_VALID, cache_tag, spoiled>>,
         exchanged \subseteq exchanged', call # "flush", call' # "flush"
  PROVE  CacheCoherent' /\ FlushReady'
BY DEF IInv, CacheCoherent, FlushReady

LEMMA CoherenceStep == IInv /\ [Next]_vars => IInv'
<1> SUFFICES ASSUME IInv, [Next]_vars PROVE CacheCoherent' /\ FlushReady'
  BY TypeStep DEF IInv
<1>0. TypeOK /\ CacheCoherent /\ FlushReady /\ Here \in Place /\ HereHalf \in Half
  BY HereType DEF IInv, Places
<1> USE DEF position, cache
<1>1. ASSUME NEW c \in Drive \cup {2}, BIOS_SELDSK(c)
      PROVE  CacheCoherent' /\ FlushReady'
  BY <1>1, CacheUntouched DEF BIOS_SELDSK, MayCall
<1>2. ASSUME NEW t \in Track, BIOS_SETTRK(t)
      PROVE  CacheCoherent' /\ FlushReady'
  BY <1>2, CacheUntouched DEF BIOS_SETTRK, MayCall
<1>3. ASSUME NEW n \in 1 .. SectorsPerTrack, BIOS_SETSEC(n)
      PROVE  CacheCoherent' /\ FlushReady'
  BY <1>3, CacheUntouched DEF BIOS_SETSEC, MayCall
<1>4. ASSUME NEW d \in Data, BIOS_SETDMA(d)
      PROVE  CacheCoherent' /\ FlushReady'
  BY <1>4, CacheUntouched DEF BIOS_SETDMA, MayCall
<1>5. CASE BIOS_HOME
  BY <1>5, CacheUntouched DEF BIOS_HOME, MayCall
<1>6. CASE BIOS_READ
  BY <1>6, CacheUntouched DEF BIOS_READ, FDC_READ_SECTOR, MayCall
<1>7. CASE BIOS_WRITE
  <2>1. Here' = Here /\ HereHalf' = HereHalf
    BY <1>7 DEF BIOS_WRITE, Here, HereHalf
  <2>2. CASE FDC_CACHE_MATCH
    <3>1. call' = "flush" /\ SECBUF' = [SECBUF EXCEPT ![HereHalf] = dma]
          /\ call = "none" /\ UNCHANGED <<disk, dma, spoiled, exchanged, CURRENT_DRIVE>>
      BY <1>7, <2>2 DEF BIOS_WRITE, MayCall
    <3>2. CACHE_VALID /\ cache_tag[1] = CURRENT_DRIVE /\ cache_tag[2] = Here
      BY <2>2 DEF FDC_CACHE_MATCH
    <3>3. ~spoiled /\ CURRENT_DRIVE \notin exchanged
            => SECBUF = disk[CURRENT_DRIVE][Here]
      BY <1>0, <3>1, <3>2 DEF CacheCoherent
    <3>4. QED
      BY <2>1, <3>1, <3>3 DEF CacheCoherent, FlushReady
  <2>3. CASE ~FDC_CACHE_MATCH
    BY <1>7, <2>3, CacheUntouched DEF BIOS_WRITE, MayCall
  <2>4. QED BY <2>2, <2>3
<1>8. CASE FetchOk
  <2>1. Here' = Here /\ HereHalf' = HereHalf /\ CURRENT_DRIVE' = CURRENT_DRIVE
        /\ disk' = disk
    BY <1>8 DEF FetchOk, Here, HereHalf
  <2>2. CASE call = "read"
    <3>1. call' = "none" /\ SECBUF' = disk[CURRENT_DRIVE][Here]
          /\ cache_tag' = <<CURRENT_DRIVE, Here>>
      BY <1>8, <2>2 DEF FetchOk, FDC_CACHE_STORE
    <3>2. QED BY <2>1, <3>1 DEF CacheCoherent, FlushReady
  <2>3. CASE call = "write"
    <3>1. call' = "flush" /\ dma' = dma
          /\ SECBUF' = [disk[CURRENT_DRIVE][Here] EXCEPT ![HereHalf] = dma]
      BY <1>8, <2>3 DEF FetchOk
    <3>2. QED BY <2>1, <3>1 DEF CacheCoherent, FlushReady
  <2>4. QED BY <1>8, <2>2, <2>3 DEF FetchOk
<1>9. CASE FetchFail
  <2>1. call' = "none" /\ call # "flush" /\ UNCHANGED <<disk, CACHE_VALID, cache_tag, exchanged>>
    BY <1>9 DEF FetchFail
  <2>2. CASE UNCHANGED <<SECBUF, spoiled>>
    BY <2>1, <2>2, CacheUntouched
  <2>3. CASE spoiled' = CACHE_VALID
    BY <1>0, <2>1, <2>3 DEF CacheCoherent, FlushReady, TypeOK
  <2>4. QED BY <1>9, <2>2, <2>3 DEF FetchFail
<1>10. CASE FlushOk
  <2>1. call' = "none" /\ SECBUF' = SECBUF /\ cache_tag' = <<CURRENT_DRIVE, Here>>
        /\ disk' = [disk EXCEPT ![CURRENT_DRIVE][Here] = SECBUF]
    BY <1>10 DEF FlushOk, FDC_CACHE_STORE
  <2>2. disk'[CURRENT_DRIVE][Here] = SECBUF
    BY <1>0, <2>1 DEF TypeOK
  <2>3. QED BY <2>1, <2>2 DEF CacheCoherent, FlushReady
<1>11. CASE FlushFail
  BY <1>11 DEF FlushFail, FDC_CACHE_INVALIDATE, CacheCoherent, FlushReady
<1>12. CASE BIOS_WBOOT
  BY <1>12 DEF BIOS_WBOOT, FDC_CACHE_INVALIDATE, CacheCoherent, FlushReady
<1>13. CASE BIOS_BOOT
  BY <1>13 DEF BIOS_BOOT, FDC_CACHE_INVALIDATE, CacheCoherent, FlushReady
<1>14. CASE ReloadRead
  <2>1. call = "none"
    BY <1>0, <1>14 DEF TypeOK, ReloadRead
  <2>2. QED
    BY <1>14, <2>1, CacheUntouched DEF ReloadRead, FDC_READ_SECTOR
<1>15. CASE ReloadNext
  BY <1>15, CacheUntouched DEF ReloadNext
<1>16. CASE ReloadFailed
  BY <1>16, CacheUntouched DEF ReloadFailed
<1>17. ASSUME NEW d \in Drive, NEW img \in Images, Exchange(d, img)
       PROVE  CacheCoherent' /\ FlushReady'
  <2>1. /\ disk' = [disk EXCEPT ![d] = img] /\ exchanged' = exchanged \cup {d}
        /\ UNCHANGED <<CURRENT_DRIVE, CURRENT_TRACK, CURRENT_SECTOR, dma, call,
                       SECBUF, CACHE_VALID, cache_tag, spoiled>>
    BY <1>17 DEF Exchange
  <2>2. Here' = Here /\ HereHalf' = HereHalf
    BY <2>1 DEF Here, HereHalf
  <2>3. \A e \in Drive : e \notin exchanged' => disk'[e] = disk[e]
    BY <1>0, <2>1 DEF TypeOK
  <2>4. cache_tag[1] \in Drive /\ CURRENT_DRIVE \in Drive
    BY <1>0 DEF TypeOK, Addr
  <2>5. CacheCoherent'
    BY <1>0, <2>1, <2>3, <2>4 DEF CacheCoherent
  <2>6. FlushReady'
    BY <1>0, <2>1, <2>2, <2>3, <2>4 DEF FlushReady
  <2>7. QED BY <2>5, <2>6
<1>18. CASE UNCHANGED vars
  BY <1>18, <1>0 DEF vars, CacheCoherent, FlushReady, Here, HereHalf
<1>19. QED
  BY <1>1, <1>2, <1>3, <1>4, <1>5, <1>6, <1>7, <1>8, <1>9, <1>10, <1>11,
     <1>12, <1>13, <1>14, <1>15, <1>16, <1>17, <1>18 DEF Next

LEMMA CoherenceInit == Init => IInv
BY TypeInit DEF Init, IInv, CacheCoherent, FlushReady

(* The cache never claims to hold a sector it does not hold, as long as    *)
(* the disk is the one it was read from and no failed read has been        *)
(* through SECBUF since.                                                   *)
THEOREM Coherent == Spec => []CacheCoherent
<1>1. IInv => CacheCoherent
  BY DEF IInv
<1>2. QED
  BY <1>1, CoherenceInit, CoherenceStep, PTL DEF Spec

-----------------------------------------------------------------------------
(* What a write may do.                                                    *)

(* The step that ends a WRITE replaces the caller's record, keeps the      *)
(* other half of the sector and touches no other sector, for every disk    *)
(* and every earlier failure.                                              *)
THEOREM WritesLocal == Spec => WriteIsLocal
<1> DEFINE Local ==
      (FlushOk \/ FlushFail) /\ ~spoiled /\ CURRENT_DRIVE \notin exchanged =>
        /\ \A d \in Drive, p \in Place :
             disk'[d][p] # disk[d][p] => d = CURRENT_DRIVE /\ p = Here
        /\ A' = 0 => disk'[CURRENT_DRIVE][Here] =
                       [disk[CURRENT_DRIVE][Here] EXCEPT ![HereHalf] = dma]
<1>1. IInv => Local
  <2> SUFFICES ASSUME IInv, FlushOk \/ FlushFail, ~spoiled,
                      CURRENT_DRIVE \notin exchanged
               PROVE  /\ \A d \in Drive, p \in Place :
                           disk'[d][p] # disk[d][p] => d = CURRENT_DRIVE /\ p = Here
                      /\ A' = 0 => disk'[CURRENT_DRIVE][Here] =
                            [disk[CURRENT_DRIVE][Here] EXCEPT ![HereHalf] = dma]
    OBVIOUS
  <2>1. /\ disk \in [Drive -> [Place -> Sector]]
        /\ CURRENT_DRIVE \in Drive /\ Here \in Place
    BY HereType DEF IInv, TypeOK, Places
  <2>2. CASE FlushOk
    <3>1. SECBUF = [disk[CURRENT_DRIVE][Here] EXCEPT ![HereHalf] = dma]
      BY <2>2 DEF FlushOk, IInv, FlushReady
    <3>2. disk' = [disk EXCEPT ![CURRENT_DRIVE][Here] = SECBUF]
      BY <2>2 DEF FlushOk
    <3>3. QED BY <2>1, <3>1, <3>2
  <2>3. CASE FlushFail
    <3>1. A' = 1 /\ DiskAfterBrokenWrite
      BY <2>3 DEF FlushFail
    <3>2. CASE UNCHANGED disk
      BY <3>1, <3>2
    <3>3. CASE \E s \in Sector : disk' = [disk EXCEPT ![CURRENT_DRIVE][Here] = s]
      <4>1. PICK s \in Sector : disk' = [disk EXCEPT ![CURRENT_DRIVE][Here] = s]
        BY <3>3
      <4>2. \A d \in Drive, p \in Place :
              d # CURRENT_DRIVE \/ p # Here => disk'[d][p] = disk[d][p]
        BY <2>1, <4>1
      <4>3. QED BY <3>1, <4>2
    <3>4. QED BY <3>1, <3>2, <3>3 DEF DiskAfterBrokenWrite
  <2>4. QED BY <2>2, <2>3
<1>2. IInv /\ [Next]_vars => [Local]_vars
  BY <1>1
<1>3. QED
  BY <1>2, CoherenceInit, CoherenceStep, PTL DEF Spec, WriteIsLocal

-----------------------------------------------------------------------------
(* What a read returns. *)

(* READ with status 0 delivers the record of the disk in the drive, a hit  *)
(* as much as a miss, unless a failed read has been through SECBUF or the  *)
(* disk was exchanged since the last boot.                                 *)
THEOREM ReadsTrue == Spec => SoundReadsAreTrue
<1> DEFINE True ==
      (BIOS_READ \/ ReloadRead \/ FetchOk) /\ call' = "none" /\ Sound =>
        A' = 0 /\ dma' = disk[CURRENT_DRIVE][Here][HereHalf]
<1>1. IInv => True
  <2> SUFFICES ASSUME IInv, BIOS_READ \/ ReloadRead \/ FetchOk,
                      call' = "none", Sound
               PROVE  A' = 0 /\ dma' = disk[CURRENT_DRIVE][Here][HereHalf]
    OBVIOUS
  <2>1. CASE BIOS_READ \/ ReloadRead
    <3>1. FDC_READ_SECTOR /\ call = "none"
      BY <2>1 DEF BIOS_READ, ReloadRead, MayCall, IInv, TypeOK
    <3>2. FDC_CACHE_MATCH /\ A' = 0 /\ dma' = SECBUF[HereHalf]
      BY <3>1 DEF FDC_READ_SECTOR
    <3>3. CACHE_VALID /\ cache_tag[1] = CURRENT_DRIVE /\ cache_tag[2] = Here
      BY <3>2 DEF FDC_CACHE_MATCH
    <3>4. SECBUF = disk[CURRENT_DRIVE][Here]
      BY <3>1, <3>3 DEF IInv, CacheCoherent, Sound
    <3>5. QED BY <3>2, <3>4
  <2>2. CASE FetchOk
    BY <2>2 DEF FetchOk
  <2>3. QED BY <2>1, <2>2
<1>2. IInv /\ [Next]_vars => [True]_vars
  BY <1>1
<1>3. QED
  BY <1>2, CoherenceInit, CoherenceStep, PTL DEF Spec, SoundReadsAreTrue

-----------------------------------------------------------------------------
(* The refinement of the disk of records.                                  *)

Record == Drive \X Track \X (1 .. SectorsPerTrack)
Disks == [Drive -> [Place -> Sector]]
ImageOf(dk) == [r \in Record |-> dk[r[1]][PlaceOf(r[2], r[3])][CURRENT_HALF(r[3])]]

LEMMA RecordParts ==
  ASSUME NEW r \in Record
  PROVE  /\ r[1] \in Drive /\ r[2] \in Track /\ r[3] \in 1 .. SectorsPerTrack
         /\ r = <<r[1], r[2], r[3]>>
         /\ PlaceOf(r[2], r[3]) \in Place /\ CURRENT_HALF(r[3]) \in Half
<1>1. /\ r[1] \in Drive /\ r[2] \in Track /\ r[3] \in 1 .. SectorsPerTrack
      /\ r = <<r[1], r[2], r[3]>>
  BY DEF Record
<1>2. QED
  BY <1>1, PlaceType, HalfType

LEMMA ImageIs ==
  /\ Image = ImageOf(disk) /\ Image' = ImageOf(disk')
  /\ Records!Record = Record
BY DEF Image, ImageOf, Record, Records!Record

LEMMA ImageType == ASSUME NEW dk \in Disks PROVE ImageOf(dk) \in [Record -> Data]
<1>1. ASSUME NEW r \in Record
      PROVE  dk[r[1]][PlaceOf(r[2], r[3])][CURRENT_HALF(r[3])] \in Data
  BY RecordParts DEF Disks, Sector
<1>2. QED
  BY <1>1 DEF ImageOf

(* Two logical sectors in one sector of the disk are in one sector for     *)
(* BDOS.                                                                   *)
LEMMA SamePlace ==
  ASSUME NEW t \in Track, NEW u \in Track,
         NEW m \in 1 .. SectorsPerTrack, NEW n \in 1 .. SectorsPerTrack,
         PlaceOf(t, m) = PlaceOf(u, n)
  PROVE  t = u /\ (m - 1) \div 2 = (n - 1) \div 2
<1> DEFINE q(k) == (k - 1) \div 2
<1>1. q(m) \in Nat /\ q(n) \in Nat
  BY DEF SectorsPerTrack
<1>2. CASE q(m) < SectorsPerSide /\ q(n) < SectorsPerSide
  BY <1>1, <1>2 DEF PlaceOf
<1>3. CASE ~(q(m) < SectorsPerSide) /\ ~(q(n) < SectorsPerSide)
  BY <1>1, <1>3 DEF PlaceOf
<1>4. CASE q(m) < SectorsPerSide /\ ~(q(n) < SectorsPerSide)
  BY <1>4 DEF PlaceOf
<1>5. CASE ~(q(m) < SectorsPerSide) /\ q(n) < SectorsPerSide
  BY <1>5 DEF PlaceOf
<1>6. QED
  BY <1>2, <1>3, <1>4, <1>5

LEMMA SelectedIs ==
  ASSUME TypeOK
  PROVE  /\ Selected \in Record
         /\ Selected[1] = CURRENT_DRIVE /\ Selected[2] = CURRENT_TRACK
         /\ Selected[3] = CURRENT_SECTOR
         /\ Image[Selected] = disk[CURRENT_DRIVE][Here][HereHalf]
<1>1. Selected \in Record
  BY DEF TypeOK, Selected, Record
<1>2. QED
  BY <1>1, ImageIs DEF Selected, ImageOf, Here, HereHalf

(* A write that broke off leaves every other sector as it was. *)
LEMMA BrokenWriteImage ==
  ASSUME TypeOK, DiskAfterBrokenWrite \/ UNCHANGED disk
  PROVE  Records!ChangesWithin({q \in Record : Records!SameSector(Selected, q)})
<1>1. disk \in Disks /\ disk' \in Disks
  BY BrokenWriteType DEF TypeOK, Disks
<1>2. Here \in Place /\ CURRENT_DRIVE \in Drive
  BY HereType DEF Places, TypeOK
<1>3. ASSUME NEW d \in Drive, NEW p \in Place, d # CURRENT_DRIVE \/ p # Here
      PROVE  disk'[d][p] = disk[d][p]
  <2>1. CASE UNCHANGED disk
    BY <2>1
  <2>2. CASE \E s \in Sector : disk' = [disk EXCEPT ![CURRENT_DRIVE][Here] = s]
    <3>1. PICK s \in Sector : disk' = [disk EXCEPT ![CURRENT_DRIVE][Here] = s]
      BY <2>2
    <3>2. QED
      BY <1>1, <1>2, <1>3, <3>1 DEF Disks
  <2>3. QED
    BY <2>1, <2>2 DEF DiskAfterBrokenWrite
<1>4. ASSUME NEW q \in Record, ~Records!SameSector(Selected, q)
      PROVE  ImageOf(disk')[q] = ImageOf(disk)[q]
  <2>1. q[1] # CURRENT_DRIVE \/ PlaceOf(q[2], q[3]) # Here
    <3> SUFFICES ASSUME q[1] = CURRENT_DRIVE, PlaceOf(q[2], q[3]) = Here
                 PROVE  Records!SameSector(Selected, q)
      BY <1>4
    <3>1. q[2] = CURRENT_TRACK /\ (q[3] - 1) \div 2 = (CURRENT_SECTOR - 1) \div 2
      BY RecordParts, SamePlace DEF Here, TypeOK
    <3>2. QED
      BY <3>1, SelectedIs DEF Records!SameSector
  <2>2. disk'[q[1]][PlaceOf(q[2], q[3])] = disk[q[1]][PlaceOf(q[2], q[3])]
    BY <1>3, <2>1, RecordParts
  <2>3. QED
    BY <2>2 DEF ImageOf
<1>5. QED
  BY <1>1, <1>4, ImageIs, ImageType DEF Records!ChangesWithin

(* A write that succeeds puts the caller's record there, and no other. *)
LEMMA FlushImage ==
  ASSUME IInv, FlushOk, Sound
  PROVE  Image' = [Image EXCEPT ![Selected] = dma]
<1>1. /\ disk \in Disks /\ TypeOK /\ CURRENT_DRIVE \in Drive /\ dma \in Data
      /\ Here \in Place /\ HereHalf \in Half
  BY HereType DEF IInv, TypeOK, Disks, Places
<1>2. /\ disk' = [disk EXCEPT ![CURRENT_DRIVE][Here] = SECBUF]
      /\ SECBUF = [disk[CURRENT_DRIVE][Here] EXCEPT ![HereHalf] = dma]
  BY DEF IInv, FlushOk, FlushReady, Sound
<1>3. disk[CURRENT_DRIVE][Here] \in [Half -> Data]
  BY <1>1 DEF Disks, Sector
<1>4. /\ SECBUF[HereHalf] = dma
      /\ \A h \in Half \ {HereHalf} : SECBUF[h] = disk[CURRENT_DRIVE][Here][h]
      /\ SECBUF \in Sector
  BY <1>1, <1>2, <1>3 DEF Sector
<1>5. /\ disk' \in Disks /\ disk'[CURRENT_DRIVE][Here] = SECBUF
      /\ \A d \in Drive, p \in Place :
           d # CURRENT_DRIVE \/ p # Here => disk'[d][p] = disk[d][p]
  BY <1>1, <1>2, <1>4 DEF Disks
<1>6. Selected \in Record /\ ImageOf(disk')[Selected] = dma
  <2>1. ImageOf(disk')[Selected] = disk'[CURRENT_DRIVE][Here][HereHalf]
    BY <1>1, SelectedIs DEF ImageOf, Selected, Here, HereHalf
  <2>2. QED
    BY <1>1, <1>4, <1>5, <2>1, SelectedIs
<1>7. ASSUME NEW q \in Record, q # Selected
      PROVE  ImageOf(disk')[q] = ImageOf(disk)[q]
  <2> DEFINE p == PlaceOf(q[2], q[3])
             h == CURRENT_HALF(q[3])
  <2>1. q[1] \in Drive /\ p \in Place /\ h \in Half
    BY RecordParts
  <2>2. CASE q[1] # CURRENT_DRIVE \/ p # Here
    <3>1. disk'[q[1]][p] = disk[q[1]][p]
      BY <1>5, <2>1, <2>2
    <3>2. QED
      BY <3>1 DEF ImageOf
  <2>3. CASE q[1] = CURRENT_DRIVE /\ p = Here
    <3>1. h # HereHalf
      <4> SUFFICES ASSUME h = HereHalf PROVE q = Selected
        BY <1>7
      <4>1. q[2] = CURRENT_TRACK
        BY <1>1, <2>3, RecordParts, SamePlace DEF Here, TypeOK
      <4>2. q[3] = CURRENT_SECTOR
        BY <1>1, <2>3, <4>1, RecordParts, MapIsInjective DEF Here, HereHalf, TypeOK
      <4>3. QED
        BY <2>3, <4>1, <4>2, RecordParts DEF Selected
    <3>2. disk'[q[1]][p][h] = disk[q[1]][p][h]
      BY <1>4, <1>5, <2>1, <2>3, <3>1
    <3>3. QED
      BY <3>2 DEF ImageOf
  <2>4. QED
    BY <2>2, <2>3
<1>8. ImageOf(disk) \in [Record -> Data] /\ ImageOf(disk') \in [Record -> Data]
  BY <1>1, <1>5, ImageType
<1>9. ImageOf(disk') = [ImageOf(disk) EXCEPT ![Selected] = dma]
  BY <1>6, <1>7, <1>8
<1>10. QED
  BY <1>9, ImageIs

(* What FDC_READ_SECTOR does at once: a hit is the abstract READ, a miss   *)
(* nothing yet.                                                            *)
LEMMA HitReads ==
  ASSUME IInv, FDC_READ_SECTOR, call = "none", Sound
  PROVE  Records!ReadOk \/ UNCHANGED Records!world
<1>1. UNCHANGED Image /\ UNCHANGED Selected /\ TypeOK
  BY DEF FDC_READ_SECTOR, Image, Selected, position, IInv
<1>2. CASE FDC_CACHE_MATCH
  <2>1. A' = 0 /\ dma' = SECBUF[HereHalf]
    BY <1>2 DEF FDC_READ_SECTOR
  <2>2. CACHE_VALID /\ cache_tag[1] = CURRENT_DRIVE /\ cache_tag[2] = Here
    BY <1>2 DEF FDC_CACHE_MATCH
  <2>3. SECBUF = disk[CURRENT_DRIVE][Here]
    BY <2>2 DEF IInv, CacheCoherent, Sound
  <2>4. QED
    BY <1>1, <2>1, <2>3, SelectedIs DEF Records!ReadOk
<1>3. CASE ~FDC_CACHE_MATCH
  BY <1>1, <1>3 DEF FDC_READ_SECTOR, Records!world
<1>4. QED
  BY <1>2, <1>3

(* The calls that set a variable, and the steps of the reload that do. *)
LEMMA Prepares ==
  ASSUME TypeOK, TypeOK', UNCHANGED disk, A' = NoStatus
  PROVE  Records!Prepare
<1>1. Selected' \in Record /\ dma' \in Data /\ UNCHANGED Image
  BY DEF TypeOK, Selected, Record, Image
<1>2. QED
  BY <1>1, ImageIs DEF Records!Prepare, NoStatus

LEMMA RecordStep ==
  ASSUME IInv, Next, Sound
  PROVE  Records!Next \/ UNCHANGED Records!world
<1>0. TypeOK /\ TypeOK'
  BY TypeStep DEF IInv
<1> USE DEF position, cache
<1>1. ASSUME NEW c \in Drive \cup {2}, BIOS_SELDSK(c) PROVE Records!Next
  BY <1>0, <1>1, Prepares DEF BIOS_SELDSK, Records!Next
<1>2. ASSUME NEW t \in Track, BIOS_SETTRK(t) PROVE Records!Next
  BY <1>0, <1>2, Prepares DEF BIOS_SETTRK, Records!Next
<1>3. ASSUME NEW n \in 1 .. SectorsPerTrack, BIOS_SETSEC(n) PROVE Records!Next
  BY <1>0, <1>3, Prepares DEF BIOS_SETSEC, Records!Next
<1>4. ASSUME NEW d \in Data, BIOS_SETDMA(d) PROVE Records!Next
  BY <1>0, <1>4, Prepares DEF BIOS_SETDMA, Records!Next
<1>5. CASE BIOS_HOME \/ BIOS_WBOOT \/ ReloadNext
  BY <1>0, <1>5, Prepares DEF BIOS_HOME, BIOS_WBOOT, ReloadNext, Records!Next
<1>6. CASE BIOS_READ \/ ReloadRead
  <2>1. FDC_READ_SECTOR /\ call = "none"
    BY <1>0, <1>6 DEF BIOS_READ, ReloadRead, MayCall, TypeOK
  <2>2. QED
    BY <2>1, HitReads DEF Records!Next
<1>7. CASE BIOS_WRITE \/ ReloadFailed
  BY <1>7 DEF BIOS_WRITE, ReloadFailed, Records!world, Image, Selected
<1>8. CASE FetchOk
  <2>1. UNCHANGED Image /\ UNCHANGED Selected
    BY <1>8 DEF FetchOk, Image, Selected
  <2>2. CASE call = "read"
    <3>1. dma' = disk[CURRENT_DRIVE][Here][HereHalf] /\ A' = 0
      BY <1>8, <2>2 DEF FetchOk
    <3>2. Records!ReadOk
      BY <1>0, <2>1, <3>1, SelectedIs DEF Records!ReadOk
    <3>3. QED
      BY <3>2 DEF Records!Next
  <2>3. CASE call = "write"
    BY <1>8, <2>1, <2>3 DEF FetchOk, Records!world
  <2>4. QED
    BY <1>8, <2>2, <2>3 DEF FetchOk
<1>9. CASE FetchFail
  <2>1. Records!Fail
    BY <1>9 DEF FetchFail, Records!Fail, Image, Selected
  <2>2. QED
    BY <2>1 DEF Records!Next
<1>10. CASE FlushOk
  <2>1. Image' = [Image EXCEPT ![Selected] = dma]
    BY <1>10, FlushImage
  <2>2. Records!WriteOk
    BY <1>10, <2>1 DEF FlushOk, Records!WriteOk, Selected
  <2>3. QED
    BY <2>2 DEF Records!Next
<1>11. CASE FlushFail
  <2>1. Records!ChangesWithin({q \in Record : Records!SameSector(Selected, q)})
    BY <1>0, <1>11, BrokenWriteImage DEF FlushFail
  <2>2. Records!WriteFail
    BY <1>11, <2>1, ImageIs DEF FlushFail, Records!WriteFail, Selected
  <2>3. QED
    BY <2>2 DEF Records!Next
<1>12. CASE BIOS_BOOT
  <2>1. Records!ChangesWithin({q \in Record : Records!SameSector(Selected, q)})
    BY <1>0, <1>12, BrokenWriteImage DEF BIOS_BOOT
  <2>2. Selected' \in Record
    BY <1>0 DEF TypeOK, Selected, Record
  <2>3. Records!Restart
    BY <1>12, <2>1, <2>2, ImageIs DEF BIOS_BOOT, Records!Restart, NoStatus
  <2>4. QED
    BY <2>3 DEF Records!Next
<1>13. ASSUME NEW d \in Drive, NEW img \in Images, Exchange(d, img)
       PROVE  Records!Next
  <2>1. disk' = [disk EXCEPT ![d] = img] /\ disk \in Disks /\ disk' \in Disks
    BY <1>0, <1>13 DEF Exchange, TypeOK, Disks
  <2>2. ASSUME NEW q \in Record, q[1] # d
        PROVE  ImageOf(disk')[q] = ImageOf(disk)[q]
    BY <2>1, <2>2, RecordParts DEF ImageOf, Disks
  <2>3. Records!ChangesWithin({q \in Record : q[1] = d})
    BY <2>1, <2>2, ImageIs, ImageType DEF Records!ChangesWithin
  <2>4. Records!Exchange(d)
    BY <1>13, <2>3, ImageIs DEF Exchange, Records!Exchange, Selected
  <2>5. QED
    BY <2>4 DEF Records!Next
<1>14. QED
  BY <1>1, <1>2, <1>3, <1>4, <1>5, <1>6, <1>7, <1>8, <1>9, <1>10, <1>11,
     <1>12, <1>13 DEF Next

(* The disk calls are those of a plain disk of 128-byte records, for every *)
(* geometry and every failure, while SECBUF is not spoiled and the disk is *)
(* the one of the last boot.                                               *)
THEOREM RefinesRecords == Spec => ImplementsRecords
<1>1. Init => Records!Init
  <2> SUFFICES ASSUME Init PROVE Records!Init
    OBVIOUS
  <2>1. TypeOK
    BY TypeInit
  <2>2. Image \in [Record -> Data] /\ Selected \in Record
    BY <2>1, ImageIs, ImageType, SelectedIs DEF TypeOK, Disks
  <2>3. QED
    BY <2>2, ImageIs DEF Init, Records!Init, NoStatus
<1>2. IInv /\ [Next]_vars => [Sound => [Records!Next]_(Records!world)]_vars
  BY RecordStep
<1>3. QED
  BY <1>1, <1>2, CoherenceInit, CoherenceStep, PTL DEF Spec, ImplementsRecords

=============================================================================
