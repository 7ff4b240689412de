----------------------------- MODULE RecordDisk -----------------------------
(***************************************************************************)
(* What BDOS expects of the BIOS disk calls: drives that hold 128-byte     *)
(* records, one of them selected.  READ with status 0 delivers the         *)
(* selected record of the disk image, WRITE with status 0 has replaced     *)
(* that record and no other, and a failed or interrupted WRITE may have    *)
(* damaged the selected record and the other one in the same 256-byte      *)
(* sector, nothing else.                                                   *)
(***************************************************************************)
EXTENDS Naturals

CONSTANTS Drive, Track, SectorsPerTrack, Data

VARIABLES
  image,    \* image[r]: what the disks in the drives hold
  selected, \* the record the next call is about
  buffer,   \* the caller's 128-byte DMA buffer
  status    \* what the last call returned: 0, 1, or 2 when it was no transfer

world == <<image, selected, buffer, status>>

Record == Drive \X Track \X (1 .. SectorsPerTrack)

SameSector(r, q) ==
  /\ r[1] = q[1] /\ r[2] = q[2]
  /\ (r[3] - 1) \div 2 = (q[3] - 1) \div 2

(* Only the records in S may differ afterwards. *)
ChangesWithin(S) ==
  /\ image' \in [Record -> Data]
  /\ \A q \in Record \ S : image'[q] = image[q]

Init ==
  /\ image \in [Record -> Data]
  /\ selected \in Record
  /\ buffer \in Data
  /\ status = 2

(* The caller selects a record, or fills the buffer. *)
Prepare ==
  /\ selected' \in Record /\ buffer' \in Data
  /\ status' = 2
  /\ UNCHANGED image

ReadOk ==
  /\ buffer' = image[selected]
  /\ status' = 0
  /\ UNCHANGED <<image, selected>>

Fail == status' = 1 /\ UNCHANGED <<image, selected, buffer>>

WriteOk ==
  /\ image' = [image EXCEPT ![selected] = buffer]
  /\ status' = 0
  /\ UNCHANGED <<selected, buffer>>

WriteFail ==
  /\ ChangesWithin({q \in Record : SameSector(selected, q)})
  /\ status' = 1
  /\ UNCHANGED <<selected, buffer>>

(* The reset button, maybe in the middle of a WRITE. *)
Restart ==
  /\ ChangesWithin({q \in Record : SameSector(selected, q)})
  /\ selected' \in Record
  /\ status' = 2
  /\ UNCHANGED buffer

Exchange(d) ==
  /\ ChangesWithin({q \in Record : q[1] = d})
  /\ UNCHANGED <<selected, buffer, status>>

Next ==
  \/ Prepare \/ ReadOk \/ Fail \/ WriteOk \/ WriteFail \/ Restart
  \/ \E d \in Drive : Exchange(d)

Spec == Init /\ [][Next]_world

=============================================================================
