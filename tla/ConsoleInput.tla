---------------------------- MODULE ConsoleInput ----------------------------
(***************************************************************************)
(* Console input end to end: the keyboard device, the two SIO-B registers  *)
(* the I/O decoder answers for it (MAINIO::read_io8), and the BIOS calls   *)
(* CONST and CONIN on the main CPU.  Keys arrive between any two I/O       *)
(* instructions of the BIOS, and so does a reset.                          *)
(***************************************************************************)
EXTENDS Keyboard, Sequences

VARIABLE
  conin      \* where the BIOS is: "run" (in the caller), "wait", "read"

vars == <<fifo, fifo_rpos, fifo_wpos, fifo_count, kana, caps, conin>>

(* Bit 0 of SIO register 3; nothing is attached to channel B itself. *)
StatusReady == has_data

(* The user presses a key, or holds one down. *)
Press(code, shift, ctrl, repeat) ==
  /\ key_down(code, shift, ctrl, repeat)
  /\ UNCHANGED conin

BIOS_CONIN ==
  /\ conin = "run"
  /\ conin' = "wait"
  /\ UNCHANGED keyboard

(* The IN that leaves BIOS_CONIN_WAIT. *)
CONIN_WAIT ==
  /\ conin = "wait"
  /\ StatusReady
  /\ conin' = "read"
  /\ UNCHANGED keyboard

ConinReadSkipsZero ==
  /\ conin = "read"
  /\ IF has_data THEN read_key ELSE UNCHANGED ring
  /\ conin' = IF has_data /\ ReadSlot = 0 THEN "wait" ELSE "run"
  /\ UNCHANGED <<kana, caps>>

(* IN A,(SIO_CHB_DATA_PORT) and the return.  With an empty ring the        *)
(* decoder would pass the read on to the SIO and CONIN return a 0 nobody   *)
(* typed.                                                                  *)
CONIN_READ ==
  /\ conin = "read"
  /\ IF has_data THEN read_key ELSE UNCHANGED ring
  /\ conin' = "run"
  /\ UNCHANGED <<kana, caps>>

(* CONST takes one IN and changes nothing: FFh is StatusReady.             *)

Reset ==
  /\ KeyboardReset
  /\ conin' = "run"

Init ==
  /\ KeyboardInit
  /\ conin = "run"

Next ==
  \/ \E code \in Code, shift, ctrl, repeat \in BOOLEAN :
       Press(code, shift, ctrl, repeat)
  \/ BIOS_CONIN \/ CONIN_WAIT \/ CONIN_READ
  \/ Reset

Spec == Init /\ [][Next]_vars /\ WF_vars(CONIN_WAIT \/ CONIN_READ)

-----------------------------------------------------------------------------

TypeOK ==
  /\ KeyboardTypeOK
  /\ conin \in {"run", "wait", "read"}

(* The write index and the count agree through wrap-around and overflow:   *)
(* the slot push_fifo overwrites is never one that is still to be read.    *)
RingConsistent == fifo_wpos = (fifo_rpos + fifo_count) % FIFO_SIZE

(* What CONST or the poll of CONIN has announced is still there when the   *)
(* data register is read, whatever was typed in between: an overflow       *)
(* replaces the byte, it does not take it away.  So a 0 from CONIN is      *)
(* always a typed control-@.                                               *)
ReadyStays == conin = "read" => has_data

(* The ring is a queue of FIFO_SIZE bytes that drops the oldest.           *)
Contents == [i \in 1 .. fifo_count |-> fifo[(fifo_rpos + i - 1) % FIFO_SIZE]]
Queue == INSTANCE DropOldest
           WITH q <- Contents, Item <- Data, Capacity <- FIFO_SIZE,
                MaxTake <- 1
ImplementsQueue == Queue!Spec

(* A program that waits in CONIN goes on once there is a byte. *)
ConinReturns == conin # "run" /\ has_data ~> conin = "run"

=============================================================================
