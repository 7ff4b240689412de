------------------------------- MODULE Minsub -------------------------------
(***************************************************************************)
(* MINSUB, the one-byte mailbox between the main and the sub Z80           *)
(* (MainSubBridge in src/vm/Lynxz80/LynxZ80.cpp).  The main CPU writes the *)
(* data register and reads a status byte; the sub CPU reads the data       *)
(* register, which clears DR_FULL, and writes SUB_BUSY.  Neither access    *)
(* waits: a write replaces an unread byte, a read of an empty register     *)
(* returns 00h.  Whatever ordering there is comes from the two programs    *)
(* that use the bridge, which are modelled in Console and DiagLink.        *)
(***************************************************************************)

CONSTANTS
  Byte,   \* the values of the data register the model tells apart
  NUL     \* 00h, which is also what an empty register reads as

ASSUME NulIsByte == NUL \in Byte

VARIABLES
  main_to_sub_data,
  dr_full,
  sub_busy

bridge == <<main_to_sub_data, dr_full, sub_busy>>

BridgeTypeOK ==
  /\ main_to_sub_data \in Byte
  /\ dr_full \in BOOLEAN
  /\ sub_busy \in BOOLEAN

(* The constructor calls reset(). *)
BridgeInit ==
  /\ main_to_sub_data = NUL
  /\ dr_full = FALSE
  /\ sub_busy = TRUE

BridgeReset ==
  /\ main_to_sub_data' = NUL
  /\ dr_full' = FALSE
  /\ sub_busy' = TRUE

(* The two status bits as the set of those that are up, so that a program's *)
(* AND mask is an intersection.                                             *)
MainIoRead ==
  {bit \in {"DR_FULL", "SUB_BUSY"} :
     \/ bit = "DR_FULL" /\ dr_full
     \/ bit = "SUB_BUSY" /\ sub_busy}

(* Nothing in the device looks at dr_full before it is set. *)
MainIoWrite(b) ==
  /\ main_to_sub_data' = b
  /\ dr_full' = TRUE
  /\ UNCHANGED sub_busy

SubIoReadValue == IF dr_full THEN main_to_sub_data ELSE NUL

SubIoRead ==
  /\ dr_full' = FALSE
  /\ UNCHANGED <<main_to_sub_data, sub_busy>>

SubIoWrite(busy) ==
  /\ sub_busy' = busy
  /\ UNCHANGED <<main_to_sub_data, dr_full>>

=============================================================================
