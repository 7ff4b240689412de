------------------------------- MODULE Floppy -------------------------------
(***************************************************************************)
(* The control latches between the PIO and the floppy controller, and the  *)
(* memory bank one of them switches (floppy.cpp, Membus.cpp).  The same    *)
(* fact is held several times: PIO port B bit 7 is copied to romen, to     *)
(* MEMBUS::rom_enabled and to the table the CPU reads memory through; the  *)
(* drive, side, density and motor bits are copied to control_a, control_b, *)
(* the single outputs and the controller.                                  *)
(*                                                                         *)
(* The operators go from object to object, so that the machine can combine *)
(* them in the order the devices call each other.                          *)
(***************************************************************************)
EXTENDS Naturals

CONSTANT Drive       \* the drives of the controller; 0 and 1

ASSUME DriveFits == Drive \subseteq 0 .. 3

VARIABLES
  floppy,     \* the FLOPPY object
  fdc,        \* what the controller has been told (MB8877)
  membus      \* rom_enabled, and what the CPU reads at 0000h - 1FFFh

Bits == SUBSET (0 .. 7)

Latches ==
  [port_a: Bits, port_b: Bits, control_a: Bits, control_b: Bits,
   head_select_n: BOOLEAN, in_use_n: BOOLEAN, unsafe_reset_n: BOOLEAN,
   disk2_sense: BOOLEAN, romen: BOOLEAN]
Controller ==
  [drive: 0 .. 3, side: {0, 1}, mfm: [Drive -> BOOLEAN], motor: BOOLEAN]
Bank == [rom_enabled: BOOLEAN, low: {"rom", "ram"}]

LatchTypeOK == floppy \in Latches /\ fdc \in Controller /\ membus \in Bank

-----------------------------------------------------------------------------
(* MEMBUS.  A write always goes to RAM; only reads are switched.           *)

update_memory_map(m) == [m EXCEPT !.low = IF m.rom_enabled THEN "rom" ELSE "ram"]

MembusReset == update_memory_map([membus EXCEPT !.rom_enabled = TRUE])

(* MEMBUS::write_signal acts on a change only. *)
Romen(m, next) ==
  IF m.rom_enabled = next THEN m
  ELSE update_memory_map([m EXCEPT !.rom_enabled = next])

(* The file holds rom_enabled, and the map is made from it. *)
MembusLoad(m) == update_memory_map([membus EXCEPT !.rom_enabled = m.rom_enabled])

-----------------------------------------------------------------------------
(* FLOPPY.                                                                 *)

DriveUnmasked(f) ==
  (IF 0 \in f.control_b THEN 1 ELSE 0) + (IF 1 \in f.control_b THEN 2 ELSE 0)
    + (IF 2 \in f.control_b THEN 4 ELSE 0) + (IF 3 \in f.control_b THEN 8 ELSE 0)

(* The two low bits of port B are the number of a drive. *)
DriveOf(f) ==
  (IF 0 \in f.control_b THEN 1 ELSE 0) + (IF 1 \in f.control_b THEN 2 ELSE 0)

(* Each drive has a bit of its own that says its motor runs. *)
Ready(f) ==
  \/ DriveOf(f) = 0 /\ 3 \in f.control_b
  \/ DriveOf(f) = 1 /\ 2 \in f.control_b

(* update_control_latches: the object, and what it tells the controller. *)
update_control_latches(f) ==
  LET a == f.port_a \cap {1, 2, 4, 5, 6}
  IN  [f EXCEPT !.control_a = a,
                !.control_b = f.port_b \cap {0, 1, 2, 3},
                !.head_select_n = 1 \in a,
                !.in_use_n = 2 \in a,
                !.unsafe_reset_n = 5 \in a,
                !.disk2_sense = 6 \in a]

SideSignal(f) == IF f.disk2_sense THEN 1 ELSE 0

(* The density goes to the selected drive and stays there. *)
Signals(f, c) ==
  [drive |-> DriveOf(f),
   side  |-> SideSignal(f),
   mfm   |-> [d \in Drive |-> IF d = DriveOf(f) THEN 4 \in f.control_a ELSE c.mfm[d]],
   motor |-> Ready(f)]

FloppyReset ==
  update_control_latches(
    [port_a |-> {}, port_b |-> {7}, control_a |-> {}, control_b |-> {},
     head_select_n |-> TRUE, in_use_n |-> TRUE, unsafe_reset_n |-> TRUE,
     disk2_sense |-> FALSE, romen |-> TRUE])

PortA(data) == update_control_latches([floppy EXCEPT !.port_a = data \cap {1, 2, 4, 5, 6}])

PortB(data) ==
  update_control_latches([floppy EXCEPT !.port_b = data \cap {0, 1, 2, 3, 7},
                                        !.romen = 7 \in data])

LoadForgetsPortA(f) ==
  update_control_latches(
    [floppy EXCEPT !.port_b = f.port_b,
                   !.control_a = f.control_a, !.control_b = f.control_b,
                   !.disk2_sense = f.disk2_sense, !.romen = f.romen])

(* The file holds neither the single outputs nor the controller's copies. *)
FloppyLoad(f) ==
  update_control_latches(
    [floppy EXCEPT !.port_a = f.port_a, !.port_b = f.port_b,
                   !.control_a = f.control_a, !.control_b = f.control_b,
                   !.disk2_sense = f.disk2_sense, !.romen = f.romen])

-----------------------------------------------------------------------------
(* Steps of the machine.                                                   *)

(* FLOPPY::write_signal: a byte at the PIO's output A or B. *)
WritePortA(data) ==
  /\ floppy' = PortA(data)
  /\ fdc' = Signals(floppy', fdc)
  /\ UNCHANGED membus

SignalsChangeOnly(data) ==
  /\ floppy' = PortB(data)
  /\ fdc' = Signals(floppy', fdc)
  /\ membus' = IF floppy'.romen # floppy.romen THEN Romen(membus, floppy'.romen)
                                                ELSE membus

WritePortB(data) ==
  /\ floppy' = PortB(data)
  /\ fdc' = Signals(floppy', fdc)
  /\ membus' = Romen(membus, floppy'.romen)

(* A write to a register of the PIO: 0 and 2 are the data of A and B, 1    *)
(* and 3 their control, which the BIOS sets to output.                     *)
PioWrite(reg, data) ==
  \/ reg = 0 /\ WritePortA(data)
  \/ reg = 2 /\ WritePortB(data)
  \/ reg \in {1, 3} /\ UNCHANGED <<floppy, fdc, membus>>

(* VM::reset, for these devices, in the order they were created. *)
LatchReset ==
  /\ floppy' = FloppyReset
  /\ fdc' = Signals(floppy', fdc)
  /\ membus' = Romen(MembusReset, floppy'.romen)

(* The first reset comes before the first instruction; both densities are  *)
(* FM until then.                                                          *)
LatchInit ==
  /\ floppy = FloppyReset
  /\ fdc = Signals(floppy, [mfm |-> [d \in Drive |-> FALSE]])
  /\ membus = [rom_enabled |-> TRUE, low |-> "rom"]

-----------------------------------------------------------------------------
(* All copies of a bit agree.                                              *)
BankAgrees ==
  /\ floppy.romen = (7 \in floppy.port_b)
  /\ membus.rom_enabled = floppy.romen
  /\ membus.low = IF membus.rom_enabled THEN "rom" ELSE "ram"
LatchesAgree ==
  /\ floppy = update_control_latches(floppy)
  /\ fdc = Signals(floppy, fdc)

=============================================================================
