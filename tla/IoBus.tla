------------------------------- MODULE IoBus -------------------------------
(***************************************************************************)
(* The I/O decoders of the two CPUs (MAINIO and SUBIO in LynxZ80.cpp):     *)
(* which device and which of its registers an IN or OUT reaches.  A byte   *)
(* on the bus is the set of its bits that are 1, so that an AND mask is an *)
(* intersection.  Every device is connected before the machine runs, so    *)
(* the tests for a missing one are left out.                               *)
(***************************************************************************)
EXTENDS Naturals

kUnmappedIoValue == 0 .. 7

At(device, reg) == [dev |-> device, reg |-> reg]
Nothing == At("none", 0)

-----------------------------------------------------------------------------
(* The main CPU's side.                                                    *)

io_decoder_enabled(addr) == (addr \div 32) % 8 = 1
main_minsub_selected(addr) == (addr \div 4) % 64 = 15
io_group(addr) == (addr \div 4) % 8
io_reg(addr) == addr % 4

StraightReg(addr) == addr % 4

(* sio_reg and pio_reg: address lines 0 and 1 change places. *)
swapped_reg(addr) == 2 * (io_reg(addr) % 2) + io_reg(addr) \div 2

MainIoGroup(group) ==
  CASE group = 0 -> "sio" [] group = 1 -> "ctc" [] group = 2 -> "dma"
    [] group = 3 -> "fdc" [] group = 4 -> "pio" [] OTHER -> "none"

(* Where MAINIO::write_io8 passes a byte on to. *)
MainSelect(addr) ==
  LET device == MainIoGroup(io_group(addr))
  IN  CASE main_minsub_selected(addr)    -> At("minsub", 0)
        [] ~io_decoder_enabled(addr)     -> Nothing
        [] device \in {"sio", "pio"}     -> At(device, swapped_reg(addr))
        [] device \in {"ctc", "fdc"}     -> At(device, io_reg(addr))
        [] OTHER                         -> At(device, 0)

(* MAINIO::read_io8, given the byte the selected device answers and the    *)
(* byte the keyboard holds as the set of none or one: the two registers of *)
(* SIO channel B belong to the keyboard while it has one.                  *)
MainRead(addr, answer, key) ==
  LET to == MainSelect(addr)
  IN  CASE to = Nothing                    -> kUnmappedIoValue
        [] to = At("sio", 2) /\ key # {}   -> CHOOSE data \in key : TRUE
        [] to = At("sio", 3) /\ key # {}   -> answer \cup {0}
        [] OTHER                           -> answer

-----------------------------------------------------------------------------
(* The sub CPU's side: address lines 7 and 1 select, line 0 is the GDC's   *)
(* register.                                                               *)

Line(addr, n) == (addr \div 2^n) % 2

SubSelect(addr) ==
  CASE Line(addr, 7) = 0 /\ Line(addr, 1) = 0 -> At("cgdc", Line(addr, 0))
    [] Line(addr, 7) = 0 /\ Line(addr, 1) = 1 -> At("ggdc", Line(addr, 0))
    [] Line(addr, 7) = 1 /\ Line(addr, 1) = 0 -> At("minsub", 0)
    [] OTHER                                  -> Nothing

=============================================================================
