----------------------------- MODULE SavedState -----------------------------
(***************************************************************************)
(* Saving and loading the state of the machine (VM::process_state) around  *)
(* the devices that hold copies of each other's state: the latches, the    *)
(* controller, the memory bank, and the MINSUB bridge.  A load goes from   *)
(* device to device and stops at the first one whose part of the file does *)
(* not fit; the devices before it keep what they have loaded.  The CPUs    *)
(* reach the devices through the I/O decoders, between any two of these.   *)
(***************************************************************************)
EXTENDS IoBus, Floppy, Minsub, Sequences

CONSTANTS
  MainOuts,      \* bound: port and byte of the OUTs of the main CPU
  SubPorts,      \* bound: ports of the sub CPU
  SubBytes       \* bound: bytes it writes

ASSUME BridgeGetsBytes ==
  \A out \in MainOuts : main_minsub_selected(out[1]) => out[2] \in Byte

VARIABLES
  saved,         \* the file
  torn,          \* history: has a load stopped between the bank and the latches,
                 \* and nothing mended it?
  tornFile       \* history: was the machine torn when the file was written?

machine == [floppy |-> floppy, fdc |-> fdc, membus |-> membus, bridge |-> bridge]
latches == <<floppy, fdc, membus>>
vars == <<floppy, fdc, membus, main_to_sub_data, dr_full, sub_busy, saved, torn,
          tornFile>>

(* The list of devices, which is the order the VM creates them in. *)
DeviceOrder ==
  <<"dummy", "event", "memory", "memory_sub", "cpu_main", "cpu_sub",
    "debugger_main", "debugger_sub", "dma", "pio", "sio", "ctc", "cgdc", "ggdc",
    "fdc", "noise_seek", "noise_head_down", "noise_head_up", "floppy", "display",
    "keyboard", "serial", "mainio", "subio">>
Loads(device, stop) == \E i \in 1 .. (stop - 1) : DeviceOrder[i] = device

-----------------------------------------------------------------------------
(* The CPUs.                                                               *)

(* MAINIO::write_io8. *)
MainOut(addr, data) ==
  LET to == MainSelect(addr)
  IN  /\ IF to.dev = "minsub" THEN MainIoWrite(data) ELSE UNCHANGED bridge
      /\ IF to.dev = "pio" THEN PioWrite(to.reg, data) ELSE UNCHANGED latches
      /\ torn' = (torn /\ to # At("pio", 2))
      /\ UNCHANGED <<saved, tornFile>>

(* SUBIO::write_io8; bit 0 of the byte is SUB_BUSY. *)
SubOut(addr, data) ==
  /\ IF SubSelect(addr).dev = "minsub" THEN SubIoWrite(0 \in data)
                                       ELSE UNCHANGED bridge
  /\ UNCHANGED <<latches, saved, torn, tornFile>>

(* SUBIO::read_io8. *)
SubIn(addr) ==
  /\ IF SubSelect(addr).dev = "minsub" THEN SubIoRead ELSE UNCHANGED bridge
  /\ UNCHANGED <<latches, saved, torn, tornFile>>

-----------------------------------------------------------------------------
(* The user.                                                               *)

(* VM::reset: the bridge, then the devices. *)
Reset ==
  /\ BridgeReset
  /\ LatchReset
  /\ torn' = FALSE
  /\ UNCHANGED <<saved, tornFile>>

(* process_state, saving: any machine, a torn one as well. *)
Save ==
  /\ saved' = machine
  /\ tornFile' = torn
  /\ UNCHANGED <<latches, bridge, torn>>

(* MainSubBridge::set_state. *)
set_state(b) ==
  /\ main_to_sub_data' = b[1] /\ dr_full' = b[2] /\ sub_busy' = b[3]

(* process_state, loading: device number stop refuses; one past the last   *)
(* means none did, and the bridge, which comes last, is loaded too.  The   *)
(* latches signal their outputs again once loaded.                         *)
Load(stop) ==
  LET loadedBank == IF Loads("memory", stop) THEN MembusLoad(saved.membus) ELSE membus
      loadedFdc == IF Loads("fdc", stop) THEN saved.fdc ELSE fdc
  IN  /\ IF Loads("floppy", stop)
           THEN /\ floppy' = FloppyLoad(saved.floppy)
                /\ fdc' = Signals(floppy', loadedFdc)
                /\ membus' = Romen(loadedBank, floppy'.romen)
           ELSE floppy' = floppy /\ fdc' = loadedFdc /\ membus' = loadedBank
      /\ IF stop > Len(DeviceOrder) THEN set_state(saved.bridge) ELSE UNCHANGED bridge
      /\ torn' = (~Loads("floppy", stop) /\ (torn \/ Loads("memory", stop)))
      /\ UNCHANGED <<saved, tornFile>>

Init ==
  /\ LatchInit /\ BridgeInit
  /\ saved = machine
  /\ torn = FALSE /\ tornFile = FALSE

Next ==
  \/ \E out \in MainOuts : MainOut(out[1], out[2])
  \/ \E addr \in SubPorts : SubIn(addr) \/ \E data \in SubBytes : SubOut(addr, data)
  \/ Reset
  \/ Save
  \/ \E stop \in 1 .. Len(DeviceOrder) + 1 : Load(stop)

Spec == Init /\ [][Next]_vars

-----------------------------------------------------------------------------

TypeOK ==
  /\ LatchTypeOK /\ BridgeTypeOK
  /\ saved \in [floppy: Latches, fdc: Controller, membus: Bank,
                bridge: Byte \X BOOLEAN \X BOOLEAN]
  /\ torn \in BOOLEAN /\ tornFile \in BOOLEAN

(* All copies of a latch agree: the controller works on the drive, side    *)
(* and density port A and B say, and the CPU reads ROM or RAM as bit 7     *)
(* says.  A load that stopped between the bank and the latches can part    *)
(* them; the next write to port B or a reset brings them together, and so  *)
(* does a load that reaches the latches.                                   *)
CopiesAgree == ~torn => BankAgrees /\ LatchesAgree

(* What a load that no device refuses gives back, although the devices     *)
(* signal each other while they load: the machine that was saved, the      *)
(* copies that are not in the file included, unless that machine was torn. *)
(* Of a torn one it gives back the latches, the bridge and the densities   *)
(* of the drives that are not selected; the bank and the controller follow *)
(* the latches and not the file, so that the copies agree again.           *)
CompleteLoad ==
  /\ ~tornFile => machine' = saved
  /\ floppy' = saved.floppy /\ bridge' = saved.bridge
  /\ \A d \in Drive : d # fdc'.drive => fdc'.mfm[d] = saved.fdc.mfm[d]
  /\ BankAgrees' /\ LatchesAgree'

(* A complete load restores so much, whatever was saved and into whatever  *)
(* machine; a load refused at the start changes nothing.                   *)
LoadRestores ==
  [][ /\ Load(Len(DeviceOrder) + 1) => CompleteLoad
      /\ Load(1) => machine' = machine ]_vars

=============================================================================
