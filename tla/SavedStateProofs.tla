-------------------------- MODULE SavedStateProofs --------------------------
(***************************************************************************)
(* The copies of the latches stay together and a complete load restores    *)
(* them, for any set of drives and of bytes, any programs on the two CPUs, *)
(* and a load that may stop at any device.                                 *)
(***************************************************************************)
EXTENDS SavedState, TLAPS

(* CopiesAgree says nothing of a torn machine, and a load starts from one, *)
(* or takes a file that was written of one.  Even then the latches are in  *)
(* step with the ports, romen with port B, and the memory map with its own *)
(* flag: all that a write to port B, a reset or a load needs to mend the   *)
(* rest.  Of a file of a whole machine, all copies agree.                  *)
MapFollows(m) == m.low = IF m.rom_enabled THEN "rom" ELSE "ram"
RomenFollows(f) == f.romen = (7 \in f.port_b)
Settled(f) == f = update_control_latches(f)
Agreed(f, c, m) ==
  /\ c = Signals(f, c)
  /\ m.rom_enabled = f.romen

LatchPart ==
  /\ LatchTypeOK
  /\ MapFollows(membus) /\ RomenFollows(floppy) /\ Settled(floppy)
  /\ ~torn => Agreed(floppy, fdc, membus)
SavedPart ==
  /\ saved \in [floppy: Latches, fdc: Controller, membus: Bank,
                bridge: Byte \X BOOLEAN \X BOOLEAN]
  /\ MapFollows(saved.membus) /\ RomenFollows(saved.floppy) /\ Settled(saved.floppy)
  /\ ~tornFile => Agreed(saved.floppy, saved.fdc, saved.membus)

IInv ==
  /\ LatchPart /\ SavedPart /\ BridgeTypeOK
  /\ torn \in BOOLEAN /\ tornFile \in BOOLEAN

-----------------------------------------------------------------------------
(* The latches and what they tell. *)

LEMMA LatchesChanged ==
  ASSUME NEW f \in Latches, NEW a \in Bits, NEW b \in Bits,
         NEW h \in BOOLEAN, NEW i \in BOOLEAN, NEW u \in BOOLEAN, NEW s \in BOOLEAN
  PROVE  [f EXCEPT !.control_a = a, !.control_b = b, !.head_select_n = h,
                   !.in_use_n = i, !.unsafe_reset_n = u, !.disk2_sense = s] \in Latches
BY DEF Latches

LEMMA LatchesWritten ==
  ASSUME NEW f \in Latches, NEW g, g = update_control_latches(f)
  PROVE  /\ g \in Latches
         /\ g.port_a = f.port_a /\ g.port_b = f.port_b /\ g.romen = f.romen
         /\ g.control_a = f.port_a \cap {1, 2, 4, 5, 6}
         /\ g.control_b = f.port_b \cap {0, 1, 2, 3}
         /\ g.head_select_n = (1 \in g.control_a)
         /\ g.in_use_n = (2 \in g.control_a)
         /\ g.unsafe_reset_n = (5 \in g.control_a)
         /\ g.disk2_sense = (6 \in g.control_a)
<1> DEFINE a == f.port_a \cap {1, 2, 4, 5, 6}
<1>1. a \in Bits /\ f.port_b \cap {0, 1, 2, 3} \in Bits
  BY DEF Latches, Bits
<1>3. g = [f EXCEPT !.control_a = a, !.control_b = f.port_b \cap {0, 1, 2, 3},
                    !.head_select_n = 1 \in a, !.in_use_n = 2 \in a,
                    !.unsafe_reset_n = 5 \in a, !.disk2_sense = 6 \in a]
  BY DEF update_control_latches
<1> HIDE DEF a
<1>4. g \in Latches
  <2> DEFINE b == f.port_b \cap {0, 1, 2, 3}
  <2> DEFINE h == 1 \in a
  <2> DEFINE i == 2 \in a
  <2> DEFINE u == 5 \in a
  <2> DEFINE s == 6 \in a
  <2>1. b \in Bits
    BY <1>1
  <2>2. h \in BOOLEAN /\ i \in BOOLEAN /\ u \in BOOLEAN /\ s \in BOOLEAN
    OBVIOUS
  <2> HIDE DEF b, h, i, u, s
  <2>3. [f EXCEPT !.control_a = a, !.control_b = b, !.head_select_n = h,
                  !.in_use_n = i, !.unsafe_reset_n = u, !.disk2_sense = s] \in Latches
    BY <1>1, <2>1, <2>2, LatchesChanged, ZenonT(30)
  <2>4. QED
    BY <1>3, <2>3 DEF b, h, i, u, s
<1>5. /\ g.port_a = f.port_a /\ g.port_b = f.port_b /\ g.romen = f.romen
      /\ g.control_a = a
      /\ g.control_b = f.port_b \cap {0, 1, 2, 3}
  BY <1>3 DEF Latches
<1>6. g.head_select_n = (1 \in a) /\ g.in_use_n = (2 \in a)
  BY <1>3 DEF Latches
<1>7. g.unsafe_reset_n = (5 \in a) /\ g.disk2_sense = (6 \in a)
  BY <1>3 DEF Latches
<1>8. QED
  BY <1>4, <1>5, <1>6, <1>7 DEF a

LEMMA SameLatches ==
  ASSUME NEW f \in Latches, NEW g \in Latches,
         f.port_a = g.port_a, f.port_b = g.port_b, f.romen = g.romen,
         f.control_a = g.control_a, f.control_b = g.control_b,
         f.head_select_n = g.head_select_n, f.in_use_n = g.in_use_n,
         f.unsafe_reset_n = g.unsafe_reset_n, f.disk2_sense = g.disk2_sense
  PROVE  f = g
BY DEF Latches

LEMMA LatchesSettle ==
  ASSUME NEW f \in Latches
  PROVE  /\ update_control_latches(f) \in Latches
         /\ update_control_latches(update_control_latches(f)) = update_control_latches(f)
         /\ update_control_latches(f).romen = f.romen
         /\ update_control_latches(f).port_b = f.port_b
<1> DEFINE g == update_control_latches(f)
<1> DEFINE h == update_control_latches(g)
<1> HIDE DEF g, h
<1>1. /\ g \in Latches
      /\ g.port_a = f.port_a /\ g.port_b = f.port_b /\ g.romen = f.romen
      /\ g.control_a = f.port_a \cap {1, 2, 4, 5, 6}
      /\ g.control_b = f.port_b \cap {0, 1, 2, 3}
      /\ g.head_select_n = (1 \in g.control_a)
      /\ g.in_use_n = (2 \in g.control_a)
      /\ g.unsafe_reset_n = (5 \in g.control_a)
      /\ g.disk2_sense = (6 \in g.control_a)
  BY LatchesWritten DEF g
<1>2. /\ h \in Latches
      /\ h.port_a = g.port_a /\ h.port_b = g.port_b /\ h.romen = g.romen
      /\ h.control_a = g.port_a \cap {1, 2, 4, 5, 6}
      /\ h.control_b = g.port_b \cap {0, 1, 2, 3}
      /\ h.head_select_n = (1 \in h.control_a)
      /\ h.in_use_n = (2 \in h.control_a)
      /\ h.unsafe_reset_n = (5 \in h.control_a)
      /\ h.disk2_sense = (6 \in h.control_a)
  BY <1>1, LatchesWritten DEF h
<1>3. /\ h.port_a = g.port_a /\ h.port_b = g.port_b /\ h.romen = g.romen
      /\ h.control_a = g.control_a /\ h.control_b = g.control_b
  BY <1>1, <1>2
<1>a. h.head_select_n = g.head_select_n /\ h.in_use_n = g.in_use_n
  BY <1>1, <1>2, <1>3, ZenonT(30)
<1>b. h.unsafe_reset_n = g.unsafe_reset_n /\ h.disk2_sense = g.disk2_sense
  BY <1>1, <1>2, <1>3, ZenonT(30)
<1>c. h = g
  BY <1>1, <1>2, <1>3, <1>a, <1>b, SameLatches
<1>4. QED
  BY <1>1, <1>c DEF g, h

LEMMA SignalsTyped ==
  ASSUME NEW f \in Latches, NEW c \in Controller
  PROVE  Signals(f, c) \in Controller
<1>1. DriveOf(f) \in 0 .. 3
  BY DEF DriveOf
<1>2. SideSignal(f) \in {0, 1}
  BY DEF SideSignal
<1>3. Ready(f) \in BOOLEAN
  BY DEF Ready
<1>4. [d \in Drive |-> IF d = DriveOf(f) THEN 4 \in f.control_a ELSE c.mfm[d]]
        \in [Drive -> BOOLEAN]
  <2>1. \A d \in Drive : c.mfm[d] \in BOOLEAN
    BY DEF Controller
  <2>2. (4 \in f.control_a) \in BOOLEAN
    OBVIOUS
  <2>3. QED
    BY <2>1, <2>2, Zenon
<1>5. QED
  BY <1>1, <1>2, <1>3, <1>4 DEF Signals, Controller

LEMMA SignalsSettle ==
  ASSUME NEW f \in Latches, NEW c \in Controller
  PROVE  Signals(f, Signals(f, c)) = Signals(f, c)
BY DEF Signals, Controller

LEMMA RomenMaps ==
  ASSUME NEW m \in Bank, MapFollows(m), NEW next \in BOOLEAN
  PROVE  /\ Romen(m, next) \in Bank
         /\ MapFollows(Romen(m, next))
         /\ Romen(m, next).rom_enabled = next
BY DEF Romen, update_memory_map, Bank, MapFollows

(* Whatever the latches are set to, the objects agree once it has been     *)
(* passed on.                                                              *)
LEMMA PassedOn ==
  ASSUME NEW f \in Latches, RomenFollows(f),
         NEW c \in Controller, NEW m \in Bank, MapFollows(m),
         NEW g, g = update_control_latches(f),
         NEW d, d = Signals(g, c),
         NEW n, n = Romen(m, g.romen)
  PROVE  /\ g \in Latches /\ d \in Controller /\ n \in Bank
         /\ RomenFollows(g) /\ Settled(g) /\ MapFollows(n)
         /\ Agreed(g, d, n)
<1>1. g \in Latches /\ RomenFollows(g) /\ Settled(g)
  BY LatchesSettle DEF RomenFollows, Settled
<1>2. d \in Controller /\ d = Signals(g, d)
  BY <1>1, SignalsTyped, SignalsSettle
<1>3. g.romen \in BOOLEAN
  BY <1>1 DEF Latches
<1>4. n \in Bank /\ MapFollows(n) /\ n.rom_enabled = g.romen
  BY <1>3, RomenMaps
<1>5. QED
  BY <1>1, <1>2, <1>4 DEF Agreed

-----------------------------------------------------------------------------
(* The devices in the order they are loaded. *)

LEMMA MemoryFirst ==
  ASSUME NEW stop \in 1 .. Len(DeviceOrder) + 1
  PROVE  /\ Loads("fdc", stop) => Loads("memory", stop)
         /\ Loads("floppy", stop) => Loads("fdc", stop)
BY DEF Loads, DeviceOrder

LEMMA AllLoad ==
  LET last == Len(DeviceOrder) + 1
  IN  Loads("memory", last) /\ Loads("fdc", last) /\ Loads("floppy", last)
BY DEF Loads, DeviceOrder

-----------------------------------------------------------------------------
(* The steps, latches first. *)

LEMMA PortAStep ==
  ASSUME LatchPart, NEW data, WritePortA(data), torn' = torn
  PROVE  LatchPart'
<1> DEFINE f == [floppy EXCEPT !.port_a = data \cap {1, 2, 4, 5, 6}]
<1>1. f \in Latches /\ RomenFollows(f) /\ f.romen = floppy.romen
  BY DEF LatchPart, LatchTypeOK, Latches, Bits, RomenFollows
<1> HIDE DEF f
<1>2. floppy' = update_control_latches(f) /\ fdc' = Signals(floppy', fdc)
      /\ membus' = membus
  BY DEF WritePortA, PortA, f
<1>3. /\ floppy' \in Latches /\ fdc' \in Controller /\ RomenFollows(floppy')
      /\ Settled(floppy') /\ Agreed(floppy', fdc', Romen(membus, floppy'.romen))
  BY <1>1, <1>2, PassedOn DEF LatchPart, LatchTypeOK
<1>4. floppy'.romen = floppy.romen
  BY <1>1, <1>2, LatchesSettle
<1>5. ASSUME ~torn PROVE Agreed(floppy', fdc', membus')
  BY <1>2, <1>3, <1>4, <1>5 DEF Agreed, LatchPart
<1>6. QED
  BY <1>2, <1>3, <1>5 DEF LatchPart, LatchTypeOK

LEMMA PortBStep ==
  ASSUME LatchPart, NEW data, WritePortB(data)
  PROVE  LatchPart'
<1> DEFINE f == [floppy EXCEPT !.port_b = data \cap {0, 1, 2, 3, 7}, !.romen = 7 \in data]
<1>1. f \in Latches /\ RomenFollows(f)
  <2> DEFINE r == 7 \in data
  <2> DEFINE b == data \cap {0, 1, 2, 3, 7}
  <2>1. b \in Bits /\ r \in BOOLEAN /\ r = (7 \in b)
    BY DEF Bits
  <2> HIDE DEF r, b
  <2> DEFINE g == [floppy EXCEPT !.port_b = b, !.romen = r]
  <2>2. g \in Latches /\ g.port_b = b /\ g.romen = r
    BY <2>1 DEF LatchPart, LatchTypeOK, Latches
  <2> HIDE DEF g
  <2>3. RomenFollows(g)
    BY <2>1, <2>2, Zenon DEF RomenFollows
  <2>4. QED
    BY <2>2, <2>3 DEF g, b, r
<1> HIDE DEF f
<1>2. floppy' = update_control_latches(f) /\ fdc' = Signals(floppy', fdc)
      /\ membus' = Romen(membus, floppy'.romen)
  BY DEF WritePortB, PortB, f
<1>3. QED
  BY <1>1, <1>2, PassedOn DEF LatchPart, LatchTypeOK

LEMMA ResetTyped ==
  LET f == [port_a |-> {}, port_b |-> {7}, control_a |-> {}, control_b |-> {},
            head_select_n |-> TRUE, in_use_n |-> TRUE, unsafe_reset_n |-> TRUE,
            disk2_sense |-> FALSE, romen |-> TRUE]
  IN  f \in Latches /\ RomenFollows(f)
<1>1. {} \in Bits /\ {7} \in Bits
  BY DEF Bits
<1>2. TRUE \in BOOLEAN /\ FALSE \in BOOLEAN /\ 7 \in {7}
  OBVIOUS
<1>3. QED
  BY <1>1, <1>2 DEF Latches, RomenFollows

LEMMA ResetStep ==
  ASSUME LatchPart, LatchReset
  PROVE  LatchPart'
<1>1. MembusReset \in Bank /\ MapFollows(MembusReset)
  BY DEF LatchPart, LatchTypeOK, MembusReset, update_memory_map, Bank, MapFollows
<1>2. QED
  BY <1>1, ResetTyped, PassedOn
  DEF LatchReset, FloppyReset, LatchPart, LatchTypeOK

LEMMA FileTyped ==
  ASSUME LatchPart, SavedPart
  PROVE  LET f == [floppy EXCEPT !.port_a = saved.floppy.port_a,
                                 !.port_b = saved.floppy.port_b,
                                 !.control_a = saved.floppy.control_a,
                                 !.control_b = saved.floppy.control_b,
                                 !.disk2_sense = saved.floppy.disk2_sense,
                                 !.romen = saved.floppy.romen]
         IN  /\ f \in Latches /\ RomenFollows(f)
             /\ f.port_a = saved.floppy.port_a /\ f.port_b = saved.floppy.port_b
             /\ f.romen = saved.floppy.romen
<1> DEFINE f == [floppy EXCEPT !.port_a = saved.floppy.port_a,
                               !.port_b = saved.floppy.port_b,
                               !.control_a = saved.floppy.control_a,
                               !.control_b = saved.floppy.control_b,
                               !.disk2_sense = saved.floppy.disk2_sense,
                               !.romen = saved.floppy.romen]
<1>1. floppy \in Latches /\ saved.floppy \in Latches
  BY DEF LatchPart, LatchTypeOK, SavedPart
<1>2. f \in Latches
  BY <1>1 DEF Latches
<1>3. f.port_a = saved.floppy.port_a /\ f.port_b = saved.floppy.port_b
  BY <1>1 DEF Latches
<1>4. f.romen = saved.floppy.romen
  BY <1>1 DEF Latches
<1> HIDE DEF f
<1>5. RomenFollows(f)
  BY <1>3, <1>4 DEF SavedPart, RomenFollows
<1>6. QED
  BY <1>2, <1>3, <1>4, <1>5 DEF f

(* What is loaded of the latches is what was saved. *)
LEMMA LoadedLatches ==
  ASSUME LatchPart, SavedPart
  PROVE  FloppyLoad(saved.floppy) = saved.floppy
<1> DEFINE f == [floppy EXCEPT !.port_a = saved.floppy.port_a,
                               !.port_b = saved.floppy.port_b,
                               !.control_a = saved.floppy.control_a,
                               !.control_b = saved.floppy.control_b,
                               !.disk2_sense = saved.floppy.disk2_sense,
                               !.romen = saved.floppy.romen]
<1> DEFINE g == update_control_latches(f)
<1> DEFINE h == saved.floppy
<1>1. /\ f \in Latches /\ f.port_a = h.port_a /\ f.port_b = h.port_b
      /\ f.romen = h.romen
  BY FileTyped
<1>2. h \in Latches /\ h = update_control_latches(h)
  BY DEF SavedPart, Settled
<1>3. FloppyLoad(saved.floppy) = g
  BY DEF FloppyLoad
<1> HIDE DEF f, g, h
<1>4. /\ g \in Latches
      /\ g.port_a = h.port_a /\ g.port_b = h.port_b /\ g.romen = h.romen
      /\ g.control_a = h.port_a \cap {1, 2, 4, 5, 6}
      /\ g.control_b = h.port_b \cap {0, 1, 2, 3}
      /\ g.head_select_n = (1 \in g.control_a)
      /\ g.in_use_n = (2 \in g.control_a)
      /\ g.unsafe_reset_n = (5 \in g.control_a)
      /\ g.disk2_sense = (6 \in g.control_a)
  BY <1>1, LatchesWritten DEF g
<1>5. /\ h.control_a = h.port_a \cap {1, 2, 4, 5, 6}
      /\ h.control_b = h.port_b \cap {0, 1, 2, 3}
      /\ h.head_select_n = (1 \in h.control_a)
      /\ h.in_use_n = (2 \in h.control_a)
      /\ h.unsafe_reset_n = (5 \in h.control_a)
      /\ h.disk2_sense = (6 \in h.control_a)
  BY <1>2, LatchesWritten
<1>6. g.control_a = h.control_a /\ g.control_b = h.control_b
  BY <1>4, <1>5
<1>7. g.head_select_n = h.head_select_n /\ g.in_use_n = h.in_use_n
  BY <1>4, <1>5, <1>6, Zenon
<1>8. g.unsafe_reset_n = h.unsafe_reset_n /\ g.disk2_sense = h.disk2_sense
  BY <1>4, <1>5, <1>6, Zenon
<1>9. g = h
  BY <1>2, <1>4, <1>6, <1>7, <1>8, SameLatches
<1>10. QED
  BY <1>3, <1>9 DEF h

LEMMA LoadedBank ==
  ASSUME LatchPart, SavedPart
  PROVE  MembusLoad(saved.membus) = saved.membus
<1>1. membus \in Bank /\ saved.membus \in Bank /\ MapFollows(saved.membus)
  BY DEF LatchPart, LatchTypeOK, SavedPart
<1>2. QED
  BY <1>1 DEF MembusLoad, update_memory_map, MapFollows, Bank

LEMMA LoadStep ==
  ASSUME LatchPart, SavedPart, NEW stop \in 1 .. Len(DeviceOrder) + 1, Load(stop)
  PROVE  LatchPart'
<1> DEFINE m == IF Loads("memory", stop) THEN MembusLoad(saved.membus) ELSE membus
<1> DEFINE c == IF Loads("fdc", stop) THEN saved.fdc ELSE fdc
<1>1. m \in Bank /\ MapFollows(m)
  BY LoadedBank DEF LatchPart, LatchTypeOK, SavedPart
<1>2. c \in Controller
  BY DEF LatchPart, LatchTypeOK, SavedPart
<1>3. CASE Loads("floppy", stop)
  <2> DEFINE f == [floppy EXCEPT !.port_a = saved.floppy.port_a,
                                 !.port_b = saved.floppy.port_b,
                                 !.control_a = saved.floppy.control_a,
                                 !.control_b = saved.floppy.control_b,
                                 !.disk2_sense = saved.floppy.disk2_sense,
                                 !.romen = saved.floppy.romen]
  <2>1. f \in Latches /\ RomenFollows(f)
    BY FileTyped
  <2>2. /\ floppy' = update_control_latches(f)
        /\ fdc' = Signals(floppy', c)
        /\ membus' = Romen(m, floppy'.romen)
    BY <1>3 DEF Load, FloppyLoad
  <2> HIDE DEF f, m, c
  <2>3. QED
    BY <1>1, <1>2, <2>1, <2>2, PassedOn DEF LatchPart, LatchTypeOK
<1>4. CASE ~Loads("floppy", stop)
  <2>1. floppy' = floppy /\ fdc' = c /\ membus' = m
        /\ torn' = (torn \/ Loads("memory", stop))
    BY <1>4 DEF Load
  <2>2. ASSUME ~torn' PROVE ~torn /\ fdc' = fdc /\ membus' = membus
    BY <2>1, <2>2, MemoryFirst
  <2>3. QED
    BY <1>1, <1>2, <2>1, <2>2 DEF LatchPart, LatchTypeOK
<1>5. QED
  BY <1>3, <1>4

-----------------------------------------------------------------------------
(* Every step. *)

LEMMA StartHolds == Init => IInv
<1> SUFFICES ASSUME Init PROVE IInv
  OBVIOUS
<1> DEFINE none == [mfm |-> [d \in Drive |-> FALSE]]
<1>1. floppy = FloppyReset /\ fdc = Signals(floppy, none)
      /\ membus = [rom_enabled |-> TRUE, low |-> "rom"]
  BY DEF Init, LatchInit
<1>2. /\ floppy \in Latches /\ RomenFollows(floppy)
      /\ floppy = update_control_latches(floppy) /\ floppy.romen = TRUE
  BY <1>1, ResetTyped, LatchesSettle DEF FloppyReset, RomenFollows
<1>3. fdc \in Controller /\ fdc = Signals(floppy, fdc)
  <2>1. fdc = Signals(floppy, [drive |-> 0, side |-> 0, motor |-> FALSE,
                               mfm |-> [d \in Drive |-> FALSE]])
    BY <1>1 DEF Signals
  <2>2. [drive |-> 0, side |-> 0, motor |-> FALSE,
         mfm |-> [d \in Drive |-> FALSE]] \in Controller
    BY DEF Controller
  <2>3. QED
    BY <1>2, <2>1, <2>2, SignalsTyped, SignalsSettle
<1>4. membus \in Bank /\ MapFollows(membus) /\ membus.rom_enabled = TRUE
  BY <1>1 DEF Bank, MapFollows
<1>5. LatchPart
  BY <1>2, <1>3, <1>4 DEF LatchPart, LatchTypeOK, Agreed, Settled
<1>6. BridgeTypeOK /\ bridge \in Byte \X BOOLEAN \X BOOLEAN
  BY NulIsByte DEF Init, BridgeInit, BridgeTypeOK, bridge
<1>7. SavedPart
  <2>1. saved = [floppy |-> floppy, fdc |-> fdc, membus |-> membus, bridge |-> bridge]
    BY DEF Init, machine
  <2>2. QED
    BY <1>2, <1>3, <1>4, <1>6, <2>1 DEF SavedPart, Agreed, Settled
<1>8. QED
  BY <1>5, <1>6, <1>7 DEF IInv, Init

(* The decoder gives the bridge only the bytes written to its ports. *)
LEMMA BridgeIsSelected ==
  ASSUME NEW addr, MainSelect(addr).dev = "minsub"
  PROVE  main_minsub_selected(addr)
<1> DEFINE device == MainIoGroup(io_group(addr))
<1>1. device # "minsub"
  BY DEF MainIoGroup
<1> HIDE DEF device
<1>2. SUFFICES ASSUME ~main_minsub_selected(addr) PROVE MainSelect(addr).dev # "minsub"
  OBVIOUS
<1>3. MainSelect(addr) \in {Nothing, At(device, swapped_reg(addr)),
                             At(device, io_reg(addr)), At(device, 0)}
  BY <1>2 DEF MainSelect, device
<1>4. QED
  BY <1>1, <1>3 DEF At, Nothing

LEMMA MainOutStep ==
  ASSUME IInv, NEW out \in MainOuts, MainOut(out[1], out[2])
  PROVE  IInv'
<1> DEFINE to == MainSelect(out[1])
<1>1. BridgeTypeOK'
  <2>1. CASE to.dev = "minsub"
    BY <2>1, BridgeIsSelected, BridgeGetsBytes
    DEF MainOut, MainIoWrite, IInv, BridgeTypeOK
  <2>2. CASE to.dev # "minsub"
    BY <2>2 DEF MainOut, IInv, BridgeTypeOK, bridge
  <2>3. QED
    BY <2>1, <2>2
<1>2. torn' \in BOOLEAN /\ saved' = saved /\ tornFile' = tornFile
  BY DEF MainOut, IInv
<1>3. LatchPart'
  <2>1. CASE to.dev # "pio"
    <3>1. UNCHANGED latches /\ torn' = torn
      BY <2>1 DEF MainOut, At, IInv
    <3>2. QED
      BY <3>1 DEF latches, LatchPart, LatchTypeOK, IInv
  <2>2. CASE to.dev = "pio"
    <3>1. PioWrite(to.reg, out[2])
      BY <2>2 DEF MainOut
    <3>2. CASE to.reg = 2 /\ WritePortB(out[2])
      BY <3>2, PortBStep DEF IInv
    <3>3. CASE to.reg = 0 /\ WritePortA(out[2])
      BY <3>3, PortAStep DEF MainOut, At, IInv
    <3>4. CASE to.reg \in {1, 3} /\ UNCHANGED <<floppy, fdc, membus>>
      <4>1. torn' = torn
        BY <3>4 DEF MainOut, At, IInv
      <4>2. QED
        BY <3>4, <4>1 DEF LatchPart, LatchTypeOK, IInv
    <3>5. QED
      BY <3>1, <3>2, <3>3, <3>4 DEF PioWrite
  <2>3. QED
    BY <2>1, <2>2
<1>4. QED
  BY <1>1, <1>2, <1>3 DEF IInv, SavedPart

LEMMA Step == IInv /\ [Next]_vars => IInv'
<1> SUFFICES ASSUME IInv, [Next]_vars PROVE IInv'
  OBVIOUS
<1>1. ASSUME NEW out \in MainOuts, MainOut(out[1], out[2]) PROVE IInv'
  BY <1>1, MainOutStep
<1>2. ASSUME NEW addr \in SubPorts, SubIn(addr) PROVE IInv'
  BY <1>2 DEF SubIn, SubIoRead, latches, bridge, IInv, LatchPart, LatchTypeOK,
              SavedPart, BridgeTypeOK
<1>3. ASSUME NEW addr \in SubPorts, NEW data \in SubBytes, SubOut(addr, data) PROVE IInv'
  <2>1. BridgeTypeOK'
    <3> DEFINE busy == 0 \in data
    <3>1. busy \in BOOLEAN
      OBVIOUS
    <3>2. SubIoWrite(busy) \/ UNCHANGED bridge
      BY <1>3 DEF SubOut
    <3> HIDE DEF busy
    <3>3. QED
      BY <3>1, <3>2 DEF SubIoWrite, bridge, IInv, BridgeTypeOK
  <2>2. UNCHANGED <<floppy, fdc, membus, saved, torn, tornFile>>
    BY <1>3 DEF SubOut, latches
  <2>3. QED
    BY <2>1, <2>2 DEF IInv, LatchPart, LatchTypeOK, SavedPart
<1>4. CASE Reset
  <2>1. LatchPart'
    BY <1>4, ResetStep DEF Reset, IInv
  <2>2. QED
    BY <1>4, <2>1, NulIsByte DEF Reset, BridgeReset, IInv, SavedPart, BridgeTypeOK
<1>5. CASE Save
  <2>1. saved' = [floppy |-> floppy, fdc |-> fdc, membus |-> membus, bridge |-> bridge]
    BY <1>5 DEF Save, machine
  <2>2. bridge \in Byte \X BOOLEAN \X BOOLEAN
    BY DEF IInv, BridgeTypeOK, bridge
  <2>3. SavedPart'
    <3>1. tornFile' = torn
      BY <1>5 DEF Save
    <3>2. QED
      BY <2>1, <2>2, <3>1 DEF IInv, LatchPart, LatchTypeOK, SavedPart
  <2>4. QED
    BY <1>5, <2>3 DEF Save, latches, bridge, IInv, LatchPart, LatchTypeOK, BridgeTypeOK
<1>6. ASSUME NEW stop \in 1 .. Len(DeviceOrder) + 1, Load(stop) PROVE IInv'
  <2>1. LatchPart'
    BY <1>6, LoadStep DEF IInv
  <2>2. BridgeTypeOK'
    BY <1>6 DEF Load, set_state, bridge, IInv, SavedPart, BridgeTypeOK
  <2>3. torn' \in BOOLEAN /\ saved' = saved /\ tornFile' = tornFile
    BY <1>6 DEF Load, Loads, IInv
  <2>4. QED
    BY <2>1, <2>2, <2>3 DEF IInv, SavedPart
<1>7. CASE UNCHANGED vars
  BY <1>7 DEF vars, IInv, LatchPart, LatchTypeOK, SavedPart, BridgeTypeOK
<1>8. QED
  BY <1>1, <1>2, <1>3, <1>4, <1>5, <1>6, <1>7 DEF Next

LEMMA Invariant == Spec => []IInv
BY StartHolds, Step, PTL DEF Spec

-----------------------------------------------------------------------------

(* The latches, the controller, the bank, the bridge and the file keep     *)
(* their types, whatever the two CPUs write and wherever a load stops.     *)
THEOREM TypeCorrect == Spec => []TypeOK
<1>1. IInv => TypeOK
  BY DEF IInv, LatchPart, SavedPart, TypeOK
<1>2. QED
  BY <1>1, Invariant, PTL

(* Unless a load has stopped between the memory and the latches, the       *)
(* controller and the memory map agree with what was last written to the   *)
(* PIO.                                                                    *)
THEOREM CopiesTogether == Spec => []CopiesAgree
<1>1. IInv => CopiesAgree
  BY DEF IInv, LatchPart, Agreed, Settled, MapFollows, RomenFollows, CopiesAgree,
         BankAgrees, LatchesAgree
<1>2. QED
  BY <1>1, Invariant, PTL

(* Whatever the file is of, the latches are taken from it and passed on.   *)
LEMMA LoadMends ==
  ASSUME IInv, Load(Len(DeviceOrder) + 1)
  PROVE  /\ floppy' = saved.floppy /\ bridge' = saved.bridge
         /\ fdc' = Signals(floppy', saved.fdc)
         /\ membus' = Romen(saved.membus, floppy'.romen)
         /\ RomenFollows(floppy') /\ Settled(floppy') /\ MapFollows(membus')
         /\ Agreed(floppy', fdc', membus')
<1>1. /\ floppy' = saved.floppy
      /\ fdc' = Signals(floppy', saved.fdc)
      /\ membus' = Romen(saved.membus, floppy'.romen)
      /\ set_state(saved.bridge)
  BY AllLoad, LoadedLatches, LoadedBank DEF IInv, Load
<1>2. floppy' = update_control_latches(saved.floppy)
  BY <1>1 DEF IInv, SavedPart, Settled
<1>3. /\ RomenFollows(floppy') /\ Settled(floppy') /\ MapFollows(membus')
      /\ Agreed(floppy', fdc', membus')
  <2>1. /\ saved.floppy \in Latches /\ saved.fdc \in Controller
        /\ saved.membus \in Bank
        /\ RomenFollows(saved.floppy) /\ MapFollows(saved.membus)
    BY DEF IInv, SavedPart
  <2>2. QED
    BY <1>1, <1>2, <2>1, PassedOn
<1>4. bridge' = saved.bridge
  BY <1>1 DEF IInv, SavedPart, set_state, bridge
<1>5. QED
  BY <1>1, <1>3, <1>4

LEMMA WholeFile ==
  ASSUME IInv, Load(Len(DeviceOrder) + 1), ~tornFile
  PROVE  machine' = saved
<1>1. fdc' = saved.fdc /\ membus' = saved.membus
  BY LoadMends DEF IInv, SavedPart, Agreed, Romen
<1>2. saved = [floppy |-> saved.floppy, fdc |-> saved.fdc,
               membus |-> saved.membus, bridge |-> saved.bridge]
  BY DEF IInv, SavedPart
<1>3. machine' = [floppy |-> floppy', fdc |-> fdc', membus |-> membus', bridge |-> bridge']
  BY DEF machine
<1>4. QED
  BY <1>1, <1>2, <1>3, LoadMends

LEMMA LoadCompletes ==
  ASSUME IInv, Load(Len(DeviceOrder) + 1)
  PROVE  CompleteLoad
<1>1. \A d \in Drive : d # fdc'.drive => fdc'.mfm[d] = saved.fdc.mfm[d]
  BY LoadMends DEF Signals
<1>2. BankAgrees' /\ LatchesAgree'
  BY LoadMends DEF RomenFollows, Settled, MapFollows, Agreed, BankAgrees, LatchesAgree
<1>3. QED
  BY <1>1, <1>2, LoadMends, WholeFile DEF CompleteLoad

(* A load that no device refuses puts the machine back as it was saved,    *)
(* with the copies the file leaves out, unless the file is of a torn       *)
(* machine: of that the latches, the bridge and the densities come back,   *)
(* and the copies agree.  A load that the first device refuses leaves the  *)
(* machine alone.                                                          *)
THEOREM LoadsRestore == Spec => LoadRestores
<1>1. ASSUME IInv, Load(1) PROVE machine' = machine
  <2>1. \A device : ~Loads(device, 1)
    BY DEF Loads
  <2>2. floppy' = floppy /\ fdc' = fdc /\ membus' = membus
    BY <1>1, <2>1 DEF Load
  <2>3. ~(1 > Len(DeviceOrder))
    BY DEF DeviceOrder
  <2>4. bridge' = bridge
    BY <1>1, <2>3 DEF Load
  <2>5. QED
    BY <2>2, <2>4 DEF machine
<1>2. IInv /\ [Next]_vars => [ /\ Load(Len(DeviceOrder) + 1) => CompleteLoad
                               /\ Load(1) => machine' = machine ]_vars
  BY <1>1, LoadCompletes
<1>3. QED
  BY <1>2, Invariant, PTL DEF Spec, LoadRestores

=============================================================================
