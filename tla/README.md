# Verification of eLynxZ80

eLynxZ80 emulates a home-built CP/M machine with two Z80s. The repository holds
the emulator's machine (`src/src/vm/Lynxz80/`), the programs that live in its
ROMs (`src/tool/lynxZ80/build/bios`, `subcpu`, `diag`) and CP/M utilities and
host tools around it (`src/tool/lynxZ80/`). This directory holds TLA+ models of
them, TLC configurations, and theorems proved with TLAPS.

Contents: the system, the modules and how they correspond to the code, the
runs, fairness, the proofs, what the models brought to light, what is not
modelled, the plan.

## 1. The system

    main Z80 (BIOS, CP/M) --SIO-B regs--> keyboard ring <-- host keys
        |    \--FDC, PIO--> floppy controller, drives, disk images
        |     \--SIO-A----> serial backend --> TCP client / COM port
      MINSUB bridge (one byte, DR_FULL, SUB_BUSY)
        |
    sub Z80 (terminal ROM) --> two GDCs --> text and graphics VRAM --> display

| Component | State | Operations | Talks to | What makes it correct |
|---|---|---|---|---|
| MINSUB bridge, `MainSubBridge` in LynxZ80.cpp 264-342 | one byte, `dr_full`, `sub_busy` | register reads and writes of both CPUs, reset | both CPUs, by polling | it does not protect itself: the two polling programs must not overwrite, double or reorder a byte |
| BIOS console output, bios.asm 413-426, 541-550, and the idle loop of the terminal ROM, subcpurom.asm 74-107 | program counters, string pointer | CONOUT, print-string, the idle loop | the bridge | bytes arrive in order and once; CONOUT returns |
| Diagnostic ROMs, build/diag | program counters | S and G commands, escape handling with SUB_BUSY up | the bridge | text and sequences do not mix; no deadlock |
| BIOS disk calls, bios.asm 316-386, 437-496, 584-775 | selected record, DMA address, SECBUF with tags | SELDSK, SETTRK, SETSEC, SETDMA, HOME, READ, WRITE, warm boot | floppy controller, user, reset | a disk of 128-byte records; the cache is invisible |
| IPL and cold boot, bios.asm 95-142, 185-314 | ROM overlay, load address | copy through the shadow, load of CP/M with retry, page zero | controller, memory bank | CP/M runs only after a complete load |
| Keyboard, keyboard.cpp, and BIOS_CONST/CONIN | ring of codes, kana, caps | key_down, has_data, read_data, CONIN | host keys, MAINIO | nothing typed is doubled or reordered; what was announced is there |
| Terminal ROM, screen: subcpurom.asm 450-1167 | VRAM window, cursor twice, saved cursor | every control function | GDC, parser | a plain 80x25 terminal over a circular VRAM |
| Terminal ROM, parser: subcpurom.asm 201-603 | state, parameters, attribute, hex digit | handle_char | MINSUB, screen, graphics GDC | a sequence means what it means, whatever came before |
| GVRAMTST.COM | registers across calls, table pointer | the program | parser through CONOUT | the controller gets the bytes of its tables |
| Serial backend, serial.cpp | send ring, mode, sockets | write, poll, receive, flush, configure, reset | SIO-A, host sockets | bytes reach the client in order and once; leftovers go out |
| Display, display.cpp | registers copied from the GDCs | draw | VRAM | the cursor and window shown are those of the ROM |
| I/O decoding, `MAINIO` and `SUBIO` in LynxZ80.cpp 108-164, 382-553 | none | IN and OUT of both CPUs | every device | each port reaches the register the programs mean |
| Floppy latches, memory bank: floppy.cpp, Membus.cpp | port bits, and copies of them in the outputs, the controller and the memory map | PIO writes, reset | controller | the copies agree |
| Saved states, `VM::process_state` and the devices' own | all of the above | save, load, refuse in the middle | every device | a complete load restores the machine; a refused one leaves no copies that disagree for good |
| FORMAT.COM, DISKCOPY.COM | track, side, status | track loops | controller, BIOS | "complete" is said of complete disks only |
| Host tools: disk editor, image builder, ROM builder, font builder | files | scripts | - | directories and allocations agree |

What is hard here: two CPUs that interleave between any two I/O instructions and
share three registers; a reset at any point of both; a write-through cache with
commands that fail half-way and disks that are exchanged under it; rings at
their limit; a window that moves round a VRAM 48 cells larger than itself and
redundant copies of the cursor; a parser whose variables outlive programs; a
host socket that takes part of what it is given, or nothing, or disappears.
`PROJECT.json` lists these as hazards, each at its line with the properties
that cover it.

## 2. Modules

| Module | Is | Extends / uses |
|---|---|---|
| `Minsub` | the bridge: `MainIoRead`, `MainIoWrite`, `SubIoReadValue`, `SubIoRead`, `SubIoWrite`, `BridgeReset` are the methods of `MainSubBridge` | |
| `ByteChannel` | abstract: an ordered channel of bounded capacity that a reset empties | |
| `Console` | main CPU and sub CPU over the bridge | Minsub; implements ByteChannel |
| `DiagLink` | the diagnostic ROMs over the bridge | Minsub; implements ByteChannel |
| `RecordDisk` | abstract: drives of 128-byte records | |
| `BiosDisk` | the disk calls, warm boot and reset | implements RecordDisk |
| `DropOldest` | abstract: a queue that drops its oldest item when full | |
| `Keyboard`, `ConsoleInput` | the device; the device with CONST and CONIN | implements DropOldest |
| `Serial` | the backend of SIO-A, with its saved state | implements DropOldest |
| `IoBus` | the address decoders of both CPUs | |
| `Floppy` | the control latches, what they tell the controller, the memory bank | |
| `Ipl` | the cold boot from reset to CP/M | IoBus, Floppy |
| `SavedState` | saving and loading around the latches, the bank and the bridge | IoBus, Floppy, Minsub |
| `TextScreen` | abstract: a plain screen that scrolls its text | |
| `Display` | what is drawn from the text VRAM, the areas and the cursor | |
| `SubTerminal` | the screen functions on the circular VRAM, as the display shows it | Display; implements TextScreen |
| `EscapeParser` | the parser as functions from state and byte to state | |
| `EscapeSequences` | programs that send, break off and disturb sequences | EscapeParser |
| `GvramTest` | GVRAMTST.COM against the parser | EscapeParser |
| `ConsoleProofs` | theorems of the console link, of the escape parser and of GVRAMTST.COM | Console, EscapeSequences, GvramTest |
| `BiosDiskProofs`, `ConsoleInputProofs`, `DiagLinkProofs`, `IplProofs`, `SavedStateProofs`, `SerialProofs`, `SubTerminalProofs` | theorems | the module of that name |
| `MC...` | the values of constants for TLC | |

How state and actions correspond to the code (`PROJECT.json`, "map", has the
lines of every definition):

*Console.* An action is one I/O instruction of one CPU together with the
instructions up to the next, since only the bridge is shared. `main` says which
instruction of BIOS_CONOUT_B is next, `sub` which one of reset or idle_loop. A
poll that finds a bit up changes nothing and is not an action; the step that
leaves the loop is. The idle loop's read and its `OUT (MINSUB),1` are two
actions, because the main CPU can act between them. NUL is a byte of its own:
reading clears DR_FULL even when the value is the "nothing there" value. `sent`
and `shown` are histories. `Reset` is `VM::reset`, between any two instructions.

*DiagLink.* The same cut. A command is the list of its output calls, each with
the status bits it waits for (`sub_putc` both, `sub_putc_data` DR_FULL alone).
`handle_esc` reads twice with SUB_BUSY up. The screen is the list of effects.

*BiosDisk.* The BIOS is alone on its CPU, so a call is cut only where it waits
for the controller: `BIOS_READ`, `BIOS_WRITE` run to a cache hit or to the first
command, `FetchOk`, `FetchFail`, `FlushOk`, `FlushFail` are the answers, and the
rest of the call is part of them. SECBUF is two halves; a tag is drive, track,
side and sector. A failed read either leaves SECBUF alone (seek, not ready,
record not found) or has overwritten it with anything (CRC, lost data); a failed
or interrupted write leaves anything in its own sector. A is kept only until
another call destroys it. The warm boot's reload loop uses the same
FDC_READ_SECTOR, record by record, with its retry. `Exchange` is the user; the
histories `exchanged` and `spoiled` say which drives hold a disk the BIOS has
not been told of, and whether a failed read has hit SECBUF under valid tags.

*ConsoleInput.* `key_down` with its tables as parameters (a code may push one
byte, two or none, switch a mode, or be ignored on repeat), `push_fifo` and
`read_key` on the ring as the code keeps it: two indices and a count. CONIN is
cut at its two INs.

*SubTerminal.* A control function is an operator from screen to screen that
computes addresses as the ROM does (compare and subtract, borrow and add), and an
action that applies it. Loops that stop at an edge are given by the number of
turns. `strayed` is a history that becomes true when a program sends one of the
two things after which the ROM's two cursors disagree (section 6).
`set_chr_scroll` is what the character GDC has been told of the window. `ead` is
the address it is at, where it also draws its cursor: `update_cursor_gdc` sets
it at the end of every byte, those that leave the screen alone included
(`NoControl`), but a reset ends with `prime_chr_gdc`, which sends a CSRW and a
WRITE after the last update. How far that moves the address is the library's, so
it is any of a given set (`PrimedAt`) until the first byte. From these and the
VRAM `Display` computes which cell is drawn where and as the cursor, with the
pointer of draw_chr_screen that runs on past the end of the VRAM while its reads
are reduced.

*IoBus, Floppy.* A byte on the bus is the set of its bits, so masks are
intersections. IoBus maps an address to a device and a register, with the
exchange of address lines 0 and 1 for SIO and PIO. Floppy keeps every copy the
code keeps: port bits, masked control bits, single outputs, `romen`,
`MEMBUS::rom_enabled`, the map the CPU reads through, and what the controller
was told. Its operators take and return objects, in the order the devices call
each other.

*Ipl.* The CPU is cut at every OUT that reaches a latch and wherever it waits
(controller, key). RAM is known by what it holds: the IPL, CP/M, or something
else. A record of the image is the sector it came from and its half. The cache
of FDC_READ_SECTOR is kept with its tag, valid bit and SECBUF. The controller
reads the drive, side and density the latches have told it, if the motor of
that drive runs; a bad disk may fail at any read, after spoiling SECBUF. CP/M,
once up, writes what it likes over the IPL's memory and selects drives with the
bytes of the resident BIOS. `Reset` keeps the RAM.

*SavedState.* `Load(stop)` goes down the list of devices in the order of their
construction and stops at the one that refuses; what is loaded by then stays.
`torn` is a history: a load has stopped after the memory and before the latches,
and no write to port B, reset or load has mended it since. Any machine can be
saved, a torn one as well; `tornFile` says so of the file. Only the devices that
hold copies of each other's state are in the model; the others are places in
the list.

*EscapeParser.* One function `handle_char` on a record of the ROM's variables;
what it would do to the screen, the attribute or the graphics controller is
appended to `did`. Parameters are eight bits and wrap.

*GvramTest.* The program as the bytes it sends, with the registers C, D, E that
its send routines destroy, and the tables as constants.

*Serial.* One thread; a call is cut at the socket functions, whose results are
the environment's: accept, a send of part, all or none of the contiguous piece,
a send or recv that loses the client. A client is "dead" once the host has found
its connection broken (`Dies`): it takes nothing more, and the next send closes
it. The ring is the code's (two indices, one slot free). The front end can take
bytes from it too: `inc_socket_send_buffer_ptr` is one action with the
get_socket_send_buffer before it, since nothing else runs on the thread in
between, and takes at most what that offered. `configure_from_config` closes the
backend and opens the next one, which the host may refuse; what is open
(`listening`, `com_handle`, the client) is kept apart from `mode`, since
close_backend goes by the mode. A COM port that does not take a byte in time
loses it. `Save` and `Load` are process_state: a load, here one that no device
refuses, sets the ring and the SIO back and leaves the connection and the port
type as they are; the history of what listeners have got starts anew with it.

## 3. Runs

| Run | Asks | Bounds, and why they suffice |
|---|---|---|
| Console | types; no byte lost, doubled, reordered; a two-place channel; CONOUT returns | two payload bytes and NUL, strings of one to three bytes, four bytes between resets: the link holds at most two, so four fill it twice |
| DiagLink | types; every byte of a sequence is backed by a reader; ordered channel; commands return | the sequence's bytes and a text of the letters G and T, which the program's own text holds; five effects |
| BiosDisk | types; valid tags mean the tagged sector; a WRITE changes its record only; the calls are those of a disk of records and READ tells the truth, until a failed read has spoiled SECBUF - with transfer errors, and a user who exchanges disks and warm-boots afterwards | two drives, one track, one sector per side (four records, so side and half are told apart), two data values with symmetry, blank disks; the careless user is left to the proofs, which need no bound |
| BiosDiskFault (violation) | READ tells the truth, with transfer errors | as above; the counterexample is a finding |
| ConsoleInput | types; ring consistent; announced bytes stay; drop-oldest queue; CONIN returns | a ring of four slots (the device has 16; wrap and overflow are reached at once), a key of each kind: `@` with control, shift and kana, LINE FEED, the three mode keys, and one that gives nothing |
| SubTerminal | every access in the VRAM; the cursors agree; a plain scrolling screen; the display draws it, with the cursor in its place or, past the wrap, in none | three rows of two in seven cells: the window starts at every address, and one cell is outside it; parameters below, at and above the size; a reset leaves the GDC at the cursor or one past it |
| EscapeSequences | every well-formed sequence has its own meaning; carriage return ends any sequence | parameters of one and three digits and none, pairs of SGR parameters, noise bytes that open, break off and overrun every kind of sequence |
| GvramTest | the controller gets every byte sent; the arcs are those of the table | the program's vector and fill table, the first two arcs; the parser left in every state and operation, with two values of its hex and parameter variables (the theorems take every value) |
| GvramTestFill (violation) | the fill follows its table | as above; a finding |
| Serial | indices in range; what is open and remembered is the backend's there is; order; drop-oldest queue; leftovers go out, or the broken connection is dropped; all of it with loads | a ring of three slots (two usable), five bytes: it wraps and overflows; one file, saved at any time and loaded at any later one |
| Ipl | types; the code the CPU executes is in the memory it sees; page zero is CP/M's; the image is whole; the boot completes | one sector per side, so four records fill both sides and halves (the real 64 do the same on 16 sectors); two good disks, a bad one, none |
| SavedState | types; the copies agree; a complete load restores the machine, or of a torn one the latches and bridge with copies that agree; a load refused at once changes nothing | two drives; bytes for port B that select each of them, both motors and both states of ROMEN, and for port A side and density; every place a load can stop; ports of the bridge, the PIO's control, and outside the decoder |

`CHECK_DEADLOCK FALSE` is set for GvramTest only: the program ends.

Every property of a passing run has a mutant in `PROJECT.json`: an operator in
the module with a plausible slip (a dropped guard, an off-by-one, a missing
reset), under which the same run finds the property violated.

BiosDiskFault asks for READ's truth without the exception and finds it false of
the code when a read can fail after it has transferred data. The properties of
BiosDisk name their exceptions by two histories, `spoiled` and `exchanged`, not
by the configuration. `CarefulUser = TRUE` in the run keeps it inside its time
(a user who goes on without a warm boot makes four times the states); the
theorems Coherent, WritesLocal and ReadsTrue hold for either user.

A file of a torn machine (SavedState) is not what a complete load of it gives
back. The memory takes its bank from the file, and then the latches signal romen
again (floppy.cpp:117-120) and switch it as port B says; the controller's drive,
side and density follow the latches likewise. LoadRestores states both cases.

## 4. Fairness

Liveness is claimed where something obliges the program to move.

- Console, DiagLink: weak fairness of each CPU. The scheduler (`VM::run`) gives
  both CPUs time slices for ever, so an instruction that can execute does. No
  program is obliged to print and nobody to press reset.
- ConsoleInput: weak fairness of CONIN's instructions, for the same reason. No
  key is ever obliged to come; ConinReturns is conditional on a byte.
- Serial: weak fairness of the poll timer with a client, the receive and the end
  of a flush: the timer runs as long as the machine does. Strong fairness of a
  send that succeeds, which says that a client that stays connected keeps
  reading, so that the host has room again and again. No client is obliged to
  come and no connection to break.
  A user who loads a state again and again is named as the exception.
- Ipl: weak fairness of the CPU and its controller, and of a key press while the
  boot waits for one: the message asks the user for it. No disk is obliged to be
  inserted; BootCompletes is conditional on a good one left in the drive, and
  excepts a reset pressed for ever.
- BiosDisk, SubTerminal, SavedState, EscapeSequences and GvramTest make no
  liveness claim.

## 5. Proofs

Checked by TLAPS, for all values of the constants that satisfy the named ASSUMEs
of the module. Every invariant that a run checks is also a theorem, and every
refinement has its safety part proved.

**ConsoleProofs, the link.** `TypeCorrect`; `BytesInOrder`: what was sent is what
was shown, then what the sub CPU holds, then what waits in the register;
`RefinesChannel`: every step is a step or a stutter of the two-place channel
(safety part). InOrder is not inductive: from a state with DR_FULL up and the
main CPU past its poll the next write loses a byte. The strengthening is
`WriteSafe == main = "out" => ~dr_full`: the register is empty when the BIOS
writes, because its poll saw it empty and nobody else fills it.

**ConsoleProofs, the parser.** `ParserTypeCorrect`, `SequencesKeepMeaning`,
`CarriageReturnRests`: whatever bytes came before, a well-formed sequence that
meets the parser at rest does its own work and no other, for every parameter of a
byte, every list of SGR parameters and every byte for the graphics controller.
SequencesMean looks at the last byte of a sequence only. The invariant
`ParserInv` speaks of all bytes still to come: fed one after the other
(`Leads`), they take the parser from where it is to the effects and the
attribute that are wanted (`Means`). A byte fed takes the first of them off; a
sequence that begins needs one lemma for its kind: the digits of a parameter
collect to its value (`DecimalCollects`, `CsiCollects`), SGR parameters compose
(`PenApplies`), hex digits give the controller their byte (`GdcIsSound`).

**ConsoleProofs, GVRAMTST.** `BytesPassThrough` and `ArcsStayDrawn`, for every
vector, every fill and arc table and every state an earlier program left the
parser in. Neither property is inductive. For the first, `TestInv` adds what the
program needs to go on sending bytes: `Machine`, where a loop of
send_params_hl_c runs, C is the number of bytes at HL and not zero. Each byte sent
is then one more `GdcLeads`, the lemma the parser's theorem rests on too; the
heading's carriage return is what brings the parser to rest. For the second, two
more parts. `Counted`: how many bytes have been asked for at each place of the
fill (19 for each entry); which bytes is left open, since the fill does not follow
its table (section 6), and the arcs need only know where it ends. `OnTheWay`: what
was asked for since the fill, followed by what is still due in this turn (`Due`,
with the bytes at HL), is what the turn has to end with (`DrawnAfter`). The
recursive functions are opened by `SetInduction`: `ParsedIs` for the parser over a
sequence, `FlattenGrows` for the table's entries end to end.

**BiosDiskProofs.** `MapIsInjective`: two logical sectors of a track that share
a physical sector are its two halves. `TypeCorrect`. `Coherent`: valid tags mean
the tagged sector. `WritesLocal`: an action property, from the invariant and the
injectivity. `ReadsTrue`: a READ tells the truth until a failed read has spoiled
SECBUF or a disk was exchanged without a warm boot. `RefinesRecords`: under the
same two exceptions the calls are those of RecordDisk, step by step. The
inductive invariant adds `FlushReady`, the state of SECBUF in the middle of a
WRITE: between the merge and the write command it is the sector on the disk with
the caller's half replaced; CacheCoherent says nothing of that moment.

**ConsoleInputProofs.** `TypeCorrect`, `RingStaysConsistent`,
`AnnouncedByteStays`, `RefinesQueue`, for every ring size and every table. The
work is modular arithmetic on the indices, in lemmas about push and read that are
cited per action, and the equation between the slots from the read index on and
the abstract queue.

**DiagLinkProofs.** `TypeCorrect`, `SequenceStaysBacked`, `RefinesChannel`
(safety part). Neither order nor backing stands alone: a byte in the register
means itself or the middle of a sequence, depending on where the sub ROM is.
`InStep` says that the sub ROM's place, the register and the calls the main ROM
has still to make fit together in one of three ways (nobody in a sequence; ESC
taken, G to come; ESC G taken, T to come), and it is the invariant. From it
follow what the register will make the sub ROM draw (`Waiting`), and `InOrder`.

**IplProofs.** `TypeCorrect`, `CodeStaysThere`, `PageZeroStaysCpm`,
`ImageStaysWhole`, for any disks, any reads that fail, and a user who exchanges
disks and presses reset whenever he likes. The properties say nothing of the
moments they rest on. `MapFollows`: the bank is in step with `rom_enabled`, or a
write to port B that changes nothing would leave it wrong. `CodePart`: which of
shadow, low memory and vectors is in place at each step of the boot. `LoadPart`:
every record so far and the sector in the cache come from a disk, the one in
the drive unless it was exchanged, and the controller has been told the side
before it reads.

**SavedStateProofs.** `TypeCorrect`; `CopiesTogether`: controller and memory map
agree with what the PIO was last given, unless the machine is torn;
`LoadsRestore`, an action property, with what a complete load makes of a file of
a torn machine. For any set of drives, any bytes and ports on both CPUs, and
loads that stop anywhere. CopiesAgree is not inductive: it says nothing of a
torn machine, and the next write to port B must mend it, which it does only
because the map follows `rom_enabled` and `romen` follows port B even then
(`MapFollows`, `RomenFollows`); and it says nothing of the file, which a load
takes from: the latches in it are settled, and the rest of it goes with them
unless the file is of a torn machine (`SavedPart`, `tornFile`). The work is in
two lemmas: a second update_control_latches changes nothing (`LatchesSettle`,
`SignalsSettle`), so the signals the devices exchange while they load end where
the machine was saved.

**SerialProofs.** `TypeCorrect`, `BackendIsConfigured`, `BytesInOrder`,
`RefinesQueue`, for every ring size and every set of port types.
BackendIsConfigured holds because sockets are open in socket mode only, which is
what lets close_backend go by the mode. InOrder says nothing of the ring while a COM
port is open, nor of the ring in the file; a later socket gets the one and a load
brings the other. `AllOrdered` orders what was given out, the ring and the ring
in the file, each below what had been sent by then. The lemmas say what a
write (`EnqueuePuts`) and taking from the contiguous piece (`SendTakes`) do to the
bytes that wait, wherever they lie round the ring.

**SubTerminalProofs.** `TypeCorrect`: no access leaves the VRAM, whatever has
strayed. `CursorStaysTrue`; `RefinesScreen`: each control function does to the
plain screen what it does to the VRAM; `DisplayStaysTrue`: every cell is drawn
in its place, the GDC's cursor is the ROM's but on a fresh screen before its
first byte (`GdcFollows`, an invariant of its own), and it is drawn where the
next character goes exactly when the window has not wrapped before it. For every
size of screen and VRAM, wherever a reset leaves the GDC, with `TVRAM_CELLS` at
most 65536 (`AddressesFit`: addresses are 16 bits, and the count of clear-to-end
is a difference of two), and every parameter. The invariant gives the cursor a
row: `OnGrid`, the address is that of row r and column CURSOR_COL, counted from
the window; a saved cursor keeps its row while its window stays (`SavedOnGrid`).
TAB and cursor-next-line are loops in the ROM. What holds before the first turn
and is kept by each holds after the last: `TurnsReach` and `TurnsExist` derive
this for recursive functions from the well-foundedness of the naturals
(`SetInduction`), with sets where the library's theorems want an operator.

Only model-checked: liveness (Console, DiagLink, ConsoleInput, Serial, Ipl, with
the fair parts of the ImplementsChannels), which is out of the prover's reach
here.

## 6. What the models brought to light

**A read that fails half-way poisons the sector cache** (BiosDiskFault,
bios.asm:610). FDC_READ_PHYSICAL_SECTOR reads into SECBUF and
FDC_READ_SECTOR returns on failure without dropping CACHE_VALID. Example: READ
of record 1 succeeds; READ of record 3, in another sector, fails with a CRC
error after transferring; READ of record 1 hits the cache and returns A=00h
with bytes that are not on the disk. A WRITE into that sector then puts the
damage on the disk. The BIOS reference says READ accesses the real disk image
and returns 01h when the operation failed. The write path has its
FDC_CACHE_INVALIDATE (631); the read path does not.

**GVRAMTST's fill does not follow its table** (GvramTestFill, GVRAMTST.ASM:147).
The program keeps table bytes in E and C across send routines that use E and C.

**Observed, not contradicted by any text of the repository:**

- A line feed sent from inside the last row scrolls and puts the cursor address
  at the start of the row, but leaves CURSOR_COL, so the next carriage return
  goes to another row. A cursor restored after a scroll is another row, or
  outside the window, where clear-to-end's 16-bit count wraps and blanks the
  whole VRAM. `strayed` names these two; the refinement to TextScreen is claimed
  until one of them happens and again after a cursor positioning. Type
  correctness holds throughout.
- The display compares the cursor's address with a pointer that is not reduced to
  the VRAM, so while the window wraps round the VRAM the cursor is not drawn in
  the rows past the wrap (display.cpp:241). DisplayShows says exactly when.
- From a reset to the first byte the character GDC draws its cursor where
  prime_chr_gdc has left it. How far WRITE moves it the library says.
- A load that a device refuses leaves the devices before it loaded. Stopped
  between the memory and the latches it leaves the ROM switched as the file says
  and port B as it was; the next write to port B or reset mends it. Saved in this
  state, it is not restored by a load of the file, which goes by the latches.
- A load sends bytes again that the serial client has had, and can bring the
  bytes of a socket back under a COM port, where they wait for the next socket,
  which empties the ring.
- When the areas of the graphics GDC cover less than the screen,
  draw_gfx_screen draws the first area over the whole of it once more (seen
  while reading; not modelled).
- SAVED_CURSOR is not initialised by the ROM's reset.
- A parameter wraps at 256, and the digits of a third parameter are appended to
  the second.
- ESC G T leaves the direct sub-command state at the group's until the next byte.
- The keyboard ring, when full, drops the oldest byte, so a burst of typing loses
  its beginning; what was announced to CONST stays readable all the same.
- The serial backend keeps unsent bytes when its client leaves and gives them to
  the next one; a receive error other than a reset by the peer leaves the dead
  socket in place until a send fails; with nothing to send it stays.

## 7. Not modelled

- The core of the emulator (CPUs, GDC, FDC, SIO, scheduler) belongs to a library
  that is not in the repository; it appears as interleaving and as answers.
- Of the Display: pixels, fonts, attributes and the graphics half. Font and ROM
  builders, CLS, DUMP, MOVCPM5, the runtime patch: straight-line work without
  state shared between actors.
- Of the serial backend: received bytes, which go straight to the SIO, with the
  front end's way to give them (get_socket_recv_buffer0 and 1,
  inc_socket_recv_buffer_ptr); the parsing of addresses and COM names; release,
  after which there is no machine. `socket_connected` is left out, with
  notify_socket_connected and notify_socket_disconnected (serial.cpp:354-366,
  called through LynxZ80.cpp:771-784): the backend and the front end set it and
  nothing in the repository reads it.
- Of the saved states: the keyboard (its ring and mode keys go to the file and
  back; its checks of the indices matter only for a file the program has not
  written), the display's memory, and the library's devices.
- Of the keyboard: the code tables, which are parameters.
- Of the I/O decoders: the interrupt acknowledge cycle.
- Of the boot: messages, the control bytes that set up SIO and PIO, an image of
  more than one track (the assembled image is one).
- Attributes of cells in SubTerminal (the parser's attribute is modelled), the
  drawing of ESC G T.
- In Console, the GDC work between two MINSUB accesses is one step.
- Until they are modelled: the components of the plan below.

## 8. Plan

In order of importance; the project keeps to a dozen runs, so a new question
shares the run of a neighbour or replaces a weaker one.

1. `Format` and `Diskcopy` over an abstract controller and RecordDisk: what
   "complete" means when a command fails or times out. WR_TRK_BYTE and
   WAIT_FDC_TYPE1 return their failures with Z set where the callers test NZ.
2. `TerminalRom`: EscapeParser, SubTerminal and Console composed - bytes printed
   by CONOUT to the text on the screen - with cell attributes.
3. The graphics half of Display, with the graphics GDC as GvramTest leaves it.
4. The keyboard's part of a saved state, with a load that stops between the CPU
   and the keyboard.
5. `DiskDirectory`: allocation of blocks and extents by the disk editor.
