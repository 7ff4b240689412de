------------------------------ MODULE Console ------------------------------
(***************************************************************************)
(* Console output end to end: the BIOS on the main Z80 (CONOUT and its     *)
(* print-string loop), the MINSUB bridge, and the idle loop of the         *)
(* terminal ROM on the sub Z80.  The two CPUs interleave one I/O           *)
(* instruction at a time, which is how the event scheduler runs them; a    *)
(* reset of the machine may fall between any two of those instructions.    *)
(***************************************************************************)
EXTENDS Naturals, Sequences, Minsub

CONSTANTS
  Texts,     \* the zero-terminated strings, without their terminator
  MaxSent    \* bound: payload bytes sent between two resets

Payload == Byte \ {NUL}

ASSUME TextsAreStrings == Texts \subseteq Seq(Payload)
ASSUME MaxSentIsNat == MaxSent \in Nat

VARIABLES
  main,    \* where the BIOS is: "run" (in the caller), "poll", "out"
  text,    \* the bytes still to be printed by the current call
  sub,     \* where the terminal ROM is
  acc,     \* the byte the sub CPU read, kept on its stack
  sent,    \* history: payload bytes written to the bridge since reset
  shown    \* history: bytes handle_char has finished with since reset

vars == <<main_to_sub_data, dr_full, sub_busy,
          main, text, sub, acc, sent, shown>>

mainVars == <<main, text, sent>>
subVars == <<sub, acc, shown>>

SubStates == {"reset", "init", "idle", "got", "work", "done"}

-----------------------------------------------------------------------------
(* The main CPU.                                                           *)

(* CONOUT with a character, and print-string with a message; the latter    *)
(* loops over CONOUT's inner routine until it meets the terminator.        *)
Conout(b) ==
  /\ main = "run"
  /\ b # NUL => Len(sent) < MaxSent
  /\ main' = "poll" /\ text' = <<b>>
  /\ UNCHANGED <<bridge, subVars, sent>>

PrintString(s) ==
  /\ main = "run"
  /\ s # << >>
  /\ Len(sent) + Len(s) <= MaxSent
  /\ main' = "poll" /\ text' = s
  /\ UNCHANGED <<bridge, subVars, sent>>

(* IN A,(MINSUB) / AND DR_FULL+SUB_BUSY / JR NZ: the step that leaves the  *)
(* loop; a poll that finds a bit up changes nothing.                       *)
ConoutPollBusyOnly ==
  /\ main = "poll"
  /\ "SUB_BUSY" \notin MainIoRead
  /\ main' = "out"
  /\ UNCHANGED <<bridge, subVars, text, sent>>

ConoutPoll ==
  /\ main = "poll"
  /\ MainIoRead \cap {"DR_FULL", "SUB_BUSY"} = {}
  /\ main' = "out"
  /\ UNCHANGED <<bridge, subVars, text, sent>>

(* OUT (MINSUB),A, then the next character of the string or the return.    *)
ConoutWriteOnce ==
  /\ main = "out"
  /\ MainIoWrite(Head(text))
  /\ sent' = IF Head(text) = NUL THEN sent ELSE Append(sent, Head(text))
  /\ text' = Tail(text)
  /\ main' = "run"
  /\ UNCHANGED subVars

ConoutWrite ==
  /\ main = "out"
  /\ MainIoWrite(Head(text))
  /\ sent' = IF Head(text) = NUL THEN sent ELSE Append(sent, Head(text))
  /\ text' = Tail(text)
  /\ main' = IF Tail(text) = << >> THEN "run" ELSE "poll"
  /\ UNCHANGED subVars

-----------------------------------------------------------------------------
(* The sub CPU.                                                            *)

(* OUT (MINSUB),1 at the top of the ROM. *)
SubStart ==
  /\ sub = "reset"
  /\ SubIoWrite(TRUE)
  /\ sub' = "init"
  /\ UNCHANGED <<mainVars, acc, shown>>

(* The GDCs are set up, then OUT (MINSUB),0. *)
SubReady ==
  /\ sub = "init"
  /\ SubIoWrite(FALSE)
  /\ sub' = "idle"
  /\ UNCHANGED <<mainVars, acc, shown>>

(* IN A,(MINSUB) / OR A / JR Z,idle_loop: reading clears DR_FULL whatever  *)
(* was there, so that a NUL is consumed without leaving the loop.          *)
SubPoll ==
  /\ sub = "idle"
  /\ dr_full
  /\ SubIoRead
  /\ IF SubIoReadValue = NUL
       THEN UNCHANGED <<sub, acc>>
       ELSE sub' = "got" /\ acc' = SubIoReadValue
  /\ UNCHANGED <<mainVars, shown>>

(* OUT (MINSUB),1: one instruction after the read, so that the main CPU    *)
(* may see DR_FULL and SUB_BUSY both down in between.                      *)
SubTake ==
  /\ sub = "got"
  /\ SubIoWrite(TRUE)
  /\ sub' = "work"
  /\ UNCHANGED <<mainVars, acc, shown>>

(* handle_char and update_cursor_gdc. *)
SubHandle ==
  /\ sub = "work"
  /\ shown' = Append(shown, acc)
  /\ sub' = "done"
  /\ UNCHANGED <<bridge, mainVars, acc>>

SubReleaseForgotten ==
  /\ sub = "done"
  /\ sub' = "idle"
  /\ UNCHANGED <<bridge, mainVars, acc, shown>>

(* OUT (MINSUB),0, back to the idle loop. *)
SubRelease ==
  /\ sub = "done"
  /\ SubIoWrite(FALSE)
  /\ sub' = "idle"
  /\ UNCHANGED <<mainVars, acc, shown>>

-----------------------------------------------------------------------------
(* VM::reset(): the bridge first, then every device, both CPUs included.   *)
(* What was under way is gone; the histories start again.                  *)
ResetCpusOnly ==
  /\ UNCHANGED bridge
  /\ main' = "run" /\ text' = << >>
  /\ sub' = "reset" /\ acc' = NUL
  /\ sent' = << >> /\ shown' = << >>

Reset ==
  /\ BridgeReset
  /\ main' = "run" /\ text' = << >>
  /\ sub' = "reset" /\ acc' = NUL
  /\ sent' = << >> /\ shown' = << >>

Init ==
  /\ BridgeInit
  /\ main = "run" /\ text = << >>
  /\ sub = "reset" /\ acc = NUL
  /\ sent = << >> /\ shown = << >>

MainStep == ConoutPoll \/ ConoutWrite

SubStep ==
  SubStart \/ SubReady \/ SubPoll \/ SubTake \/ SubHandle \/ SubRelease

Next ==
  \/ \E b \in Byte : Conout(b)
  \/ \E s \in Texts : PrintString(s)
  \/ MainStep
  \/ SubStep
  \/ Reset

(* Both CPUs are given time slices for ever, so an instruction that can    *)
(* execute does.  Nothing obliges a program to print or a user to reset.   *)
Spec == Init /\ [][Next]_vars /\ WF_vars(MainStep) /\ WF_vars(SubStep)

-----------------------------------------------------------------------------

TypeOK ==
  /\ BridgeTypeOK
  /\ main \in {"run", "poll", "out"}
  /\ text \in Seq(Byte)
  /\ main = "run" <=> text = << >>
  /\ sub \in SubStates
  /\ acc \in Byte
  /\ sub \in {"got", "work"} => acc # NUL
  /\ sent \in Seq(Payload)
  /\ shown \in Seq(Payload)

(* The payload in the sub CPU's hands, and the payload in the bridge.      *)
Held == IF sub \in {"got", "work"} THEN <<acc>> ELSE << >>
Waiting ==
  IF dr_full /\ main_to_sub_data # NUL THEN <<main_to_sub_data>> ELSE << >>

(* No byte that CONOUT or print-string put out is overwritten in the       *)
(* bridge, taken twice or overtaken, in any interleaving of the two CPUs:  *)
(* what was sent is what was shown, then what the sub CPU holds, then what *)
(* waits in the data register (BIOS_CONOUT_B against idle_loop).           *)
InOrder == sent = shown \o (Held \o Waiting)

(* The link implements an ordered channel that holds two bytes: one the    *)
(* sub CPU has read and not yet shown, and one that slips in behind it     *)
(* because idle_loop raises SUB_BUSY only after the read.                  *)
Channel == INSTANCE ByteChannel WITH got <- shown, Capacity <- 2
ImplementsChannel == Channel!Fair

(* The caller of CONOUT gets control back: the unbounded wait on the       *)
(* status bits ends, since the sub ROM always returns to its idle loop.    *)
ConoutReturns == main # "run" ~> main = "run"

=============================================================================
