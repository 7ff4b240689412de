------------------------------ MODULE DiagLink ------------------------------
(***************************************************************************)
(* The two diagnostic ROMs (build/diag/diag_main.asm, diag_subcpu.asm)     *)
(* talking over MINSUB.  Unlike the production ROM, the diagnostic sub ROM *)
(* collects the rest of an escape sequence inside handle_char, with        *)
(* SUB_BUSY up, so the main side may not wait for SUB_BUSY between the     *)
(* bytes of a sequence: it has two output routines, one per kind of byte.  *)
(***************************************************************************)
EXTENDS Naturals, Sequences, Minsub

CONSTANTS
  ESC, G, T,    \* the bytes of the GVRAM test sequence
  SubText,      \* the text of the S command, as a sequence of bytes
  MaxAsked      \* bound: effects asked for between two resets

ASSUME SequenceBytes == {ESC, G, T} \subseteq Byte \ {NUL}
ASSUME SubTextIsPlain ==
  SubText \in Seq(Byte \ {NUL, ESC}) /\ SubText # << >>
ASSUME MaxAskedIsNat == MaxAsked \in Nat

VARIABLES
  main,     \* "monitor", or in an output routine: "poll", "out"
  todo,     \* the output calls the command still has to make
  sub,      \* where the sub ROM is
  acc,      \* the byte it works on
  asked,    \* history: characters and patterns the commands asked for
  drawn     \* history: characters and patterns the sub ROM drew

vars == <<main_to_sub_data, dr_full, sub_busy,
          main, todo, sub, acc, asked, drawn>>

mainVars == <<main, todo, asked>>
subVars == <<sub, acc, drawn>>

Pattern == "gvram_test_pattern"
Effect == (Byte \ {NUL, ESC}) \cup {Pattern}

(* sub_putc waits for both status bits, sub_putc_data for DR_FULL alone. *)
sub_putc == {"DR_FULL", "SUB_BUSY"}
SubPutcDataBoth == sub_putc
SubPutcDataNone == {}
sub_putc_data == {"DR_FULL"}

(* One output call: the byte, the bits it waits for, and, for the history, *)
(* what the user sees once the byte has been acted on.                     *)
Call(b, mask, effects) == [byte |-> b, wait |-> mask, asks |-> effects]

-----------------------------------------------------------------------------

cmd_sub ==
  /\ main = "monitor"
  /\ Len(asked) + Len(SubText) <= MaxAsked
  /\ main' = "poll"
  /\ todo' = [i \in DOMAIN SubText |->
                 Call(SubText[i], sub_putc, <<SubText[i]>>)]
  /\ UNCHANGED <<bridge, subVars, asked>>

CmdGvramShort ==
  /\ main = "monitor"
  /\ Len(asked) < MaxAsked
  /\ main' = "poll"
  /\ todo' = << Call(ESC, sub_putc, << >>),
                Call(G, sub_putc_data, <<Pattern>>) >>
  /\ UNCHANGED <<bridge, subVars, asked>>

cmd_gvram ==
  /\ main = "monitor"
  /\ Len(asked) < MaxAsked
  /\ main' = "poll"
  /\ todo' = << Call(ESC, sub_putc, << >>),
                Call(G, sub_putc_data, << >>),
                Call(T, sub_putc_data, <<Pattern>>) >>
  /\ UNCHANGED <<bridge, subVars, asked>>

PutcWait ==
  /\ main = "poll"
  /\ MainIoRead \cap Head(todo).wait = {}
  /\ main' = "out"
  /\ UNCHANGED <<bridge, subVars, todo, asked>>

PutcOutNoReturn ==
  /\ main = "out"
  /\ MainIoWrite(Head(todo).byte)
  /\ todo' = Tail(todo)
  /\ main' = "poll"
  /\ asked' = asked \o Head(todo).asks
  /\ UNCHANGED subVars

PutcOut ==
  /\ main = "out"
  /\ MainIoWrite(Head(todo).byte)
  /\ todo' = Tail(todo)
  /\ main' = IF Tail(todo) = << >> THEN "monitor" ELSE "poll"
  /\ asked' = asked \o Head(todo).asks
  /\ UNCHANGED subVars

-----------------------------------------------------------------------------

SubStart ==
  /\ sub = "reset"
  /\ SubIoWrite(TRUE)
  /\ sub' = "init"
  /\ UNCHANGED <<mainVars, acc, drawn>>

SubReady ==
  /\ sub = "init"
  /\ SubIoWrite(FALSE)
  /\ sub' = "idle"
  /\ UNCHANGED <<mainVars, acc, drawn>>

(* The three polls of the data register: idle_loop, and minsub_getc called *)
(* twice by handle_esc.  A zero byte is an empty register to all of them.  *)
SubRead(from, to) ==
  /\ sub = from
  /\ dr_full
  /\ SubIoRead
  /\ IF SubIoReadValue = NUL
       THEN UNCHANGED <<sub, acc>>
       ELSE sub' = to /\ acc' = SubIoReadValue
  /\ UNCHANGED <<mainVars, drawn>>

idle_loop == SubRead("idle", "got")

SubTake ==
  /\ sub = "got"
  /\ SubIoWrite(TRUE)
  /\ sub' = IF acc = ESC THEN "esc" ELSE "work"
  /\ UNCHANGED <<mainVars, acc, drawn>>

(* A second byte other than G, or a third other than T, returns at once    *)
(* with the sequence dropped.                                              *)
handle_esc ==
  \/ SubRead("esc", "second")
  \/ /\ sub = "second"
     /\ sub' = IF acc = G THEN "escG" ELSE "done"
     /\ UNCHANGED <<bridge, mainVars, acc, drawn>>
  \/ SubRead("escG", "third")
  \/ /\ sub = "third"
     /\ sub' = IF acc = T THEN "pattern" ELSE "done"
     /\ UNCHANGED <<bridge, mainVars, acc, drawn>>

handle_char ==
  /\ sub \in {"work", "pattern"}
  /\ drawn' = Append(drawn, IF sub = "pattern" THEN Pattern ELSE acc)
  /\ sub' = "done"
  /\ UNCHANGED <<bridge, mainVars, acc>>

SubRelease ==
  /\ sub = "done"
  /\ SubIoWrite(FALSE)
  /\ sub' = "idle"
  /\ UNCHANGED <<mainVars, acc, drawn>>

-----------------------------------------------------------------------------

Init ==
  /\ BridgeInit
  /\ main = "monitor" /\ todo = << >> /\ asked = << >>
  /\ sub = "reset" /\ acc = NUL /\ drawn = << >>

Reset ==
  /\ BridgeReset
  /\ main' = "monitor" /\ todo' = << >> /\ asked' = << >>
  /\ sub' = "reset" /\ acc' = NUL /\ drawn' = << >>

MainStep == PutcWait \/ PutcOut
SubStep ==
  \/ SubStart \/ SubReady \/ idle_loop \/ SubTake
  \/ handle_esc \/ handle_char \/ SubRelease

Next == cmd_sub \/ cmd_gvram \/ MainStep \/ SubStep \/ Reset

Spec == Init /\ [][Next]_vars /\ WF_vars(MainStep) /\ WF_vars(SubStep)

-----------------------------------------------------------------------------

TypeOK ==
  /\ BridgeTypeOK
  /\ main \in {"monitor", "poll", "out"}
  /\ todo \in Seq([byte : Byte, wait : {sub_putc, sub_putc_data},
                   asks : Seq(Effect)])
  /\ main = "monitor" <=> todo = << >>
  /\ sub \in {"reset", "init", "idle", "got", "esc", "second", "escG",
             "third", "work", "pattern", "done"}
  /\ acc \in Byte
  /\ asked \in Seq(Effect)
  /\ drawn \in Seq(Effect)

(* The sub ROM waits inside an escape sequence only for a byte that is in  *)
(* the register or that the running command still has to send: it never    *)
(* sits there, with SUB_BUSY up, while the monitor is at its prompt        *)
(* (handle_esc and minsub_getc against cmd_gvram).                         *)
SequenceIsBacked == sub \in {"esc", "escG"} => dr_full \/ todo # << >>

(* Seen as effects, the link is the same ordered channel of two places as  *)
(* the production console: every S character and every G pattern is drawn  *)
(* once, in the order of the commands, and no text byte is swallowed by an *)
(* escape sequence (sub_putc and sub_putc_data against idle_loop).         *)
Channel == INSTANCE ByteChannel
             WITH Payload <- Effect, Capacity <- 2, sent <- asked, got <- drawn
ImplementsChannel == Channel!Fair

(* Each command returns to the prompt: the main CPU never waits for        *)
(* SUB_BUSY while the sub CPU waits for the next byte of the sequence.     *)
CommandReturns == main # "monitor" ~> main = "monitor"

=============================================================================
