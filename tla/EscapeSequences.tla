-------------------------- MODULE EscapeSequences --------------------------
(***************************************************************************)
(* Programs talking to the escape parser: well-formed sequences in any     *)
(* order, and noise (bytes that are no sequence, or the beginning of one   *)
(* that is broken off).  What a sequence means is defined here, on whole   *)
(* sequences; the parser sees one byte at a time.                          *)
(***************************************************************************)
EXTENDS EscapeParser

CONSTANTS
  Params,       \* bound: parameters of the control functions
  SgrParams,    \* bound: parameters of ESC [ m
  GdcBytes,     \* bound: bytes sent to the graphics controller
  Glyphs,       \* printable bytes
  Noise         \* bound: bytes sent outside a sequence

ASSUME ParamsAreBytes == Params \subseteq 0 .. 255 /\ SgrParams \subseteq 0 .. 255
ASSUME GdcBytesAreBytes == GdcBytes \subseteq 0 .. 255
ASSUME GlyphsArePrintable == Glyphs \subseteq 32 .. 255
ASSUME NoiseIsBytes == Noise \subseteq 1 .. 255

VARIABLES
  todo,     \* the rest of the sequence being sent
  want      \* what it means: the effects and the attribute after it

parserVars == <<ps, todo, want>>

-----------------------------------------------------------------------------
(* Sequences and their meaning.                                            *)

Decimal(n) ==
  LET digit(i) == ch.zero + i
  IN  IF n < 10 THEN <<digit(n)>>
      ELSE IF n < 100 THEN <<digit(n \div 10), digit(n % 10)>>
      ELSE <<digit(n \div 100), digit((n \div 10) % 10), digit(n % 10)>>

Hex(n) == IF n < 10 THEN ch.zero + n ELSE ch.A + n - 10

Csi(params, final) ==
  <<ESC, ch.bracket>>
    \o (CASE params = << >> -> << >>
          [] Len(params) = 1 -> Decimal(params[1])
          [] OTHER -> Decimal(params[1]) \o <<ch.semicolon>> \o Decimal(params[2]))
    \o <<final>>

Lists(S) == {<< >>} \cup {<<n>> : n \in S} \cup (S \X S)

(* A parameter left out is 0, to be replaced by the function's default. *)
Given(params, i) == IF i <= Len(params) THEN params[i] ELSE 0

(* The control functions of ECMA-48 with one parameter. *)
OneParameter ==
  {<<ch.A, "ansi_cursor_up">>, <<ch.B, "ansi_cursor_down">>,
   <<ch.C, "ansi_cursor_right">>, <<ch.D, "ansi_cursor_left">>,
   <<ch.E, "ansi_cursor_next_line">>, <<ch.F, "ansi_cursor_prev_line">>,
   <<ch.G, "ansi_cursor_column">>, <<ch.J, "ansi_erase_display">>,
   <<ch.K, "ansi_erase_line">>}

Ctrl == {<<CR, "handle_cr">>, <<10, "handle_lf">>, <<8, "handle_bs">>,
         <<9, "handle_tab">>}

(* The value an attribute has after a list of parameters is the one the    *)
(* last parameter that concerns it gives.                                  *)
Latest(params, S, old, Value(_)) ==
  LET said == {i \in DOMAIN params : params[i] \in S}
  IN  IF said = {} THEN old
      ELSE Value(params[CHOOSE i \in said : \A j \in said : j <= i])

Pen(params, attr) ==
  LET on(n) == n \in {5, 7, 8, 11}
      color(n) == IF n \in 30 .. 37 THEN n - 30 ELSE 7
  IN  [color   |-> Latest(params, {0, 39} \cup (30 .. 37), attr.color, color),
       inverse |-> Latest(params, {0, 7, 27}, attr.inverse, on),
       font1   |-> Latest(params, {0, 10, 11}, attr.font1, on),
       hidden  |-> Latest(params, {0, 8, 28}, attr.hidden, on),
       blink   |-> Latest(params, {0, 5, 25}, attr.blink, on)]

Effect(what, args, attr) == <<[what |-> what, args |-> args, attr |-> attr]>>

-----------------------------------------------------------------------------

Nothing == [did |-> << >>, attr |-> ATTR_WHITE]

(* A program sends a sequence that has these effects; the parser is at     *)
(* rest, whatever the programs before have left in its variables.          *)
Send(bytes, did, attr) ==
  /\ todo = << >> /\ ps.state = 0
  /\ todo' = bytes
  /\ want' = [did |-> did, attr |-> attr]
  /\ UNCHANGED ps

SendMany ==
  LET attr == ps.attr
  IN  \/ \E c \in Glyphs : Send(<<c>>, Effect("write_char", <<c>>, attr), attr)
      \/ \E c \in Ctrl : Send(<<c[1]>>, Effect(c[2], << >>, attr), attr)
      \/ \E f \in OneParameter, params \in {<< >>} \cup {<<n>> : n \in Params} :
           Send(Csi(params, f[1]), Effect(f[2], <<Given(params, 1)>>, attr), attr)
      \/ \E f \in {ch.H, ch.f}, params \in Lists(Params) :
           Send(Csi(params, f),
                Effect("ansi_cursor_position",
                       <<Given(params, 1), Given(params, 2)>>, attr), attr)
      \/ \E params \in Lists(SgrParams) :
           Send(Csi(params, ch.m), << >>,
                Pen(IF params = << >> THEN <<0>> ELSE params, attr))
      \/ \E bytes \in {<<ESC, ch.seven>>, Csi(<< >>, ch.s)} :
           Send(bytes, Effect("ansi_save_cursor", << >>, attr), attr)
      \/ \E bytes \in {<<ESC, ch.eight>>, Csi(<< >>, ch.u)} :
           Send(bytes, Effect("ansi_restore_cursor", << >>, attr), attr)
      \/ Send(<<ESC, ch.M>>, Effect("ansi_cursor_up", <<1>>, attr), attr)
      \/ \E n \in GdcBytes, port \in {<<ch.C, "GGDC_CMD_PORT">>,
                                      <<ch.P, "GGDC_PARAM_PORT">>} :
           Send(<<ESC, ch.G, port[1], Hex(n \div 16), Hex(n % 16)>>,
                Effect(port[2], <<n>>, attr), attr)

(* The parser gets the next byte of it.  With the last one its effects are *)
(* history.                                                                *)
Feed ==
  /\ todo # << >>
  /\ LET after == handle_char(ps, Head(todo))
     IN  IF Len(todo) = 1
           THEN ps' = [after EXCEPT !.did = << >>] /\ want' = Nothing
           ELSE ps' = after /\ UNCHANGED want
  /\ todo' = Tail(todo)

(* A byte that belongs to no sequence. *)
Disturb(b) ==
  /\ todo = << >>
  /\ ps' = [handle_char(ps, b) EXCEPT !.did = << >>]
  /\ UNCHANGED <<todo, want>>

ParserReset ==
  /\ ps' = AfterReset(ps)
  /\ todo' = << >>
  /\ want' = Nothing

ParserInit ==
  /\ ps = AtPowerOn
  /\ todo = << >>
  /\ want = Nothing

ParserNext == SendMany \/ Feed \/ (\E b \in Noise : Disturb(b)) \/ ParserReset

ParserSpec == ParserInit /\ [][ParserNext]_parserVars

-----------------------------------------------------------------------------

ParserTypeOK ==
  /\ ps.state \in 0 .. 5 /\ ps.op \in 0 .. 2
  /\ ps.hex \in 0 .. 255 /\ ps.p0 \in 0 .. 255 /\ ps.p1 \in 0 .. 255
  /\ ps.index \in {0, 1} /\ ps.attr \in Attr
  /\ want.attr \in Attr

(* A well-formed sequence that reaches the parser at rest has the effects  *)
(* it means, with its own parameters and the attribute in force, changes   *)
(* the attribute as it means and no further, and leaves the parser at      *)
(* rest: nothing of an earlier sequence, finished, broken off or cut by a  *)
(* reset, gets into it (handle_char and the variables it keeps between     *)
(* bytes).                                                                 *)
SequencesMean ==
  Len(todo) = 1 =>
    LET after == handle_char(ps, Head(todo))
    IN  after.did = want.did /\ after.attr = want.attr /\ after.state = 0

(* A carriage return ends whatever was broken off: at any moment, the one  *)
(* that comes next leaves the parser at rest, so that a program that fails *)
(* in the middle of a sequence does not disturb the next one's lines       *)
(* (handle_sub_command_cancel on every path).                              *)
CarriageReturnEnds == handle_char(ps, CR).state = 0

=============================================================================
