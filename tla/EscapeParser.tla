---------------------------- MODULE EscapeParser ----------------------------
(***************************************************************************)
(* handle_char of the terminal ROM (subcpurom.asm): one byte at a time, a  *)
(* state byte and a few variables decide whether it is text, part of an    *)
(* escape sequence, or the end of one.  What a finished sequence asks of   *)
(* the screen or of the graphics controller is an effect; the effects on   *)
(* the screen are the control functions of SubTerminal.                    *)
(***************************************************************************)
EXTENDS Naturals, Sequences

ESC == 27
CR == 13
ch == [zero |-> 48, nine |-> 57, semicolon |-> 59, query |-> 63,
       bracket |-> 91, seven |-> 55, eight |-> 56,
       A |-> 65, B |-> 66, C |-> 67, D |-> 68, E |-> 69, F |-> 70, G |-> 71,
       H |-> 72, J |-> 74, K |-> 75, M |-> 77, P |-> 80, T |-> 84,
       a |-> 97, f |-> 102, m |-> 109, s |-> 115, u |-> 117]

(* CURRENT_ATTR by its bits; ATTR_WHITE is 07h. *)
Attr == [color: 0 .. 7, inverse: BOOLEAN, font1: BOOLEAN,
         hidden: BOOLEAN, blink: BOOLEAN]
ATTR_WHITE == [color |-> 7, inverse |-> FALSE, font1 |-> FALSE,
               hidden |-> FALSE, blink |-> FALSE]

VARIABLE
  ps    \* the parser: state: SUB_CMD_STATE, op: SUB_CMD_OP, hex: SUB_HEX,
        \* p0, p1: ANSI_PARAM0 and 1, index: ANSI_PARAM_INDEX,
        \* attr: CURRENT_ATTR, did: history, the effects so far

(* The RAM is cleared once, when the machine is built; reset sets two of   *)
(* the variables.                                                          *)
AtPowerOn ==
  [state |-> 0, op |-> 0, hex |-> 0, p0 |-> 0, p1 |-> 0, index |-> 0,
   attr |-> ATTR_WHITE, did |-> << >>]
AfterReset(s) == [s EXCEPT !.state = 0, !.attr = ATTR_WHITE, !.did = << >>]

Does(s, what, args) ==
  [s EXCEPT !.did = Append(@, [what |-> what, args |-> args, attr |-> s.attr])]

To(s, state) == [s EXCEPT !.state = state]
handle_sub_command_cancel(s) == To(s, 0)

-----------------------------------------------------------------------------
(* Graphics pass-through: ESC G, C or P, two hexadecimal digits.           *)

HexBytes == (ch.zero .. ch.nine) \cup (ch.A .. ch.F) \cup (ch.a .. ch.f)

hex_to_nibble(b) ==
  IF b \in ch.zero .. ch.nine THEN b - ch.zero
  ELSE IF b \in ch.A .. ch.F THEN b - ch.A + 10
  ELSE b - ch.a + 10

(* run_gvram_test returns to the idle loop with the state still 2. *)
handle_sub_command_op(s, b) ==
  CASE b = ch.C -> [s EXCEPT !.op = 1, !.state = 3]
    [] b = ch.P -> [s EXCEPT !.op = 2, !.state = 3]
    [] b = ch.T -> Does(s, "run_gvram_test", << >>)
    [] OTHER    -> handle_sub_command_cancel(s)

handle_sub_command_hex_hi(s, b) ==
  IF b \in HexBytes
    THEN [s EXCEPT !.hex = 16 * hex_to_nibble(b), !.state = 4]
    ELSE handle_sub_command_cancel(s)

HexLoNoCancel(s, b) ==
  IF b \in HexBytes
    THEN Does(To(s, 0), IF s.op = 1 THEN "GGDC_CMD_PORT" ELSE "GGDC_PARAM_PORT",
              <<s.hex + hex_to_nibble(b)>>)
    ELSE s

handle_sub_command_hex_lo(s, b) ==
  IF b \in HexBytes
    THEN Does(To(s, 0), IF s.op = 1 THEN "GGDC_CMD_PORT" ELSE "GGDC_PARAM_PORT",
              <<s.hex + hex_to_nibble(b)>>)
    ELSE handle_sub_command_cancel(s)

-----------------------------------------------------------------------------
(* ESC [ sequences.                                                        *)

ansi_sgr_param(attr, n) ==
  CASE n = 0         -> ATTR_WHITE
    [] n \in {5, 25} -> [attr EXCEPT !.blink = (n = 5)]
    [] n \in {7, 27} -> [attr EXCEPT !.inverse = (n = 7)]
    [] n \in {8, 28} -> [attr EXCEPT !.hidden = (n = 8)]
    [] n \in {10, 11} -> [attr EXCEPT !.font1 = (n = 11)]
    [] n \in 30 .. 37 -> [attr EXCEPT !.color = n - 30]
    [] n = 39        -> [attr EXCEPT !.color = 7]
    [] OTHER         -> attr

ansi_sgr(s) ==
  [s EXCEPT !.attr =
     IF s.index = 0 THEN ansi_sgr_param(@, s.p0)
     ELSE ansi_sgr_param(ansi_sgr_param(@, s.p0), s.p1)]

(* The second parameter keeps the value it had in an earlier sequence. *)
AnsiStartKeepsParams(s) == [s EXCEPT !.index = 0, !.state = 5]

handle_ansi_start(s) ==
  [s EXCEPT !.p0 = 0, !.p1 = 0, !.index = 0, !.state = 5]

Mul10Wide(n, digit) == 10 * n + digit

(* Eight bits: 10 * 26 is 4. *)
mul10_add_c(n, digit) == (10 * n + digit) % 256

handle_ansi_digit(s, digit) ==
  IF s.index = 0 THEN [s EXCEPT !.p0 = mul10_add_c(@, digit)]
                 ELSE [s EXCEPT !.p1 = mul10_add_c(@, digit)]

handle_ansi_semicolon(s) == [s EXCEPT !.index = 1]

(* The control functions and their final bytes; another final byte ends    *)
(* the sequence and does nothing.                                          *)
handle_ansi_final(s, b) ==
  LET t == To(s, 0)
      one == <<s.p0>>
  IN CASE b \in {ch.H, ch.f} -> Does(t, "ansi_cursor_position", <<s.p0, s.p1>>)
       [] b = ch.J -> Does(t, "ansi_erase_display", one)
       [] b = ch.K -> Does(t, "ansi_erase_line", one)
       [] b = ch.m -> ansi_sgr(t)
       [] b = ch.A -> Does(t, "ansi_cursor_up", one)
       [] b = ch.B -> Does(t, "ansi_cursor_down", one)
       [] b = ch.C -> Does(t, "ansi_cursor_right", one)
       [] b = ch.D -> Does(t, "ansi_cursor_left", one)
       [] b = ch.E -> Does(t, "ansi_cursor_next_line", one)
       [] b = ch.F -> Does(t, "ansi_cursor_prev_line", one)
       [] b = ch.G -> Does(t, "ansi_cursor_column", one)
       [] b = ch.s -> Does(t, "ansi_save_cursor", << >>)
       [] b = ch.u -> Does(t, "ansi_restore_cursor", << >>)
       [] OTHER    -> t

handle_ansi_char(s, b) ==
  CASE b = ch.query -> s
    [] b \in ch.zero .. ch.nine -> handle_ansi_digit(s, b - ch.zero)
    [] b = ch.semicolon -> handle_ansi_semicolon(s)
    [] OTHER -> handle_ansi_final(s, b)

-----------------------------------------------------------------------------

(* The byte after ESC. *)
handle_sub_command_group(s, b) ==
  CASE b = ch.G       -> To(s, 2)
    [] b = ch.bracket -> handle_ansi_start(s)
    [] b = ch.seven   -> Does(To(s, 0), "ansi_save_cursor", << >>)
    [] b = ch.eight   -> Does(To(s, 0), "ansi_restore_cursor", << >>)
    [] b = ch.M       -> Does([To(s, 0) EXCEPT !.p0 = 1], "ansi_cursor_up", <<1>>)
    [] OTHER          -> handle_sub_command_cancel(s)

(* A byte outside a sequence. *)
handle_plain(s, b) ==
  CASE b = ESC -> To(s, 1)
    [] b = CR  -> Does(s, "handle_cr", << >>)
    [] b = 10  -> Does(s, "handle_lf", << >>)
    [] b = 8   -> Does(s, "handle_bs", << >>)
    [] b = 9   -> Does(s, "handle_tab", << >>)
    [] b \in {14, 15} -> [s EXCEPT !.attr.font1 = (b = 14)]
    [] b < 32 /\ b \notin {ESC, CR, 10, 8, 9, 14, 15} -> s
    [] OTHER   -> Does(s, "write_char", <<b>>)

handle_char(s, b) ==
  CASE s.state = 0 -> handle_plain(s, b)
    [] s.state = 1 -> handle_sub_command_group(s, b)
    [] s.state = 2 -> handle_sub_command_op(s, b)
    [] s.state = 3 -> handle_sub_command_hex_hi(s, b)
    [] s.state = 4 -> handle_sub_command_hex_lo(s, b)
    [] s.state = 5 -> handle_ansi_char(s, b)

=============================================================================
