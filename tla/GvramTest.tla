----------------------------- MODULE GvramTest -----------------------------
(***************************************************************************)
(* GVRAMTST.COM: a program under CP/M that drives the graphics controller  *)
(* through the terminal ROM's pass-through.  One step is one byte for the  *)
(* controller, that is one escape sequence of five characters; the link    *)
(* delivers them in order (Console), the parser is EscapeParser.  The      *)
(* registers that live across a call are variables, because a call may     *)
(* change them.                                                            *)
(***************************************************************************)
EXTENDS EscapeParser, SequencesExt

CONSTANTS
  linear_vector,  \* the parameters of the filling VECTW
  fill_table,     \* entries of 5 bytes: EAD high, low, third, write low, high
  arc_table,      \* entries of 3 bytes for CSRW and 11 for VECTW
  Leftovers       \* bound: the states the parser may have been left in

Bytes(n) == [1 .. n -> 0 .. 255]

ASSUME TablesAreBytes ==
  /\ linear_vector \in Bytes(11)
  /\ fill_table \in Seq(Bytes(5)) \ {<< >>}
  /\ arc_table \in Seq(Bytes(14)) \ {<< >>}

(* What an earlier program may have left of the parser: broken off         *)
(* anywhere, with anything in its variables.                               *)
Left ==
  [state : 0 .. 5, op : 0 .. 2, hex : 0 .. 255, p0 : 0 .. 255, p1 : 0 .. 255,
   index : {0, 1}, attr : Attr, did : {<< >>}]

ASSUME LeftoversAreLeft == Leftovers \subseteq Left

CMD == [RESET |-> 0, START |-> 13, WRITE |-> 32, CSRW |-> 73, VECTW |-> 76,
        VECTE |-> 108, TEXTW |-> 120, MASTER |-> 111]

VARIABLES
  pc, turn, \* the place in the program; the turn of its loop, from 1
  regs,     \* registers C, D and E
  hl,       \* the bytes at HL
  asked     \* history: what the send calls were asked for

testVars == <<ps, pc, turn, regs, hl, asked>>

-----------------------------------------------------------------------------
(* Sending.                                                                *)

(* The parser after the bytes t.                                           *)
Parsed(s, t) ==
  LET after[i \in 0 .. Len(t)] ==
        IF i = 0 THEN s ELSE handle_char(after[i - 1], t[i])
  IN  after[Len(t)]

PutHexDigitsOnly(d) == ch.zero + d

put_hex_nibble(d) == IF d < 10 THEN ch.zero + d ELSE ch.A + d - 10

Proxy(op, a) ==
  <<ESC, ch.G, op, put_hex_nibble(a \div 16), put_hex_nibble(a % 16)>>

(* The registers after a send: A waits in E while the sequence goes out.   *)
send_proxy_a(before, a) == [before EXCEPT !.E = a]

SendProxy(op, port, a) ==
  /\ ps' = Parsed(ps, Proxy(op, a))
  /\ asked' = Append(asked, <<port, a>>)

send_cmd_a(a) == SendProxy(ch.C, "GGDC_CMD_PORT", a)
send_param_a(a) == SendProxy(ch.P, "GGDC_PARAM_PORT", a)

From(p, q) == pc = p /\ pc' = q

Command(p, q, a) ==
  /\ From(p, q) /\ send_cmd_a(a)
  /\ regs' = send_proxy_a(regs, a)
  /\ UNCHANGED <<turn, hl>>

Parameter(p, q, a) ==
  /\ From(p, q) /\ send_param_a(a)
  /\ regs' = send_proxy_a(regs, a)
  /\ UNCHANGED <<turn, hl>>

(* A command followed by count bytes from HL. *)
CommandThen(p, q, a, count, bytes) ==
  /\ From(p, q) /\ send_cmd_a(a)
  /\ regs' = [send_proxy_a(regs, a) EXCEPT !.C = count]
  /\ hl' = bytes
  /\ UNCHANGED turn

SendParamsOneShort(p, q) ==
  /\ pc = p
  /\ send_param_a(Head(hl))
  /\ regs' = [send_proxy_a(regs, Head(hl)) EXCEPT !.C = (@ - 1) % 256]
  /\ hl' = Tail(hl)
  /\ pc' = IF regs'.C = 1 THEN q ELSE p
  /\ UNCHANGED turn

(* One turn of the loop of send_params_hl_c. *)
send_params_hl_c(p, q) ==
  /\ pc = p
  /\ send_param_a(Head(hl))
  /\ regs' = [send_proxy_a(regs, Head(hl)) EXCEPT !.C = (@ - 1) % 256]
  /\ hl' = Tail(hl)
  /\ pc' = IF regs'.C = 0 THEN q ELSE p
  /\ UNCHANGED turn

-----------------------------------------------------------------------------
(* The program.                                                            *)

(* It prints its heading, a carriage return first. *)
Start ==
  /\ From("start", "reset")
  /\ ps' = [Parsed(ps, <<CR, 10, ch.G, CR, 10>>) EXCEPT !.did = << >>]
  /\ UNCHANGED <<turn, regs, hl, asked>>

init_ggdc ==
  \/ Command("reset", "master", CMD.RESET)
  \/ Command("master", "begin", CMD.MASTER)
  \/ Command("begin", "fill", CMD.START)

(* fill_gvram: D, E and C are loaded, then the vector goes out. *)
Entry == fill_table[turn]
FillLoad ==
  /\ From("fill", "vector") /\ send_cmd_a(CMD.VECTW)
  /\ regs' = [send_proxy_a([regs EXCEPT !.D = Entry[1], !.E = Entry[2]], CMD.VECTW)
             EXCEPT !.C = 11]
  /\ hl' = linear_vector
  /\ UNCHANGED turn

FillWrite ==
  /\ From("write", "wlow") /\ send_cmd_a(CMD.WRITE)
  /\ regs' = send_proxy_a([regs EXCEPT !.E = Entry[4], !.D = Entry[5]], CMD.WRITE)
  /\ UNCHANGED <<turn, hl>>

FillNext ==
  /\ pc = "whigh" /\ send_param_a(regs.D)
  /\ regs' = send_proxy_a(regs, regs.D)
  /\ IF turn = Len(fill_table) THEN turn' = 1 /\ pc' = "textw"
                               ELSE turn' = turn + 1 /\ pc' = "fill"
  /\ UNCHANGED hl

fill_gvram ==
  \/ FillLoad
  \/ send_params_hl_c("vector", "csrw")
  \/ Command("csrw", "low", CMD.CSRW)
  \/ Parameter("low", "high", regs.E)
  \/ Parameter("high", "third", regs.D)
  \/ Parameter("third", "write", regs.C)
  \/ FillWrite
  \/ Parameter("wlow", "whigh", regs.E)
  \/ FillNext

ArcNext ==
  /\ pc = "vecte" /\ send_cmd_a(CMD.VECTE)
  /\ regs' = send_proxy_a(regs, CMD.VECTE)
  /\ IF turn = Len(arc_table) THEN pc' = "done" /\ UNCHANGED turn
                              ELSE turn' = turn + 1 /\ pc' = "arc"
  /\ UNCHANGED hl

draw_arcs ==
  \/ Command("textw", "mask1", CMD.TEXTW)
  \/ Parameter("mask1", "mask2", 255)
  \/ Parameter("mask2", "arc", 255)
  \/ CommandThen("arc", "origin", CMD.CSRW, 3, SubSeq(arc_table[turn], 1, 3))
  \/ send_params_hl_c("origin", "shape")
  \/ CommandThen("shape", "curve", CMD.VECTW, 11, SubSeq(arc_table[turn], 4, 14))
  \/ send_params_hl_c("curve", "vecte")
  \/ ArcNext

TestInit ==
  /\ ps \in Leftovers
  /\ pc = "start" /\ turn = 1
  /\ regs = [C |-> 0, D |-> 0, E |-> 0]
  /\ hl = << >> /\ asked = << >>

TestNext == Start \/ init_ggdc \/ fill_gvram \/ draw_arcs

TestSpec == TestInit /\ [][TestNext]_testVars

-----------------------------------------------------------------------------

(* What the controller got. *)
GgdcGot == [i \in DOMAIN ps.did |-> <<ps.did[i].what, ps.did[i].args[1]>>]

(* Whatever an earlier program left of the terminal's parser, the          *)
(* controller gets every byte the send calls are given, on the port they   *)
(* name, and nothing of the sequences reaches the screen (Proxy and        *)
(* put_hex_nibble against handle_sub_command_op and hex_to_nibble).        *)
PassThrough == pc # "start" => GgdcGot = asked /\ ps.state = 0

Cmds(seq) == [i \in DOMAIN seq |-> <<"GGDC_CMD_PORT", seq[i]>>]
Pars(seq) == [i \in DOMAIN seq |-> <<"GGDC_PARAM_PORT", seq[i]>>]

FillOf(e) ==
  Cmds(<<CMD.VECTW>>) \o Pars(linear_vector)
    \o Cmds(<<CMD.CSRW>>) \o Pars(<<e[2], e[1], e[3]>>)
    \o Cmds(<<CMD.WRITE>>) \o Pars(<<e[4], e[5]>>)
ArcOf(e) ==
  Cmds(<<CMD.CSRW>>) \o Pars(SubSeq(e, 1, 3))
    \o Cmds(<<CMD.VECTW>>) \o Pars(SubSeq(e, 4, 14)) \o Cmds(<<CMD.VECTE>>)

Fills == Cmds(<<CMD.RESET, CMD.MASTER, CMD.START>>)
           \o FlattenSeq([i \in DOMAIN fill_table |-> FillOf(fill_table[i])])
Arcs == Cmds(<<CMD.TEXTW>>) \o Pars(<<255, 255>>)
          \o FlattenSeq([i \in DOMAIN arc_table |-> ArcOf(arc_table[i])])

(* The arcs are drawn from their table, three bytes for the origin and     *)
(* eleven for the shape each: no call made on the way spoils the count or  *)
(* the pointer (draw_arcs, send_params_hl_c).                              *)
ArcsAreDrawn ==
  LET got == SubSeq(GgdcGot, Len(Fills) + 1, Len(GgdcGot))
  IN  IsPrefix(got, Arcs) /\ (pc = "done" => got = Arcs)

(* The fill uses its table: the address of each entry in the order low,    *)
(* high, third byte, and the entry's word (the comment on fill_table).     *)
FillsFollowTable == IsPrefix(GgdcGot, Fills \o Arcs)

=============================================================================
