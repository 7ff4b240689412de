--------------------------- MODULE ConsoleProofs ---------------------------
(***************************************************************************)
(* Console output.  The link is an ordered channel, for every set of       *)
(* bytes, every set of strings and every bound; the escape parser at the   *)
(* end of it gives every sequence its own meaning, for every set of        *)
(* parameters and whatever came before.                                    *)
(***************************************************************************)
EXTENDS Console, EscapeSequences, GvramTest, WellFoundedInduction, TLAPS

(* The order does not stand alone: it survives ConoutWrite only because    *)
(* the register is empty when the BIOS gets there, which the poll found    *)
(* and which only the BIOS itself can end.                                 *)
WriteSafe == main = "out" => ~dr_full

IInv == TypeOK /\ WriteSafe /\ InOrder

-----------------------------------------------------------------------------
(* Sequences. *)

LEMMA EmptyIsSeq == ASSUME NEW S PROVE << >> \in Seq(S)
OBVIOUS

LEMMA SingleIsSeq == ASSUME NEW S, NEW e \in S PROVE <<e>> \in Seq(S)
OBVIOUS

LEMMA ConcatEmpty ==
  ASSUME NEW S, NEW s \in Seq(S)
  PROVE  s \o << >> = s /\ << >> \o s = s
OBVIOUS

LEMMA ConcatAppend ==
  ASSUME NEW S, NEW s \in Seq(S), NEW t \in Seq(S), NEW e \in S
  PROVE  Append(s \o t, e) = s \o (t \o <<e>>)
BY SMTT(30)

LEMMA HeadAndTail ==
  ASSUME NEW S, NEW s \in Seq(S), s # << >>
  PROVE  Head(s) \in S /\ Tail(s) \in Seq(S)
OBVIOUS

-----------------------------------------------------------------------------

(* Every step keeps the types. *)
LEMMA TypeStep == TypeOK /\ [Next]_vars => TypeOK'
<1> SUFFICES ASSUME TypeOK, [Next]_vars PROVE TypeOK'
  OBVIOUS
<1> USE NulIsByte, TextsAreStrings DEF TypeOK, BridgeTypeOK, Payload,
        mainVars, subVars, bridge, SubStates
<1>1. ASSUME NEW b \in Byte, Conout(b) PROVE TypeOK'
  BY <1>1 DEF Conout
<1>2. ASSUME NEW s \in Texts, PrintString(s) PROVE TypeOK'
  <2>1. s \in Seq(Payload) /\ s \in Seq(Byte)
    OBVIOUS
  <2>2. QED BY <1>2, <2>1 DEF PrintString
<1>3. CASE ConoutPoll
  BY <1>3 DEF ConoutPoll
<1>4. CASE ConoutWrite
  <2>1. text # << >> /\ Head(text) \in Byte /\ Tail(text) \in Seq(Byte)
    BY <1>4, HeadAndTail DEF ConoutWrite
  <2>2. sent' \in Seq(Payload)
    BY <1>4, <2>1 DEF ConoutWrite
  <2>3. QED BY <1>4, <2>1, <2>2 DEF ConoutWrite, MainIoWrite
<1>5. CASE SubStart
  BY <1>5 DEF SubStart, SubIoWrite
<1>6. CASE SubReady
  BY <1>6 DEF SubReady, SubIoWrite
<1>7. CASE SubPoll
  BY <1>7 DEF SubPoll, SubIoRead, SubIoReadValue
<1>8. CASE SubTake
  BY <1>8 DEF SubTake, SubIoWrite
<1>9. CASE SubHandle
  BY <1>9 DEF SubHandle
<1>10. CASE SubRelease
  BY <1>10 DEF SubRelease, SubIoWrite
<1>11. CASE Reset
  <2>1. << >> \in Seq(Byte) /\ << >> \in Seq(Payload)
    BY EmptyIsSeq
  <2>2. QED BY <1>11, <2>1 DEF Reset, BridgeReset
<1>12. CASE UNCHANGED vars
  BY <1>12 DEF vars
<1>13. QED
  BY <1>1, <1>2, <1>3, <1>4, <1>5, <1>6, <1>7, <1>8, <1>9, <1>10, <1>11, <1>12
     DEF Next, MainStep, SubStep

(* Every value of the state variables has its type. *)
THEOREM TypeCorrect == Spec => []TypeOK
<1>1. Init => TypeOK
  <2>1. << >> \in Seq(Byte) /\ << >> \in Seq(Payload)
    BY EmptyIsSeq
  <2>2. QED
    BY <2>1, NulIsByte DEF Init, BridgeInit, TypeOK, BridgeTypeOK, SubStates
<1>2. QED
  BY <1>1, TypeStep, PTL DEF Spec

-----------------------------------------------------------------------------

(* What the sub CPU holds and what waits are payload. *)
LEMMA InFlightTypes ==
  TypeOK => Held \in Seq(Payload) /\ Waiting \in Seq(Payload)
<1> SUFFICES ASSUME TypeOK
             PROVE  Held \in Seq(Payload) /\ Waiting \in Seq(Payload)
  OBVIOUS
<1>1. << >> \in Seq(Payload)
  BY EmptyIsSeq
<1>2. ASSUME sub \in {"got", "work"} PROVE <<acc>> \in Seq(Payload)
  <2>1. acc \in Payload
    BY <1>2 DEF TypeOK, Payload
  <2>2. QED BY <2>1, SingleIsSeq
<1>3. ASSUME main_to_sub_data # NUL PROVE <<main_to_sub_data>> \in Seq(Payload)
  <2>1. main_to_sub_data \in Payload
    BY <1>3 DEF TypeOK, BridgeTypeOK, Payload
  <2>2. QED BY <2>1, SingleIsSeq
<1>4. QED
  BY <1>1, <1>2, <1>3 DEF Held, Waiting

(* The steps that move no byte leave the order as it is. *)
LEMMA Unmoved ==
  ASSUME IInv, UNCHANGED <<dr_full, main_to_sub_data, sent, shown>>, Held' = Held,
         main' = "out" => main = "out" \/ ~dr_full
  PROVE  WriteSafe' /\ InOrder'
<1>1. Waiting' = Waiting
  BY DEF Waiting
<1>2. QED
  BY <1>1 DEF IInv, WriteSafe, InOrder

(* Every step keeps the order. *)
LEMMA OrderStep == IInv /\ [Next]_vars => IInv'
<1> SUFFICES ASSUME IInv, [Next]_vars PROVE IInv'
  OBVIOUS
<1>0. TypeOK /\ TypeOK' /\ WriteSafe /\ InOrder
      /\ dr_full \in BOOLEAN /\ dr_full' \in BOOLEAN
  BY TypeStep DEF IInv, TypeOK, BridgeTypeOK
<1> SUFFICES WriteSafe' /\ InOrder'
  BY <1>0 DEF IInv
<1>1. ASSUME NEW b \in Byte, Conout(b) PROVE WriteSafe' /\ InOrder'
  BY <1>1, Unmoved DEF Conout, bridge, subVars, Held
<1>2. ASSUME NEW s \in Texts, PrintString(s) PROVE WriteSafe' /\ InOrder'
  BY <1>2, Unmoved DEF PrintString, bridge, subVars, Held
<1>3. CASE ConoutPoll
  <2>1. ~dr_full
    BY <1>0, <1>3 DEF ConoutPoll, MainIoRead
  <2>2. QED
    BY <1>3, <2>1, Unmoved DEF ConoutPoll, bridge, subVars, Held
<1>4. CASE ConoutWrite
  <2> DEFINE b == Head(text)
  <2>1. Waiting = << >> /\ main' # "out" /\ dr_full' /\ main_to_sub_data' = b
    BY <1>0, <1>4 DEF ConoutWrite, MainIoWrite, WriteSafe, Waiting
  <2>2. b \in Byte
    BY <1>0, <1>4, HeadAndTail DEF ConoutWrite, TypeOK
  <2>3. Held \in Seq(Payload) /\ Held' = Held /\ shown' = shown
        /\ shown \in Seq(Payload)
    BY <1>0, <1>4, InFlightTypes DEF ConoutWrite, subVars, Held, TypeOK
  <2>4. sent = shown \o Held
    BY <1>0, <2>1, <2>3, ConcatEmpty DEF InOrder
  <2>5. CASE b = NUL
    <3>1. Waiting' = << >> /\ sent' = sent
      BY <1>4, <2>1, <2>5 DEF Waiting, ConoutWrite
    <3>2. QED
      BY <2>1, <2>3, <2>4, <3>1, ConcatEmpty DEF InOrder, WriteSafe
  <2>6. CASE b # NUL
    <3>1. Waiting' = <<b>> /\ sent' = Append(sent, b) /\ b \in Payload
      BY <1>4, <2>1, <2>2, <2>6 DEF Waiting, ConoutWrite, Payload
    <3>2. Append(shown \o Held, b) = shown \o (Held \o <<b>>)
      <4>1. shown \in Seq(Payload) /\ Held \in Seq(Payload) /\ b \in Payload
        BY <2>3, <3>1
      <4> HIDE DEF b
      <4>2. QED BY <4>1, ConcatAppend
    <3>3. QED
      BY <2>1, <2>3, <2>4, <3>1, <3>2 DEF InOrder, WriteSafe
  <2>7. QED
    BY <2>5, <2>6
<1>5. CASE SubStart
  BY <1>5, Unmoved DEF SubStart, SubIoWrite, mainVars, Held
<1>6. CASE SubReady
  BY <1>6, Unmoved DEF SubReady, SubIoWrite, mainVars, Held
<1>7. CASE SubPoll
  <2>1. Waiting' = << >> /\ Held = << >> /\ WriteSafe'
        /\ sent' = sent /\ shown' = shown
    BY <1>0, <1>7
       DEF SubPoll, SubIoRead, mainVars, Waiting, Held, WriteSafe
  <2>2. Held' = Waiting
    BY <1>0, <1>7 DEF SubPoll, SubIoRead, SubIoReadValue, Waiting, Held
  <2>3. Waiting \in Seq(Payload)
    BY <1>0, InFlightTypes
  <2>4. QED
    BY <1>0, <2>1, <2>2, <2>3, ConcatEmpty DEF InOrder
<1>8. CASE SubTake
  BY <1>8, Unmoved DEF SubTake, SubIoWrite, mainVars, Held
<1>9. CASE SubHandle
  <2>1. Held = <<acc>> /\ Held' = << >> /\ Waiting' = Waiting /\ WriteSafe'
        /\ sent' = sent /\ shown' = Append(shown, acc)
    BY <1>0, <1>9
       DEF SubHandle, bridge, mainVars, Held, Waiting, WriteSafe
  <2>2. Waiting \in Seq(Payload) /\ acc \in Payload /\ shown \in Seq(Payload)
    BY <1>0, <1>9, InFlightTypes DEF SubHandle, TypeOK, Payload
  <2>3. shown \o (<<acc>> \o Waiting) = Append(shown, acc) \o Waiting
    BY <2>2
  <2>4. Append(shown, acc) \o (<< >> \o Waiting) = Append(shown, acc) \o Waiting
    BY <2>2, ConcatEmpty
  <2>5. QED
    BY <1>0, <2>1, <2>3, <2>4 DEF InOrder
<1>10. CASE SubRelease
  BY <1>10, Unmoved DEF SubRelease, SubIoWrite, mainVars, Held
<1>11. CASE Reset
  <2>1. Held' = << >> /\ Waiting' = << >> /\ WriteSafe'
    BY <1>11 DEF Reset, BridgeReset, Held, Waiting, WriteSafe
  <2>2. << >> \o (<< >> \o << >>) = << >>
    BY ConcatEmpty, EmptyIsSeq
  <2>3. QED
    BY <1>11, <2>1, <2>2 DEF Reset, InOrder
<1>12. CASE UNCHANGED vars
  BY <1>12, Unmoved DEF vars, Held
<1>13. QED
  BY <1>0, <1>1, <1>2, <1>3, <1>4, <1>5, <1>6, <1>7, <1>8, <1>9, <1>10,
     <1>11, <1>12 DEF IInv, Next, MainStep, SubStep

LEMMA OrderInit == Init => IInv
<1> SUFFICES ASSUME Init PROVE IInv
  OBVIOUS
<1>1. << >> \in Seq(Byte) /\ << >> \in Seq(Payload)
  BY EmptyIsSeq
<1>2. TypeOK
  BY <1>1, NulIsByte DEF Init, BridgeInit, TypeOK, BridgeTypeOK, SubStates
<1>3. Held = << >> /\ Waiting = << >> /\ WriteSafe
  BY DEF Init, BridgeInit, Held, Waiting, WriteSafe
<1>4. << >> \o (<< >> \o << >>) = << >>
  BY ConcatEmpty, EmptyIsSeq
<1>5. QED
  BY <1>2, <1>3, <1>4 DEF IInv, InOrder, Init

(* No byte is lost in the bridge, repeated or overtaken, whatever the      *)
(* interleaving of BIOS_CONOUT_B, idle_loop and the machine's reset.       *)
THEOREM BytesInOrder == Spec => []InOrder
<1>1. IInv => InOrder
  BY DEF IInv
<1>2. QED
  BY <1>1, OrderInit, OrderStep, PTL DEF Spec

-----------------------------------------------------------------------------
(* The refinement of the ordered channel, safety part: each step of the    *)
(* two CPUs is a Put, a Get, a Reset of the channel, or none of its        *)
(* business.                                                               *)

LEMMA ConcatLength ==
  ASSUME NEW S, NEW s \in Seq(S), NEW t \in Seq(S), NEW u \in Seq(S)
  PROVE  Len(s \o (t \o u)) = Len(s) + Len(t) + Len(u)
OBVIOUS

LEMMA ChannelStep == IInv /\ [Next]_vars => [Channel!Next]_(Channel!chan)
<1> SUFFICES ASSUME IInv, [Next]_vars
             PROVE  Channel!Next \/ UNCHANGED <<sent, shown>>
  BY DEF Channel!chan
<1>0. TypeOK /\ WriteSafe /\ InOrder
      /\ dr_full \in BOOLEAN /\ sent \in Seq(Payload) /\ shown \in Seq(Payload)
      /\ Held \in Seq(Payload) /\ Waiting \in Seq(Payload)
  BY InFlightTypes DEF IInv, TypeOK, BridgeTypeOK
<1>1. ASSUME NEW b \in Byte, Conout(b) PROVE UNCHANGED <<sent, shown>>
  BY <1>1 DEF Conout, subVars
<1>2. ASSUME NEW s \in Texts, PrintString(s) PROVE UNCHANGED <<sent, shown>>
  BY <1>2 DEF PrintString, subVars
<1>3. CASE ConoutPoll
  BY <1>3 DEF ConoutPoll, subVars
<1>4. CASE ConoutWrite
  <2>1. Waiting = << >>
    BY <1>0, <1>4 DEF ConoutWrite, WriteSafe, Waiting
  <2>2. Len(Held) <= 1 /\ Len(Waiting) = 0
    BY <2>1 DEF Held
  <2>3. Len(sent) - Len(shown) < 2
    <3>1. Len(sent) = Len(shown) + Len(Held) + Len(Waiting)
      BY <1>0, ConcatLength DEF InOrder
    <3>2. QED
      BY <1>0, <2>2, <3>1
  <2>4. Head(text) \in Byte
    BY <1>0, <1>4, HeadAndTail DEF ConoutWrite, TypeOK
  <2>5. CASE Head(text) = NUL
    BY <1>4, <2>5 DEF ConoutWrite, subVars
  <2>6. CASE Head(text) # NUL
    <3>1. Head(text) \in Payload
      BY <2>4, <2>6 DEF Payload
    <3>2. Channel!Put(Head(text))
      BY <1>4, <2>3, <2>6 DEF ConoutWrite, subVars, Channel!Put
    <3>3. QED
      BY <3>1, <3>2 DEF Channel!Next
  <2>7. QED
    BY <2>5, <2>6
<1>5. CASE SubStart
  BY <1>5 DEF SubStart, mainVars
<1>6. CASE SubReady
  BY <1>6 DEF SubReady, mainVars
<1>7. CASE SubPoll
  BY <1>7 DEF SubPoll, mainVars
<1>8. CASE SubTake
  BY <1>8 DEF SubTake, mainVars
<1>9. CASE SubHandle
  <2>1. Held = <<acc>> /\ shown' = Append(shown, acc) /\ sent' = sent
    BY <1>9 DEF SubHandle, Held, mainVars
  <2>2. acc \in Payload
    BY <1>0, <1>9 DEF SubHandle, TypeOK, Payload
  <2>3. sent = shown \o (<<acc>> \o Waiting)
    BY <1>0, <2>1 DEF InOrder
  <2>4. Len(shown) < Len(sent) /\ sent[Len(shown) + 1] = acc
    BY <1>0, <2>2, <2>3
  <2>5. Channel!Get
    BY <2>1, <2>4 DEF Channel!Get
  <2>6. QED
    BY <2>5 DEF Channel!Next
<1>10. CASE SubRelease
  BY <1>10 DEF SubRelease, mainVars
<1>11. CASE Reset
  BY <1>11 DEF Reset, Channel!Next, Channel!Reset
<1>12. CASE UNCHANGED vars
  BY <1>12 DEF vars
<1>13. QED
  BY <1>1, <1>2, <1>3, <1>4, <1>5, <1>6, <1>7, <1>8, <1>9, <1>10, <1>11, <1>12
     DEF Next, MainStep, SubStep

(* CONOUT, the bridge and the terminal ROM's idle loop together implement  *)
(* an ordered channel that never has more than two bytes under way.        *)
THEOREM RefinesChannel == Spec => Channel!Safe
<1>1. Init => Channel!Init
  BY DEF Init, Channel!Init
<1>2. QED
  BY <1>1, OrderInit, OrderStep, ChannelStep, PTL DEF Spec, Channel!Safe

-----------------------------------------------------------------------------
(* The escape parser.                                                      *)

Octet == 0 .. 255

(* What a sequence can ask for. *)
EffectNames ==
  {"write_char", "handle_cr", "handle_lf", "handle_bs", "handle_tab",
   "ansi_cursor_position", "ansi_erase_display", "ansi_erase_line",
   "ansi_cursor_up", "ansi_cursor_down", "ansi_cursor_right",
   "ansi_cursor_left", "ansi_cursor_next_line", "ansi_cursor_prev_line",
   "ansi_cursor_column", "ansi_save_cursor", "ansi_restore_cursor",
   "run_gvram_test", "GGDC_CMD_PORT", "GGDC_PARAM_PORT"}

Effects == Seq([what : EffectNames, args : Seq(Nat), attr : Attr])

ParserState ==
  [state : 0 .. 5, op : 0 .. 2, hex : Octet, p0 : Octet, p1 : Octet,
   index : {0, 1}, attr : Attr, did : Effects]

(* The bytes t, one after the other, take the parser from s to u. *)
Leads(s, t, u) ==
  \E f \in [0 .. Len(t) -> ParserState] :
    /\ f[0] = s /\ f[Len(t)] = u
    /\ \A i \in 1 .. Len(t) : f[i] = handle_char(f[i - 1], t[i])

(* They take it to rest, with these effects and this attribute. *)
Means(s, t, did, attr) ==
  \E u \in ParserState :
    Leads(s, t, u) /\ u.did = did /\ u.attr = attr /\ u.state = 0

(* SequencesMean looks at the last byte of a sequence only.  To get there   *)
(* every byte before it has to have done its part, so the invariant speaks *)
(* of all that are still to come: from where the parser is, they lead to   *)
(* what is wanted.  A byte fed takes the first of them off.                *)
ParserInv ==
  /\ ps \in ParserState /\ todo \in Seq(Octet)
  /\ want \in [did : Effects, attr : Attr]
  /\ todo = << >> => ps.did = << >>
  /\ todo # << >> => Means(ps, todo, want.did, want.attr)

-----------------------------------------------------------------------------
(* The parser keeps its types. *)

LEMMA Values ==
  /\ \A q \in {0, 1, 2, 3, 4, 5} : q \in 0 .. 5
  /\ \A o \in {0, 1, 2} : o \in 0 .. 2
  /\ 0 \in Octet /\ 1 \in Octet
  /\ 0 \in {0, 1} /\ 1 \in {0, 1}
BY DEF Octet

LEMMA DoesTypes ==
  ASSUME NEW s \in ParserState, NEW what \in EffectNames, NEW args \in Seq(Nat)
  PROVE  Does(s, what, args) \in ParserState
<1> DEFINE e == [what |-> what, args |-> args, attr |-> s.attr]
<1>1. e \in [what : EffectNames, args : Seq(Nat), attr : Attr]
  BY DEF ParserState
<1>2. Append(s.did, e) \in Effects
  <2> HIDE DEF e
  <2> QED BY <1>1 DEF ParserState, Effects
<1>3. [s EXCEPT !.did = Append(s.did, e)] \in ParserState
  <2> DEFINE d == Append(s.did, e)
  <2>1. d \in Effects
    BY <1>2
  <2> HIDE DEF d, e
  <2>2. [s EXCEPT !.did = d] \in ParserState
    BY <2>1 DEF ParserState
  <2>3. QED BY <2>2 DEF d
<1>4. QED
  BY <1>3 DEF Does

LEMMA ToTypes ==
  ASSUME NEW s \in ParserState, NEW q \in {0, 1, 2, 3, 4, 5}
  PROVE  To(s, q) \in ParserState
<1>1. q \in 0 .. 5
  BY Values
<1>2. QED
  BY <1>1 DEF To, ParserState

LEMMA ArgsTypes ==
  ASSUME NEW m \in Nat, NEW n \in Nat
  PROVE  << >> \in Seq(Nat) /\ <<m>> \in Seq(Nat) /\ <<m, n>> \in Seq(Nat)
OBVIOUS

LEMMA PlainTypes ==
  ASSUME NEW s \in ParserState, NEW b \in Octet
  PROVE  handle_plain(s, b) \in ParserState
<1>1. b \in Nat /\ << >> \in Seq(Nat) /\ <<b>> \in Seq(Nat)
  BY ArgsTypes DEF Octet
<1>2. [s EXCEPT !.attr.font1 = (b = 14)] \in ParserState
  BY DEF ParserState, Attr
<1>3. To(s, 1) \in ParserState
  BY ToTypes
<1>4. /\ Does(s, "handle_cr", << >>) \in ParserState
      /\ Does(s, "handle_lf", << >>) \in ParserState
      /\ Does(s, "handle_bs", << >>) \in ParserState
      /\ Does(s, "handle_tab", << >>) \in ParserState
      /\ Does(s, "write_char", <<b>>) \in ParserState
  BY <1>1, DoesTypes DEF EffectNames
<1>5. QED
  BY <1>2, <1>3, <1>4 DEF handle_plain

LEMMA GroupTypes ==
  ASSUME NEW s \in ParserState, NEW b \in Octet
  PROVE  handle_sub_command_group(s, b) \in ParserState
<1>1. << >> \in Seq(Nat) /\ <<1>> \in Seq(Nat)
  BY ArgsTypes
<1>2. To(s, 0) \in ParserState /\ To(s, 2) \in ParserState
  BY ToTypes
<1>3. [To(s, 0) EXCEPT !.p0 = 1] \in ParserState
  <2>1. \A t \in ParserState, n \in Octet : [t EXCEPT !.p0 = n] \in ParserState
    BY DEF ParserState
  <2>2. QED BY <1>2, <2>1, Values
<1>4. handle_ansi_start(s) \in ParserState
  <2>1. \A m \in Octet, n \in Octet, i \in {0, 1}, q \in 0 .. 5 :
          [s EXCEPT !.p0 = m, !.p1 = n, !.index = i, !.state = q] \in ParserState
    BY DEF ParserState
  <2>2. 0 \in Octet /\ 0 \in {0, 1} /\ 5 \in 0 .. 5
    BY Values
  <2>3. [s EXCEPT !.p0 = 0, !.p1 = 0, !.index = 0, !.state = 5] \in ParserState
    BY <2>1, <2>2
  <2>4. QED BY <2>3 DEF handle_ansi_start
<1>5. /\ Does(To(s, 0), "ansi_save_cursor", << >>) \in ParserState
      /\ Does(To(s, 0), "ansi_restore_cursor", << >>) \in ParserState
      /\ Does([To(s, 0) EXCEPT !.p0 = 1], "ansi_cursor_up", <<1>>) \in ParserState
  BY <1>1, <1>2, <1>3, DoesTypes DEF EffectNames
<1>6. QED
  BY <1>2, <1>4, <1>5 DEF handle_sub_command_group, handle_sub_command_cancel

LEMMA OpTypes ==
  ASSUME NEW s \in ParserState, NEW b \in Octet
  PROVE  handle_sub_command_op(s, b) \in ParserState
<1>1. << >> \in Seq(Nat)
  BY ArgsTypes
<1>2. 1 \in 0 .. 2 /\ 2 \in 0 .. 2 /\ 3 \in 0 .. 5
  OBVIOUS
<1>3. [s EXCEPT !.op = 1, !.state = 3] \in ParserState
      /\ [s EXCEPT !.op = 2, !.state = 3] \in ParserState
  <2>1. \A o \in 0 .. 2, q \in 0 .. 5 :
          [s EXCEPT !.op = o, !.state = q] \in ParserState
    BY DEF ParserState
  <2>2. QED BY <1>2, <2>1
<1>4. Does(s, "run_gvram_test", << >>) \in ParserState
  BY <1>1, DoesTypes DEF EffectNames
<1>5. To(s, 0) \in ParserState
  BY ToTypes
<1>6. QED
  BY <1>3, <1>4, <1>5 DEF handle_sub_command_op, handle_sub_command_cancel

LEMMA NibbleTypes ==
  ASSUME NEW b \in HexBytes
  PROVE  hex_to_nibble(b) \in 0 .. 15
BY DEF HexBytes, hex_to_nibble, ch

LEMMA HexTypes ==
  ASSUME NEW s \in ParserState, NEW b \in Octet
  PROVE  /\ handle_sub_command_hex_hi(s, b) \in ParserState
         /\ handle_sub_command_hex_lo(s, b) \in ParserState
<1>1. To(s, 0) \in ParserState
  BY ToTypes
<1>2. ASSUME b \in HexBytes
      PROVE  [s EXCEPT !.hex = 16 * hex_to_nibble(b), !.state = 4] \in ParserState
  <2>1. 16 * hex_to_nibble(b) \in Octet
    BY <1>2, NibbleTypes DEF Octet
  <2>2. 4 \in 0 .. 5
    OBVIOUS
  <2>3. \A h \in Octet, q \in 0 .. 5 :
          [s EXCEPT !.hex = h, !.state = q] \in ParserState
    BY DEF ParserState
  <2>4. QED BY <2>1, <2>2, <2>3
<1>3. ASSUME b \in HexBytes PROVE <<s.hex + hex_to_nibble(b)>> \in Seq(Nat)
  <2>1. s.hex \in Nat
    BY DEF ParserState, Octet
  <2>2. hex_to_nibble(b) \in Nat
    BY <1>3, NibbleTypes
  <2>3. s.hex + hex_to_nibble(b) \in Nat
    BY <2>1, <2>2
  <2>4. QED BY <2>3, ArgsTypes
<1>4. "GGDC_CMD_PORT" \in EffectNames /\ "GGDC_PARAM_PORT" \in EffectNames
  BY DEF EffectNames
<1>5. handle_sub_command_hex_hi(s, b) \in ParserState
  BY <1>1, <1>2 DEF handle_sub_command_hex_hi, handle_sub_command_cancel
<1>6. handle_sub_command_hex_lo(s, b) \in ParserState
  <2>1. CASE b \in HexBytes /\ s.op = 1
    BY <1>1, <1>3, <1>4, <2>1, DoesTypes DEF handle_sub_command_hex_lo
  <2>2. CASE b \in HexBytes /\ s.op # 1
    BY <1>1, <1>3, <1>4, <2>2, DoesTypes DEF handle_sub_command_hex_lo
  <2>3. CASE b \notin HexBytes
    BY <1>1, <2>3 DEF handle_sub_command_hex_lo, handle_sub_command_cancel
  <2>4. QED BY <2>1, <2>2, <2>3
<1>7. QED
  BY <1>5, <1>6

LEMMA SgrTypes ==
  ASSUME NEW a \in Attr, NEW n \in Octet
  PROVE  ansi_sgr_param(a, n) \in Attr
<1>1. ATTR_WHITE \in Attr
  BY DEF ATTR_WHITE, Attr
<1>2. \A c \in 0 .. 7 : [a EXCEPT !.color = c] \in Attr
  BY DEF Attr
<1>3. \A v \in BOOLEAN :
        /\ [a EXCEPT !.inverse = v] \in Attr /\ [a EXCEPT !.font1 = v] \in Attr
        /\ [a EXCEPT !.hidden = v] \in Attr /\ [a EXCEPT !.blink = v] \in Attr
  BY DEF Attr
<1>4. 7 \in 0 .. 7 /\ (n \in 30 .. 37 => n - 30 \in 0 .. 7)
  BY DEF Octet
<1>5. \A k \in Nat : (n = k) \in BOOLEAN
  OBVIOUS
<1>6. QED
  BY <1>1, <1>2, <1>3, <1>4, <1>5 DEF ansi_sgr_param

LEMMA AnsiTypes ==
  ASSUME NEW s \in ParserState, NEW b \in Octet
  PROVE  handle_ansi_char(s, b) \in ParserState
<1>1. ASSUME b \in ch.zero .. ch.nine
      PROVE  handle_ansi_digit(s, b - ch.zero) \in ParserState
  <2>1. mul10_add_c(s.p0, b - ch.zero) \in Octet
        /\ mul10_add_c(s.p1, b - ch.zero) \in Octet
    BY <1>1, SMTT(30) DEF mul10_add_c, Octet, ParserState, ch
  <2>2. QED
    BY <2>1 DEF handle_ansi_digit, ParserState
<1>2. handle_ansi_semicolon(s) \in ParserState
  BY DEF handle_ansi_semicolon, ParserState
<1>3. handle_ansi_final(s, b) \in ParserState
  <2>1. To(s, 0) \in ParserState
    BY ToTypes
  <2>2. ansi_sgr(To(s, 0)) \in ParserState
    <3> DEFINE t == To(s, 0)
    <3>1. t \in ParserState
      BY <2>1
    <3> HIDE DEF t
    <3>2. t.attr \in Attr /\ t.p0 \in Octet /\ t.p1 \in Octet
      BY <3>1 DEF ParserState
    <3>3. ansi_sgr_param(t.attr, t.p0) \in Attr
          /\ ansi_sgr_param(ansi_sgr_param(t.attr, t.p0), t.p1) \in Attr
      BY <3>2, SgrTypes
    <3>4. ansi_sgr(t) \in ParserState
      BY <3>1, <3>3 DEF ansi_sgr, ParserState
    <3>5. QED BY <3>4 DEF t
  <2>3. s.p0 \in Nat /\ s.p1 \in Nat
    BY DEF ParserState, Octet
  <2>4. << >> \in Seq(Nat) /\ <<s.p0>> \in Seq(Nat) /\ <<s.p0, s.p1>> \in Seq(Nat)
    BY <2>3, ArgsTypes
  <2>5. \A what \in EffectNames :
          /\ Does(To(s, 0), what, << >>) \in ParserState
          /\ Does(To(s, 0), what, <<s.p0>>) \in ParserState
          /\ Does(To(s, 0), what, <<s.p0, s.p1>>) \in ParserState
    BY <2>1, <2>4, DoesTypes
  <2>6. QED
    BY <2>1, <2>2, <2>5 DEF handle_ansi_final, EffectNames
<1>4. QED
  BY <1>1, <1>2, <1>3 DEF handle_ansi_char

LEMMA HandleTypes ==
  ASSUME NEW s \in ParserState, NEW b \in Octet
  PROVE  handle_char(s, b) \in ParserState
<1>1. s.state \in {0, 1, 2, 3, 4, 5}
  BY DEF ParserState
<1>2. QED
  BY <1>1, PlainTypes, GroupTypes, OpTypes, HexTypes, AnsiTypes DEF handle_char

-----------------------------------------------------------------------------
(* Bytes one after the other. *)

LEMMA LeadsNowhere ==
  ASSUME NEW s \in ParserState
  PROVE  Leads(s, << >>, s)
<1> DEFINE f == [i \in 0 .. 0 |-> s]
<1>1. Len(<< >>) = 0
  OBVIOUS
<1>2. f \in [0 .. 0 -> ParserState] /\ f[0] = s
  OBVIOUS
<1> HIDE DEF f
<1>3. QED
  BY <1>1, <1>2 DEF Leads

LEMMA LeadsOn ==
  ASSUME NEW s, NEW t \in Seq(Octet), NEW u, NEW b \in Octet,
         Leads(s, t, u)
  PROVE  /\ u \in ParserState
         /\ Leads(s, Append(t, b), handle_char(u, b))
<1> DEFINE n == Len(t)
           v == handle_char(u, b)
           w == Append(t, b)
<1>0. n \in Nat /\ Len(w) = n + 1 /\ w[n + 1] = b /\ \A i \in 1 .. n : w[i] = t[i]
  OBVIOUS
<1>1. PICK f \in [0 .. n -> ParserState] :
        /\ f[0] = s /\ f[n] = u
        /\ \A i \in 1 .. n : f[i] = handle_char(f[i - 1], t[i])
  BY DEF Leads
<1>2. u \in ParserState
  BY <1>0, <1>1
<1>3. v \in ParserState
  BY <1>2, HandleTypes
<1> DEFINE g == [i \in 0 .. (n + 1) |-> IF i = n + 1 THEN v ELSE f[i]]
<1> HIDE DEF n, v, w
<1>4. g \in [0 .. (n + 1) -> ParserState] /\ g[0] = s /\ g[n + 1] = v
  BY <1>0, <1>1, <1>3
<1>5. ASSUME NEW i \in 1 .. (n + 1)
      PROVE  g[i] = handle_char(g[i - 1], w[i])
  <2>1. CASE i = n + 1
    BY <1>0, <1>1, <2>1 DEF v
  <2>2. CASE i # n + 1
    <3>1. i \in 1 .. n /\ i - 1 \in 0 .. n /\ i \in 0 .. n
      BY <1>0, <2>2
    <3>2. g[i] = f[i] /\ g[i - 1] = f[i - 1] /\ w[i] = t[i]
      BY <1>0, <3>1
    <3>3. QED BY <1>1, <3>1, <3>2
  <2>3. QED BY <2>1, <2>2
<1>6. Leads(s, w, v)
  <2> HIDE DEF g
  <2>1. QED BY <1>0, <1>4, <1>5 DEF Leads
<1>7. QED
  BY <1>2, <1>6 DEF w, v

(* The first byte may be taken off. *)
LEMMA LeadsRest ==
  ASSUME NEW s, NEW t \in Seq(Octet), NEW u, t # << >>, Leads(s, t, u)
  PROVE  /\ Leads(handle_char(s, Head(t)), Tail(t), u)
         /\ Len(t) = 1 => u = handle_char(s, Head(t))
<1> DEFINE n == Len(t)
           r == Tail(t)
<1>0. /\ n \in Nat \ {0} /\ Head(t) = t[1]
      /\ Len(r) = n - 1 /\ \A i \in 1 .. (n - 1) : r[i] = t[i + 1]
  OBVIOUS
<1>1. PICK f \in [0 .. n -> ParserState] :
        /\ f[0] = s /\ f[n] = u
        /\ \A i \in 1 .. n : f[i] = handle_char(f[i - 1], t[i])
  BY DEF Leads
<1> DEFINE g == [i \in 0 .. (n - 1) |-> f[i + 1]]
<1> HIDE DEF n, r
<1>2. f[1] = handle_char(s, Head(t))
  <2>1. 1 \in 1 .. n /\ 1 - 1 = 0
    BY <1>0
  <2>2. QED BY <1>0, <1>1, <2>1
<1>3. /\ g \in [0 .. (n - 1) -> ParserState]
      /\ g[0] = f[1] /\ g[n - 1] = u
  BY <1>0, <1>1
<1>4. ASSUME NEW i \in 1 .. (n - 1)
      PROVE  g[i] = handle_char(g[i - 1], r[i])
  <2>1. i + 1 \in 1 .. n /\ i \in 0 .. (n - 1) /\ i - 1 \in 0 .. (n - 1)
        /\ (i + 1) - 1 = i /\ (i - 1) + 1 = i
    BY <1>0
  <2>2. f[i + 1] = handle_char(f[(i + 1) - 1], t[i + 1])
    BY <1>1, <2>1
  <2>3. g[i] = f[i + 1] /\ g[i - 1] = f[i] /\ r[i] = t[i + 1]
    BY <1>0, <2>1
  <2>4. QED BY <2>1, <2>2, <2>3
<1>5. Leads(f[1], r, u)
  <2> HIDE DEF g
  <2>1. QED BY <1>0, <1>3, <1>4 DEF Leads
<1>6. n = 1 => u = f[1]
  BY <1>1
<1>7. QED
  BY <1>2, <1>5, <1>6 DEF n, r

-----------------------------------------------------------------------------
(* ESC [ and parameters.                                                   *)

(* The parser u has come from s, not having done anything since, and is    *)
(* at parameter i, which is so far m; the other one is n.                  *)
Collecting(u, s, i, m, n) ==
  /\ u \in ParserState /\ u.state = 5 /\ u.index = i
  /\ i = 0 => u.p0 = m /\ u.p1 = n
  /\ i = 1 => u.p1 = m /\ u.p0 = n
  /\ u.attr = s.attr /\ u.did = s.did

LEMMA DigitCollects ==
  ASSUME NEW u, NEW s, NEW i \in {0, 1}, NEW m, NEW n, NEW d \in 0 .. 9,
         Collecting(u, s, i, m, n)
  PROVE  Collecting(handle_char(u, ch.zero + d), s, i, mul10_add_c(m, d), n)
<1> DEFINE b == ch.zero + d
           v == handle_char(u, b)
<1>1. b \in ch.zero .. ch.nine /\ b \notin {ch.query, ch.semicolon}
      /\ b - ch.zero = d /\ b \in Octet
  BY DEF ch, Octet
<1>2. u \in ParserState /\ u.state = 5
  BY DEF Collecting
<1>3. v = handle_ansi_digit(u, d)
  <2>1. handle_char(u, b) = handle_ansi_char(u, b)
    BY <1>2 DEF handle_char
  <2>2. handle_ansi_char(u, b) = handle_ansi_digit(u, b - ch.zero)
    <3> HIDE DEF b
    <3>1. QED BY <1>1 DEF handle_ansi_char
  <2>3. QED BY <1>1, <2>1, <2>2
<1>4. v \in ParserState
  BY <1>1, <1>2, HandleTypes
<1> HIDE DEF v, b
<1>5. QED
  <2> DEFINE k == mul10_add_c(m, d)
  <2> HIDE DEF k
  <2>1. CASE i = 0
    <3>1. v = [u EXCEPT !.p0 = k]
      BY <1>3, <2>1 DEF handle_ansi_digit, Collecting, k
    <3>2. Collecting(v, s, i, k, n)
      BY <1>4, <2>1, <3>1 DEF Collecting, ParserState
    <3>3. QED BY <3>2 DEF k, v, b
  <2>2. CASE i = 1
    <3>1. v = [u EXCEPT !.p1 = k]
      BY <1>3, <2>2 DEF handle_ansi_digit, Collecting, k
    <3>2. Collecting(v, s, i, k, n)
      BY <1>4, <2>2, <3>1 DEF Collecting, ParserState
    <3>3. QED BY <3>2 DEF k, v, b
  <2>3. QED BY <2>1, <2>2

(* The digits of a number no byte is too small for give the number. *)
LEMMA DecimalCollects ==
  ASSUME NEW s0, NEW t \in Seq(Octet), NEW u, Leads(s0, t, u),
         NEW s, NEW i \in {0, 1}, NEW n, Collecting(u, s, i, 0, n),
         NEW k \in Octet
  PROVE  /\ Decimal(k) \in Seq(Octet)
         /\ \E v : /\ Leads(s0, t \o Decimal(k), v)
                   /\ Collecting(v, s, i, k, n)
<1> DEFINE digit(d) == ch.zero + d
<1>0. \A d \in 0 .. 9 : digit(d) \in Octet
  BY DEF ch, Octet
<1>1. CASE k < 10
  <2>1. k \in 0 .. 9 /\ mul10_add_c(0, k) = k
    BY <1>1 DEF Octet, mul10_add_c
  <2>2. Decimal(k) = <<digit(k)>>
    BY <1>1 DEF Decimal
  <2> HIDE DEF digit
  <2>3. digit(k) \in Octet
    BY <1>0, <2>1
  <2>4. t \o Decimal(k) = Append(t, digit(k)) /\ Decimal(k) \in Seq(Octet)
    BY <2>2, <2>3
  <2>5. Collecting(handle_char(u, digit(k)), s, i, k, n)
    <3>1. Collecting(handle_char(u, digit(k)), s, i, mul10_add_c(0, k), n)
      BY <2>1, DigitCollects DEF digit
    <3>2. QED BY <2>1, <3>1
  <2>6. Leads(s0, Append(t, digit(k)), handle_char(u, digit(k)))
    BY <2>3, LeadsOn
  <2>7. QED BY <2>4, <2>5, <2>6
<1>2. CASE k >= 10 /\ k < 100
  <2> DEFINE x == k \div 10
             y == k % 10
  <2>1. x \in 0 .. 9 /\ y \in 0 .. 9 /\ mul10_add_c(mul10_add_c(0, x), y) = k
    BY <1>2 DEF Octet, mul10_add_c
  <2>2. Decimal(k) = <<digit(x), digit(y)>>
    BY <1>2 DEF Decimal, Octet
  <2> HIDE DEF digit, x, y
  <2>3. digit(x) \in Octet /\ digit(y) \in Octet
    BY <1>0, <2>1
  <2> DEFINE t1 == Append(t, digit(x))
             u1 == handle_char(u, digit(x))
             u2 == handle_char(u1, digit(y))
  <2>4. t \o Decimal(k) = Append(t1, digit(y)) /\ Decimal(k) \in Seq(Octet)
        /\ t1 \in Seq(Octet)
    BY <2>2, <2>3
  <2>5. Collecting(u1, s, i, mul10_add_c(0, x), n)
    BY <2>1, DigitCollects DEF digit
  <2>6. Collecting(u2, s, i, k, n)
    <3> HIDE DEF u1
    <3>1. Collecting(u2, s, i, mul10_add_c(mul10_add_c(0, x), y), n)
      BY <2>1, <2>5, DigitCollects DEF digit
    <3>2. QED BY <2>1, <3>1
  <2>7. Leads(s0, t1, u1)
    BY <2>3, LeadsOn
  <2>8. Leads(s0, Append(t1, digit(y)), u2)
    <3> HIDE DEF t1, u1
    <3>1. QED BY <2>3, <2>4, <2>7, LeadsOn
  <2>9. QED BY <2>4, <2>6, <2>8
<1>3. CASE k >= 100
  <2> DEFINE x == k \div 100
             y == (k \div 10) % 10
             z == k % 10
  <2>1. /\ x \in 0 .. 9 /\ y \in 0 .. 9 /\ z \in 0 .. 9
        /\ mul10_add_c(mul10_add_c(mul10_add_c(0, x), y), z) = k
    <3> DEFINE q == k \div 10
    <3>1. q \in Nat /\ z \in 0 .. 9 /\ k = 10 * q + z
      BY DEF Octet
    <3>2. x \in 0 .. 2 /\ 100 * x <= k /\ k < 100 * x + 100
      BY DEF Octet
    <3> HIDE DEF x, z
    <3>3. 10 * x <= q /\ q < 10 * x + 10
      BY <3>1, <3>2 DEF Octet
    <3>4. y = q - 10 * x /\ y \in 0 .. 9
      <4> DEFINE r == q - 10 * x
      <4>1. r \in 0 .. 9 /\ q = 10 * x + r
        <5> HIDE DEF q
        <5>1. x \in Nat /\ q \in Nat /\ 10 * x <= q /\ q < 10 * x + 10
          BY <3>1, <3>2, <3>3
        <5>2. QED BY <5>1
      <4> HIDE DEF r, q
      <4>2. (10 * x + r) % 10 = r
        BY <3>2, <4>1
      <4>3. y = r
        BY <4>1, <4>2 DEF q
      <4>4. QED BY <4>1, <4>3 DEF r
    <3> HIDE DEF y, q
    <3>5. mul10_add_c(0, x) = x
      BY <3>2 DEF mul10_add_c
    <3>6. mul10_add_c(x, y) = 10 * x + y
      <4> DEFINE w == 10 * x + y
      <4>1. w \in 0 .. 29
        <5>1. x \in 0 .. 2 /\ y \in 0 .. 9
          BY <3>2, <3>4
        <5>2. QED BY ONLY <5>1 DEF w
      <4> HIDE DEF w
      <4>2. w % 256 = w
        BY <4>1
      <4>3. QED BY <4>2 DEF w, mul10_add_c
    <3>7. mul10_add_c(10 * x + y, z) = k
      BY <3>1, <3>2, <3>4 DEF mul10_add_c, Octet
    <3>8. QED
      BY <3>1, <3>2, <3>4, <3>5, <3>6, <3>7
  <2>2. Decimal(k) = <<digit(x), digit(y), digit(z)>>
    BY <1>3 DEF Decimal, Octet
  <2> HIDE DEF digit, x, y, z
  <2>3. digit(x) \in Octet /\ digit(y) \in Octet /\ digit(z) \in Octet
    BY <1>0, <2>1
  <2> DEFINE t1 == Append(t, digit(x))
             t2 == Append(t1, digit(y))
             u1 == handle_char(u, digit(x))
             u2 == handle_char(u1, digit(y))
             u3 == handle_char(u2, digit(z))
  <2>4. t \o Decimal(k) = Append(t2, digit(z)) /\ Decimal(k) \in Seq(Octet)
        /\ t1 \in Seq(Octet) /\ t2 \in Seq(Octet)
    BY <2>2, <2>3
  <2>5. Collecting(u1, s, i, mul10_add_c(0, x), n)
    BY <2>1, DigitCollects DEF digit
  <2>6. Collecting(u2, s, i, mul10_add_c(mul10_add_c(0, x), y), n)
    <3> HIDE DEF u1
    <3>1. QED BY <2>1, <2>5, DigitCollects DEF digit
  <2>7. Collecting(u3, s, i, k, n)
    <3> HIDE DEF u2
    <3>1. Collecting(u3, s, i,
                     mul10_add_c(mul10_add_c(mul10_add_c(0, x), y), z), n)
      BY <2>1, <2>6, DigitCollects DEF digit
    <3>2. QED BY <2>1, <3>1
  <2>8. Leads(s0, t1, u1)
    BY <2>3, LeadsOn
  <2>9. Leads(s0, t2, u2)
    <3> HIDE DEF t1, u1
    <3>1. QED BY <2>3, <2>4, <2>8, LeadsOn
  <2>10. Leads(s0, Append(t2, digit(z)), u3)
    <3> HIDE DEF t2, u2
    <3>1. QED BY <2>3, <2>4, <2>9, LeadsOn
  <2>11. QED BY <2>4, <2>7, <2>10
<1>4. QED
  BY <1>1, <1>2, <1>3 DEF Octet

LEMMA TwoBytes ==
  ASSUME NEW S, NEW a \in S, NEW b \in S
  PROVE  /\ << >> \in Seq(S) /\ Append(<< >>, a) = <<a>>
         /\ <<a>> \in Seq(S) /\ Append(<<a>>, b) = <<a, b>>
         /\ <<a, b>> \in Seq(S)
<1>1. << >> \in Seq(S) /\ <<a>> \in Seq(S) /\ <<a, b>> \in Seq(S)
  OBVIOUS
<1>2. Append(<< >>, a) = <<a>>
  OBVIOUS
<1>3. \A t \in Seq(S) : t \o <<a, b>> = Append(Append(t, a), b)
  OBVIOUS
<1>4. << >> \o <<a, b>> = <<a, b>>
  OBVIOUS
<1>5. Append(<<a>>, b) = <<a, b>>
  BY <1>1, <1>2, <1>3, <1>4
<1>6. QED
  BY <1>1, <1>2, <1>5

LEMMA CsiOpens ==
  ASSUME NEW s \in ParserState, s.state = 0
  PROVE  /\ <<ESC, ch.bracket>> \in Seq(Octet)
         /\ \E u : Leads(s, <<ESC, ch.bracket>>, u) /\ Collecting(u, s, 0, 0, 0)
<1> DEFINE v == To(s, 1)
           u == handle_ansi_start(v)
<1>1. ESC \in Octet /\ ch.bracket \in Octet
  BY DEF ESC, ch, Octet
<1>2. handle_char(s, ESC) = v
  BY DEF handle_char, handle_plain, ESC, CR
<1>3. v \in ParserState /\ v.state = 1 /\ v.attr = s.attr /\ v.did = s.did
  BY ToTypes DEF To, ParserState
<1> HIDE DEF v
<1>4. handle_char(v, ch.bracket) = u
  BY <1>3 DEF handle_char, handle_sub_command_group, ch
<1>5. Leads(s, <<ESC>>, v)
  <2>1. << >> \in Seq(Octet) /\ Append(<< >>, ESC) = <<ESC>>
    BY <1>1
  <2>2. Leads(s, << >>, s)
    BY LeadsNowhere
  <2>3. Leads(s, Append(<< >>, ESC), handle_char(s, ESC))
    BY <1>1, <2>1, <2>2, LeadsOn
  <2>4. QED BY <1>2, <2>1, <2>3
<1>6. Leads(s, <<ESC, ch.bracket>>, u)
  <2>1. <<ESC>> \in Seq(Octet)
        /\ Append(<<ESC>>, ch.bracket) = <<ESC, ch.bracket>>
    BY <1>1, TwoBytes
  <2>2. Leads(s, Append(<<ESC>>, ch.bracket), handle_char(v, ch.bracket))
    BY <1>1, <1>5, <2>1, LeadsOn
  <2>3. QED BY <1>4, <2>1, <2>2
<1>7. u \in ParserState
  <2>1. handle_char(v, ch.bracket) \in ParserState
    BY <1>1, <1>3, HandleTypes
  <2>2. QED BY <1>4, <2>1
<1>8. Collecting(u, s, 0, 0, 0)
  <2>1. u = [v EXCEPT !.p0 = 0, !.p1 = 0, !.index = 0, !.state = 5]
    BY DEF handle_ansi_start
  <2> HIDE DEF u
  <2>2. u.state = 5 /\ u.index = 0 /\ u.p0 = 0 /\ u.p1 = 0
        /\ u.attr = v.attr /\ u.did = v.did
    BY <1>3, <2>1 DEF ParserState
  <2>3. QED BY <1>3, <1>7, <2>2 DEF Collecting
<1>9. QED
  BY <1>1, <1>6, <1>8

LEMMA SemicolonCollects ==
  ASSUME NEW u, NEW s, NEW m, NEW n, Collecting(u, s, 0, m, n)
  PROVE  Collecting(handle_char(u, ch.semicolon), s, 1, n, m)
<1> DEFINE v == handle_char(u, ch.semicolon)
<1>1. u \in ParserState /\ u.state = 5
  BY DEF Collecting
<1>2. v = [u EXCEPT !.index = 1]
  BY <1>1 DEF handle_char, handle_ansi_char, handle_ansi_semicolon, ch
<1>3. v \in ParserState
  <2>1. ch.semicolon \in Octet
    BY DEF ch, Octet
  <2>2. QED BY <1>1, <2>1, HandleTypes
<1> HIDE DEF v
<1>4. Collecting(v, s, 1, n, m)
  BY <1>2, <1>3 DEF Collecting, ParserState
<1>5. QED
  BY <1>4 DEF v

(* The parser u has come from s and has these parameters.                  *)
Collected(u, s, params) ==
  /\ u \in ParserState /\ u.state = 5
  /\ u.index = IF Len(params) = 2 THEN 1 ELSE 0
  /\ u.p0 = Given(params, 1) /\ u.p1 = Given(params, 2)
  /\ u.attr = s.attr /\ u.did = s.did

LEMMA ListsCases ==
  ASSUME NEW S, NEW params \in Lists(S)
  PROVE  \/ params = << >>
         \/ \E n \in S : params = <<n>>
         \/ \E m \in S, n \in S : params = <<m, n>>
BY DEF Lists

LEMMA ThreeParts ==
  ASSUME NEW S, NEW t \in Seq(S), NEW a \in Seq(S), NEW b \in Seq(S), NEW e \in S
  PROVE  t \o ((a \o <<e>>) \o b) = Append(t \o a, e) \o b
<1> DEFINE c == a \o <<e>>
<1>1. c = Append(a, e) /\ c \in Seq(S)
  OBVIOUS
<1>2. t \o c = Append(t \o a, e)
  BY <1>1
<1>3. \A d \in Seq(S) : t \o (d \o b) = (t \o d) \o b
  OBVIOUS
<1>4. QED
  BY <1>1, <1>2, <1>3

LEMMA CsiCollects ==
  ASSUME NEW s \in ParserState, s.state = 0,
         NEW params \in Lists(Octet), NEW final \in Octet
  PROVE  /\ Csi(params, final) \in Seq(Octet) /\ Csi(params, final) # << >>
         /\ \E u : /\ Collected(u, s, params)
                   /\ Leads(s, Csi(params, final), handle_char(u, final))
<1> DEFINE t == <<ESC, ch.bracket>>
<1>1. t \in Seq(Octet)
  BY CsiOpens
<1>2. PICK u0 : Leads(s, t, u0) /\ Collecting(u0, s, 0, 0, 0)
  BY CsiOpens
<1> HIDE DEF t
<1> DEFINE Found(r, u) ==
             /\ Csi(params, final) = r \o <<final>>
             /\ Leads(s, r, u) /\ Collected(u, s, params)
<1>3. \E r \in Seq(Octet) : \E u : Found(r, u)
  <2>1. CASE params = << >>
    <3>1. Csi(params, final) = (t \o << >>) \o <<final>>
      BY <2>1 DEF Csi, t
    <3>2. t \o << >> = t
      BY <1>1
    <3>3. Collected(u0, s, params)
      BY <1>2, <2>1 DEF Collecting, Collected, Given
    <3>4. QED BY <1>1, <1>2, <3>1, <3>2, <3>3
  <2>2. ASSUME NEW m \in Octet, params = <<m>>
        PROVE  \E r \in Seq(Octet) : \E u : Found(r, u)
    <3>1. Len(params) = 1 /\ params[1] = m /\ params # << >>
      BY <2>2
    <3>2. Csi(params, final) = (t \o Decimal(m)) \o <<final>>
      BY <3>1 DEF Csi, t
    <3>3. PICK u : Leads(s, t \o Decimal(m), u) /\ Collecting(u, s, 0, m, 0)
      BY <1>1, <1>2, DecimalCollects
    <3>4. Collected(u, s, params)
      BY <3>1, <3>3 DEF Collecting, Collected, Given
    <3>5. t \o Decimal(m) \in Seq(Octet)
      <4>1. Decimal(m) \in Seq(Octet)
        BY <1>1, <1>2, DecimalCollects
      <4>2. QED BY <1>1, <4>1
    <3>6. QED BY <3>2, <3>3, <3>4, <3>5
  <2>3. ASSUME NEW m \in Octet, NEW n \in Octet, params = <<m, n>>
        PROVE  \E r \in Seq(Octet) : \E u : Found(r, u)
    <3> DEFINE t1 == t \o Decimal(m)
               t2 == Append(t1, ch.semicolon)
               t3 == t2 \o Decimal(n)
    <3>1. Len(params) = 2 /\ params[1] = m /\ params[2] = n /\ params # << >>
      BY <2>3
    <3>2. ch.semicolon \in Octet
      BY DEF ch, Octet
    <3>3. PICK u1 : Leads(s, t1, u1) /\ Collecting(u1, s, 0, m, 0)
      BY <1>1, <1>2, DecimalCollects
    <3>4. Decimal(m) \in Seq(Octet) /\ t1 \in Seq(Octet)
      <4>1. Decimal(m) \in Seq(Octet)
        BY <1>1, <1>2, DecimalCollects
      <4>2. QED BY <1>1, <4>1
    <3> DEFINE u2 == handle_char(u1, ch.semicolon)
    <3> HIDE DEF t1
    <3>5. Leads(s, t2, u2) /\ t2 \in Seq(Octet)
      BY <3>2, <3>3, <3>4, LeadsOn
    <3>6. Collecting(u2, s, 1, 0, m)
      BY <3>3, SemicolonCollects
    <3> HIDE DEF t2, u2
    <3>7. Decimal(n) \in Seq(Octet)
      BY <3>5, <3>6, DecimalCollects
    <3>8. PICK u3 : Leads(s, t3, u3) /\ Collecting(u3, s, 1, n, m)
      BY <3>5, <3>6, DecimalCollects
    <3>9. Csi(params, final)
            = (t \o ((Decimal(m) \o <<ch.semicolon>>) \o Decimal(n))) \o <<final>>
      BY <3>1 DEF Csi, t
    <3>10. t \o ((Decimal(m) \o <<ch.semicolon>>) \o Decimal(n)) = t3
      BY <1>1, <3>2, <3>4, <3>7, ThreeParts, SMTT(30) DEF t1, t2
    <3>11. t3 \in Seq(Octet)
      BY <3>5, <3>7
    <3>12. Collected(u3, s, params)
      BY <3>1, <3>8 DEF Collecting, Collected, Given
    <3>13. QED
      <4> HIDE DEF t3
      <4>1. Csi(params, final) = t3 \o <<final>>
        BY <3>9, <3>10
      <4>2. QED BY <3>8, <3>11, <3>12, <4>1
  <2>4. QED
    BY <2>1, <2>2, <2>3, ListsCases
<1>4. PICK r \in Seq(Octet) : \E u : Found(r, u)
  BY <1>3
<1>5. PICK u : Found(r, u)
  BY <1>4
<1>6. r \o <<final>> = Append(r, final) /\ Append(r, final) # << >>
      /\ Append(r, final) \in Seq(Octet)
  OBVIOUS
<1>7. Leads(s, Append(r, final), handle_char(u, final))
  BY <1>5, LeadsOn
<1>8. QED
  BY <1>5, <1>6, <1>7

-----------------------------------------------------------------------------
(* ESC [ m.                                                                *)

Said(params, S) == {i \in DOMAIN params : params[i] \in S}
Newest(params, S) ==
  params[CHOOSE i \in Said(params, S) : \A j \in Said(params, S) : j <= i]

Colors == {0, 39} \cup (30 .. 37)
IsOn(n) == n \in {5, 7, 8, 11}
ColorOf(n) == IF n \in 30 .. 37 THEN n - 30 ELSE 7

(* The attribute after one parameter, field by field. *)
Applied(a, n) ==
  [color   |-> IF n \in Colors THEN ColorOf(n) ELSE a.color,
   inverse |-> IF n \in {0, 7, 27} THEN IsOn(n) ELSE a.inverse,
   font1   |-> IF n \in {0, 10, 11} THEN IsOn(n) ELSE a.font1,
   hidden  |-> IF n \in {0, 8, 28} THEN IsOn(n) ELSE a.hidden,
   blink   |-> IF n \in {0, 5, 25} THEN IsOn(n) ELSE a.blink]

LEMMA SgrApplies ==
  ASSUME NEW a \in Attr, NEW n \in Octet
  PROVE  ansi_sgr_param(a, n) = Applied(a, n)
<1> DEFINE r == ansi_sgr_param(a, n)
<1>1. r \in Attr /\ n \in Nat
  BY SgrTypes DEF Octet
<1>2. /\ r.color = Applied(a, n).color
      /\ r.inverse = Applied(a, n).inverse
      /\ r.font1 = Applied(a, n).font1
      /\ r.hidden = Applied(a, n).hidden
      /\ r.blink = Applied(a, n).blink
  <2>1. CASE n = 0
    <3>1. r = ATTR_WHITE
      BY <2>1 DEF ansi_sgr_param
    <3>2. ATTR_WHITE.color = 7 /\ ~ATTR_WHITE.inverse /\ ~ATTR_WHITE.font1
          /\ ~ATTR_WHITE.hidden /\ ~ATTR_WHITE.blink
      BY DEF ATTR_WHITE
    <3>3. ~IsOn(0) /\ ColorOf(0) = 7 /\ 0 \in Colors
      BY DEF IsOn, ColorOf, Colors
    <3>4. Applied(a, n).color = 7 /\ ~Applied(a, n).inverse
          /\ ~Applied(a, n).font1 /\ ~Applied(a, n).hidden /\ ~Applied(a, n).blink
      BY <2>1, <3>3 DEF Applied
    <3>5. /\ r.inverse \in BOOLEAN /\ r.font1 \in BOOLEAN
          /\ r.hidden \in BOOLEAN /\ r.blink \in BOOLEAN
      BY <1>1 DEF Attr
    <3>6. /\ Applied(a, n).inverse \in BOOLEAN /\ Applied(a, n).font1 \in BOOLEAN
          /\ Applied(a, n).hidden \in BOOLEAN /\ Applied(a, n).blink \in BOOLEAN
      BY <2>1 DEF Applied, IsOn
    <3> HIDE DEF r
    <3>7. QED BY <3>1, <3>2, <3>4, <3>5, <3>6
  <2>2. CASE n \in {5, 25}
    BY <2>2 DEF ansi_sgr_param, Applied, Colors, IsOn, ColorOf, Attr
  <2>3. CASE n \in {7, 27}
    BY <2>3 DEF ansi_sgr_param, Applied, Colors, IsOn, ColorOf, Attr
  <2>4. CASE n \in {8, 28}
    BY <2>4 DEF ansi_sgr_param, Applied, Colors, IsOn, ColorOf, Attr
  <2>5. CASE n \in {10, 11}
    BY <2>5 DEF ansi_sgr_param, Applied, Colors, IsOn, ColorOf, Attr
  <2>6. CASE n \in 30 .. 37
    BY <2>6 DEF ansi_sgr_param, Applied, Colors, IsOn, ColorOf, Attr
  <2>7. CASE n = 39
    BY <2>7 DEF ansi_sgr_param, Applied, Colors, IsOn, ColorOf, Attr
  <2>8. CASE n \notin {0, 5, 25, 7, 27, 8, 28, 10, 11, 39} \cup (30 .. 37)
    <3>1. r = a
      BY <2>8 DEF ansi_sgr_param
    <3>2. QED
      BY <2>8, <3>1 DEF Applied, Colors
  <2>9. QED
    BY <2>1, <2>2, <2>3, <2>4, <2>5, <2>6, <2>7, <2>8
<1>3. r = [color |-> r.color, inverse |-> r.inverse, font1 |-> r.font1,
           hidden |-> r.hidden, blink |-> r.blink]
  <2> HIDE DEF r
  <2> QED BY <1>1 DEF Attr
<1>4. QED
  <2> HIDE DEF r
  <2>1. r = Applied(a, n)
    BY <1>2, <1>3 DEF Applied
  <2>2. QED BY <2>1 DEF r

LEMMA PenFields ==
  ASSUME NEW params, NEW a
  PROVE  LET C == Colors
             I == {0, 7, 27}
             F == {0, 10, 11}
             H == {0, 8, 28}
             B == {0, 5, 25}
         IN  Pen(params, a) =
               [color   |-> IF Said(params, C) = {} THEN a.color
                            ELSE ColorOf(Newest(params, C)),
                inverse |-> IF Said(params, I) = {} THEN a.inverse
                            ELSE IsOn(Newest(params, I)),
                font1   |-> IF Said(params, F) = {} THEN a.font1
                            ELSE IsOn(Newest(params, F)),
                hidden  |-> IF Said(params, H) = {} THEN a.hidden
                            ELSE IsOn(Newest(params, H)),
                blink   |-> IF Said(params, B) = {} THEN a.blink
                            ELSE IsOn(Newest(params, B))]
BY DEF Pen, Latest, Said, Newest, Colors, IsOn, ColorOf

LEMMA OneSaid ==
  ASSUME NEW n, NEW S
  PROVE  /\ n \notin S => Said(<<n>>, S) = {}
         /\ n \in S => Said(<<n>>, S) # {} /\ Newest(<<n>>, S) = n
<1>1. DOMAIN <<n>> = {1} /\ <<n>>[1] = n
  OBVIOUS
<1>2. ASSUME n \notin S PROVE Said(<<n>>, S) = {}
  BY <1>1, <1>2 DEF Said
<1>3. ASSUME n \in S PROVE Said(<<n>>, S) # {} /\ Newest(<<n>>, S) = n
  <2>1. Said(<<n>>, S) = {1}
    BY <1>1, <1>3 DEF Said
  <2>2. (CHOOSE i \in {1} : \A j \in {1} : j <= i) = 1
    OBVIOUS
  <2>3. QED
    BY <1>1, <2>1, <2>2 DEF Newest
<1>4. QED
  BY <1>2, <1>3

LEMMA TwoSaid ==
  ASSUME NEW m, NEW n, NEW S
  PROVE  /\ m \notin S /\ n \notin S => Said(<<m, n>>, S) = {}
         /\ n \in S => Said(<<m, n>>, S) # {} /\ Newest(<<m, n>>, S) = n
         /\ m \in S /\ n \notin S =>
              Said(<<m, n>>, S) # {} /\ Newest(<<m, n>>, S) = m
<1> DEFINE p == <<m, n>>
<1>1. DOMAIN p = {1, 2} /\ p[1] = m /\ p[2] = n
  OBVIOUS
<1> HIDE DEF p
<1>2. ASSUME m \notin S, n \notin S PROVE Said(p, S) = {}
  BY <1>1, <1>2 DEF Said
<1>3. ASSUME n \in S PROVE Said(p, S) # {} /\ Newest(p, S) = n
  <2> DEFINE k == CHOOSE i \in Said(p, S) : \A j \in Said(p, S) : j <= i
  <2>1. 2 \in Said(p, S) /\ Said(p, S) \subseteq {1, 2}
    BY <1>1, <1>3 DEF Said
  <2>2. \E i \in Said(p, S) : \A j \in Said(p, S) : j <= i
    BY <2>1
  <2>3. k \in Said(p, S) /\ \A j \in Said(p, S) : j <= k
    BY <2>2
  <2>4. k = 2
    <3> HIDE DEF k
    <3> QED BY <2>1, <2>3
  <2>5. QED
    BY <1>1, <2>1, <2>4 DEF Newest
<1>4. ASSUME m \in S, n \notin S PROVE Said(p, S) # {} /\ Newest(p, S) = m
  <2>1. Said(p, S) = {1}
    BY <1>1, <1>4 DEF Said
  <2>2. (CHOOSE i \in {1} : \A j \in {1} : j <= i) = 1
    OBVIOUS
  <2>3. QED
    BY <1>1, <2>1, <2>2 DEF Newest
<1>5. QED
  BY <1>2, <1>3, <1>4 DEF p

(* What a list of parameters means is what applying them in turn gives.    *)
LEMMA PenApplies ==
  ASSUME NEW a \in Attr, NEW m, NEW n
  PROVE  /\ Pen(<<n>>, a) = Applied(a, n)
         /\ Pen(<<m, n>>, a) = Applied(Applied(a, m), n)
<1>1. Pen(<<n>>, a) = Applied(a, n)
  BY PenFields, OneSaid DEF Applied
<1>2. Pen(<<m, n>>, a) = Applied(Applied(a, m), n)
  BY PenFields, TwoSaid DEF Applied
<1>3. QED
  BY <1>1, <1>2

-----------------------------------------------------------------------------
(* Every sequence a program sends, at a parser at rest, means what it is   *)
(* said to mean.                                                           *)

AtRest(s) == s \in ParserState /\ s.state = 0 /\ s.did = << >>

Sound(s, bytes, did, attr) ==
  bytes \in Seq(Octet) /\ bytes # << >> /\ Means(s, bytes, did, attr)

LEMMA DoesFields ==
  ASSUME NEW s \in ParserState, s.did = << >>, s.state = 0,
         NEW what \in EffectNames, NEW args \in Seq(Nat)
  PROVE  LET u == Does(s, what, args)
         IN  /\ u \in ParserState /\ u.state = 0
             /\ u.attr = s.attr /\ u.did = Effect(what, args, s.attr)
<1> DEFINE e == [what |-> what, args |-> args, attr |-> s.attr]
           d == Append(s.did, e)
<1>1. d = <<e>>
  OBVIOUS
<1>2. Does(s, what, args) = [s EXCEPT !.did = d]
  BY DEF Does
<1>3. Does(s, what, args) \in ParserState
  BY DoesTypes
<1>4. <<e>> = Effect(what, args, s.attr)
  BY DEF Effect
<1> HIDE DEF d, e
<1>5. QED
  BY <1>1, <1>2, <1>3, <1>4 DEF ParserState

LEMMA ToRest ==
  ASSUME NEW s \in ParserState
  PROVE  /\ To(s, 0) \in ParserState /\ To(s, 0).state = 0
         /\ To(s, 0).did = s.did /\ To(s, 0).attr = s.attr
         /\ To(s, 0).p0 = s.p0 /\ To(s, 0).p1 = s.p1 /\ To(s, 0).index = s.index
BY ToTypes DEF To, ParserState

(* A single byte. *)
LEMMA ByteIsSound ==
  ASSUME NEW s, AtRest(s), NEW b \in Octet,
         NEW what \in EffectNames, NEW args \in Seq(Nat),
         handle_char(s, b) = Does(s, what, args)
  PROVE  Sound(s, <<b>>, Effect(what, args, s.attr), s.attr)
<1>1. s \in ParserState /\ s.state = 0 /\ s.did = << >>
  BY DEF AtRest
<1>2. Leads(s, << >>, s)
  BY <1>1, LeadsNowhere
<1>3. << >> \in Seq(Octet) /\ Append(<< >>, b) = <<b>> /\ <<b>> \in Seq(Octet)
  BY TwoBytes
<1>4. Leads(s, <<b>>, handle_char(s, b))
  BY <1>2, <1>3, LeadsOn
<1> DEFINE u == Does(s, what, args)
<1>5. /\ u \in ParserState /\ u.state = 0
      /\ u.attr = s.attr /\ u.did = Effect(what, args, s.attr)
  BY <1>1, DoesFields
<1> HIDE DEF u
<1>6. Leads(s, <<b>>, u)
  BY <1>4 DEF u
<1>7. <<b>> # << >>
  OBVIOUS
<1>8. QED
  BY <1>3, <1>5, <1>6, <1>7 DEF Sound, Means

(* A sequence that ends with a final byte. *)
Finals == Octet \ ((ch.zero .. ch.nine) \cup {ch.query, ch.semicolon})

LEMMA FinalIsSound ==
  ASSUME NEW s, AtRest(s), NEW params \in Lists(Octet), NEW final \in Finals,
         NEW what \in EffectNames, NEW args \in Seq(Nat),
         \A u : Collected(u, s, params) =>
                  handle_ansi_final(u, final) = Does(To(u, 0), what, args)
  PROVE  Sound(s, Csi(params, final), Effect(what, args, s.attr), s.attr)
<1> DEFINE bytes == Csi(params, final)
<1>1. s \in ParserState /\ s.state = 0 /\ s.did = << >> /\ final \in Octet
  BY DEF AtRest, Finals
<1>2. bytes \in Seq(Octet) /\ bytes # << >>
  BY <1>1, CsiCollects
<1>3. PICK u : Collected(u, s, params) /\ Leads(s, bytes, handle_char(u, final))
  BY <1>1, CsiCollects
<1> HIDE DEF bytes
<1>4. u \in ParserState /\ u.state = 5 /\ u.attr = s.attr /\ u.did = << >>
  BY <1>1, <1>3 DEF Collected
<1>5. handle_char(u, final) = handle_ansi_final(u, final)
  <2>1. handle_char(u, final) = handle_ansi_char(u, final)
    BY <1>4 DEF handle_char
  <2>2. final \notin ch.zero .. ch.nine /\ final # ch.query /\ final # ch.semicolon
    BY DEF Finals
  <2>3. handle_ansi_char(u, final) = handle_ansi_final(u, final)
    BY <2>2 DEF handle_ansi_char
  <2>4. QED BY <2>1, <2>3
<1> DEFINE t == To(u, 0)
           v == Does(t, what, args)
<1>6. t \in ParserState /\ t.state = 0 /\ t.did = << >> /\ t.attr = s.attr
  BY <1>4, ToRest
<1>7. handle_char(u, final) = v
  BY <1>3, <1>5
<1> HIDE DEF t
<1>8. /\ v \in ParserState /\ v.state = 0
      /\ v.attr = s.attr /\ v.did = Effect(what, args, s.attr)
  <2>1. /\ v \in ParserState /\ v.state = 0
        /\ v.attr = t.attr /\ v.did = Effect(what, args, t.attr)
    BY <1>6, DoesFields
  <2> HIDE DEF v
  <2>2. QED BY <1>6, <2>1
<1> HIDE DEF v
<1>9. Leads(s, bytes, v)
  BY <1>3, <1>7
<1>10. Sound(s, bytes, Effect(what, args, s.attr), s.attr)
  BY <1>2, <1>8, <1>9 DEF Sound, Means
<1>11. QED
  BY <1>10 DEF bytes

LEMMA OctetIsNat == Octet \subseteq Nat
BY DEF Octet

LEMMA ListsGrow ==
  ASSUME NEW S, NEW T, S \subseteq T
  PROVE  Lists(S) \subseteq Lists(T)
<1> SUFFICES ASSUME NEW p \in Lists(S) PROVE p \in Lists(T)
  OBVIOUS
<1>1. CASE p = << >>
  BY <1>1 DEF Lists
<1>2. ASSUME NEW n \in S, p = <<n>> PROVE p \in Lists(T)
  BY <1>2 DEF Lists
<1>3. CASE p \in S \X S
  BY <1>3 DEF Lists
<1>4. QED
  BY <1>1, <1>2, <1>3 DEF Lists

LEMMA GivenTypes ==
  ASSUME NEW params \in Lists(Octet)
  PROVE  Given(params, 1) \in Octet /\ Given(params, 2) \in Octet
<1>0. 0 \in Octet
  BY Values
<1>1. CASE params = << >>
  BY <1>0, <1>1 DEF Given
<1>2. ASSUME NEW n \in Octet, params = <<n>>
      PROVE  Given(params, 1) \in Octet /\ Given(params, 2) \in Octet
  BY <1>0, <1>2 DEF Given
<1>3. ASSUME NEW m \in Octet, NEW n \in Octet, params = <<m, n>>
      PROVE  Given(params, 1) \in Octet /\ Given(params, 2) \in Octet
  BY <1>3 DEF Given
<1>4. QED
  BY <1>1, <1>2, <1>3, ListsCases

LEMMA OneParameterIsSound ==
  ASSUME NEW s, AtRest(s), NEW f \in OneParameter,
         NEW params \in {<< >>} \cup {<<n>> : n \in Octet}
  PROVE  Sound(s, Csi(params, f[1]),
               Effect(f[2], <<Given(params, 1)>>, s.attr), s.attr)
<1>1. params \in Lists(Octet)
  BY DEF Lists
<1>2. f[1] \in Finals
  <2>1. f[1] \in {ch.A, ch.B, ch.C, ch.D, ch.E, ch.F, ch.G, ch.J, ch.K}
    BY DEF OneParameter
  <2>2. f[1] \in 65 .. 75
    BY <2>1 DEF ch
  <2>3. 65 .. 75 \subseteq Finals
    BY DEF Finals, Octet, ch
  <2>4. QED BY <2>2, <2>3
<1>3. f[2] \in EffectNames
  BY DEF OneParameter, EffectNames
<1>4. Given(params, 1) \in Nat
  <2>1. Given(params, 1) \in Octet
    BY <1>1, GivenTypes
  <2>2. QED BY <2>1, OctetIsNat
<1>5. <<Given(params, 1)>> \in Seq(Nat)
  BY <1>4, ArgsTypes
<1>6. ASSUME NEW u, Collected(u, s, params)
      PROVE  handle_ansi_final(u, f[1]) = Does(To(u, 0), f[2], <<Given(params, 1)>>)
  <2>1. u.p0 = Given(params, 1)
    BY <1>6 DEF Collected
  <2>2. handle_ansi_final(u, f[1]) = Does(To(u, 0), f[2], <<u.p0>>)
    BY DEF handle_ansi_final, OneParameter, ch
  <2>3. QED BY <2>1, <2>2
<1>7. QED
  BY <1>1, <1>2, <1>3, <1>5, <1>6, FinalIsSound

LEMMA PositionIsSound ==
  ASSUME NEW s, AtRest(s), NEW f \in {ch.H, ch.f}, NEW params \in Lists(Octet)
  PROVE  Sound(s, Csi(params, f),
               Effect("ansi_cursor_position",
                      <<Given(params, 1), Given(params, 2)>>, s.attr), s.attr)
<1> DEFINE args == <<Given(params, 1), Given(params, 2)>>
<1>1. f \in Finals
  BY DEF Finals, Octet, ch
<1>2. "ansi_cursor_position" \in EffectNames
  BY DEF EffectNames
<1>3. Given(params, 1) \in Nat /\ Given(params, 2) \in Nat
  BY GivenTypes DEF Octet
<1>4. args \in Seq(Nat)
  BY <1>3, ArgsTypes
<1>5. ASSUME NEW u, Collected(u, s, params)
      PROVE  handle_ansi_final(u, f) = Does(To(u, 0), "ansi_cursor_position", args)
  <2>1. u.p0 = Given(params, 1) /\ u.p1 = Given(params, 2)
    BY <1>5 DEF Collected
  <2>2. handle_ansi_final(u, f)
          = Does(To(u, 0), "ansi_cursor_position", <<u.p0, u.p1>>)
    BY DEF handle_ansi_final, ch
  <2>3. QED BY <2>1, <2>2
<1> HIDE DEF args
<1>6. Sound(s, Csi(params, f), Effect("ansi_cursor_position", args, s.attr), s.attr)
  BY <1>1, <1>2, <1>4, <1>5, FinalIsSound
<1>7. QED
  BY <1>6 DEF args

LEMMA SgrIsSound ==
  ASSUME NEW s, AtRest(s), NEW params \in Lists(Octet)
  PROVE  Sound(s, Csi(params, ch.m), << >>,
               Pen(IF params = << >> THEN <<0>> ELSE params, s.attr))
<1> DEFINE bytes == Csi(params, ch.m)
           pen == Pen(IF params = << >> THEN <<0>> ELSE params, s.attr)
<1>1. s \in ParserState /\ s.state = 0 /\ s.did = << >> /\ ch.m \in Octet
  BY DEF AtRest, ch, Octet
<1>2. bytes \in Seq(Octet) /\ bytes # << >>
  BY <1>1, CsiCollects
<1>3. PICK u : Collected(u, s, params) /\ Leads(s, bytes, handle_char(u, ch.m))
  BY <1>1, CsiCollects
<1>4. u \in ParserState /\ u.state = 5 /\ u.attr = s.attr /\ u.did = << >>
  BY <1>1, <1>3 DEF Collected
<1> DEFINE t == To(u, 0)
           v == ansi_sgr(t)
<1>5. handle_char(u, ch.m) = v
  BY <1>4 DEF handle_char, handle_ansi_char, handle_ansi_final, ch
<1>6. /\ t \in ParserState /\ t.state = 0 /\ t.did = << >> /\ t.attr = s.attr
      /\ t.p0 = Given(params, 1) /\ t.p1 = Given(params, 2)
      /\ t.index = IF Len(params) = 2 THEN 1 ELSE 0
  BY <1>3, <1>4, ToRest DEF Collected
<1> HIDE DEF t
<1>7. v \in ParserState
  <2>1. handle_char(u, ch.m) \in ParserState
    BY <1>1, <1>4, HandleTypes
  <2>2. QED BY <1>5, <2>1
<1>8. v.state = 0 /\ v.did = << >>
  BY <1>6 DEF ansi_sgr, ParserState
<1>9. v.attr = IF t.index = 0 THEN ansi_sgr_param(t.attr, t.p0)
               ELSE ansi_sgr_param(ansi_sgr_param(t.attr, t.p0), t.p1)
  BY <1>6 DEF ansi_sgr, ParserState
<1>10. s.attr \in Attr
  BY <1>1 DEF ParserState
<1>11. v.attr = pen
  <2> HIDE DEF v
  <2>1. CASE params = << >>
    <3>1. t.index = 0 /\ t.p0 = 0 /\ 0 \in Octet
      BY <1>6, <2>1, Values DEF Given
    <3>2. v.attr = Applied(s.attr, 0)
      BY <1>6, <1>9, <1>10, <3>1, SgrApplies
    <3>3. QED BY <1>10, <2>1, <3>2, PenApplies
  <2>2. ASSUME NEW n \in Octet, params = <<n>> PROVE v.attr = pen
    <3>1. t.index = 0 /\ t.p0 = n /\ params # << >>
      BY <1>6, <2>2 DEF Given
    <3>2. v.attr = Applied(s.attr, n)
      BY <1>6, <1>9, <1>10, <3>1, SgrApplies
    <3>3. QED BY <1>10, <2>2, <3>1, <3>2, PenApplies
  <2>3. ASSUME NEW m \in Octet, NEW n \in Octet, params = <<m, n>>
        PROVE  v.attr = pen
    <3>1. t.index = 1 /\ t.p0 = m /\ t.p1 = n /\ params # << >>
      BY <1>6, <2>3 DEF Given
    <3>2. ansi_sgr_param(s.attr, m) = Applied(s.attr, m)
          /\ ansi_sgr_param(s.attr, m) \in Attr
      BY <1>10, SgrApplies, SgrTypes
    <3>3. v.attr = Applied(Applied(s.attr, m), n)
      BY <1>6, <1>9, <3>1, <3>2, SgrApplies
    <3>4. QED BY <1>10, <2>3, <3>1, <3>3, PenApplies, ZenonT(30)
  <2>4. QED
    BY <2>1, <2>2, <2>3, ListsCases
<1> HIDE DEF v, pen, bytes
<1>12. Sound(s, bytes, << >>, pen)
  <2>1. Leads(s, bytes, v)
    BY <1>3, <1>5
  <2>2. QED BY <1>2, <1>7, <1>8, <1>11, <2>1 DEF Sound, Means
<1>13. QED
  BY <1>12 DEF bytes, pen

(* ESC and one more byte. *)
LEMMA GroupIsSound ==
  ASSUME NEW s, AtRest(s), NEW b \in Octet,
         NEW what \in EffectNames, NEW args \in Seq(Nat),
         \A v \in ParserState : v.state = 1 =>
           \E w \in ParserState :
             /\ w.state = 0 /\ w.did = v.did /\ w.attr = v.attr
             /\ handle_sub_command_group(v, b) = Does(w, what, args)
  PROVE  Sound(s, <<ESC, b>>, Effect(what, args, s.attr), s.attr)
<1>1. s \in ParserState /\ s.state = 0 /\ s.did = << >> /\ ESC \in Octet
  BY DEF AtRest, ESC, Octet
<1> DEFINE v == To(s, 1)
<1>2. handle_char(s, ESC) = v
  BY <1>1 DEF handle_char, handle_plain, ESC, CR
<1>3. v \in ParserState /\ v.state = 1 /\ v.attr = s.attr /\ v.did = s.did
  BY <1>1, ToTypes DEF To, ParserState
<1> HIDE DEF v
<1>4. Leads(s, <<ESC>>, v) /\ <<ESC>> \in Seq(Octet)
      /\ Append(<<ESC>>, b) = <<ESC, b>> /\ <<ESC, b>> \in Seq(Octet)
  <2>1. Leads(s, << >>, s)
    BY <1>1, LeadsNowhere
  <2>2. /\ << >> \in Seq(Octet) /\ Append(<< >>, ESC) = <<ESC>>
        /\ <<ESC>> \in Seq(Octet)
        /\ Append(<<ESC>>, b) = <<ESC, b>> /\ <<ESC, b>> \in Seq(Octet)
    BY <1>1, TwoBytes
  <2>3. Leads(s, <<ESC>>, handle_char(s, ESC))
    BY <1>1, <2>1, <2>2, LeadsOn
  <2>4. QED BY <1>2, <2>2, <2>3
<1>5. Leads(s, <<ESC, b>>, handle_char(v, b))
  BY <1>4, LeadsOn
<1>6. handle_char(v, b) = handle_sub_command_group(v, b)
  BY <1>3 DEF handle_char
<1>7. PICK w \in ParserState :
        /\ w.state = 0 /\ w.did = v.did /\ w.attr = v.attr
        /\ handle_sub_command_group(v, b) = Does(w, what, args)
  BY <1>3
<1> DEFINE u == Does(w, what, args)
<1>8. /\ u \in ParserState /\ u.state = 0
      /\ u.attr = w.attr /\ u.did = Effect(what, args, w.attr)
  BY <1>1, <1>3, <1>7, DoesFields
<1>9. Leads(s, <<ESC, b>>, u)
  BY <1>5, <1>6, <1>7
<1> HIDE DEF u
<1>10. <<ESC, b>> # << >>
  OBVIOUS
<1>11. QED
  BY <1>3, <1>4, <1>7, <1>8, <1>9, <1>10 DEF Sound, Means

LEMMA CursorKeysAreSound ==
  ASSUME NEW s, AtRest(s)
  PROVE  /\ Sound(s, <<ESC, ch.seven>>,
                  Effect("ansi_save_cursor", << >>, s.attr), s.attr)
         /\ Sound(s, <<ESC, ch.eight>>,
                  Effect("ansi_restore_cursor", << >>, s.attr), s.attr)
         /\ Sound(s, <<ESC, ch.M>>,
                  Effect("ansi_cursor_up", <<1>>, s.attr), s.attr)
         /\ Sound(s, Csi(<< >>, ch.s),
                  Effect("ansi_save_cursor", << >>, s.attr), s.attr)
         /\ Sound(s, Csi(<< >>, ch.u),
                  Effect("ansi_restore_cursor", << >>, s.attr), s.attr)
<1>1. /\ "ansi_save_cursor" \in EffectNames
      /\ "ansi_restore_cursor" \in EffectNames
      /\ "ansi_cursor_up" \in EffectNames
  BY DEF EffectNames
<1>2. << >> \in Seq(Nat) /\ <<1>> \in Seq(Nat)
  BY ArgsTypes
<1>3. ch.seven \in Octet /\ ch.eight \in Octet /\ ch.M \in Octet
      /\ ch.s \in Finals /\ ch.u \in Finals
  BY DEF ch, Octet, Finals
<1>4. << >> \in Lists(Octet)
  BY DEF Lists
<1>5. Sound(s, <<ESC, ch.seven>>,
            Effect("ansi_save_cursor", << >>, s.attr), s.attr)
  <2>1. ASSUME NEW v \in ParserState, v.state = 1
        PROVE  \E w \in ParserState :
                 /\ w.state = 0 /\ w.did = v.did /\ w.attr = v.attr
                 /\ handle_sub_command_group(v, ch.seven)
                      = Does(w, "ansi_save_cursor", << >>)
    <3>1. handle_sub_command_group(v, ch.seven)
            = Does(To(v, 0), "ansi_save_cursor", << >>)
      BY DEF handle_sub_command_group, ch
    <3>2. QED BY <3>1, ToRest
  <2>2. QED BY <1>1, <1>2, <1>3, <2>1, GroupIsSound
<1>6. Sound(s, <<ESC, ch.eight>>,
            Effect("ansi_restore_cursor", << >>, s.attr), s.attr)
  <2>1. ASSUME NEW v \in ParserState, v.state = 1
        PROVE  \E w \in ParserState :
                 /\ w.state = 0 /\ w.did = v.did /\ w.attr = v.attr
                 /\ handle_sub_command_group(v, ch.eight)
                      = Does(w, "ansi_restore_cursor", << >>)
    <3>1. handle_sub_command_group(v, ch.eight)
            = Does(To(v, 0), "ansi_restore_cursor", << >>)
      BY DEF handle_sub_command_group, ch
    <3>2. QED BY <3>1, ToRest
  <2>2. QED BY <1>1, <1>2, <1>3, <2>1, GroupIsSound
<1>7. Sound(s, <<ESC, ch.M>>, Effect("ansi_cursor_up", <<1>>, s.attr), s.attr)
  <2>1. ASSUME NEW v \in ParserState, v.state = 1
        PROVE  \E w \in ParserState :
                 /\ w.state = 0 /\ w.did = v.did /\ w.attr = v.attr
                 /\ handle_sub_command_group(v, ch.M)
                      = Does(w, "ansi_cursor_up", <<1>>)
    <3> DEFINE t == To(v, 0)
               w == [t EXCEPT !.p0 = 1]
    <3>1. handle_sub_command_group(v, ch.M) = Does(w, "ansi_cursor_up", <<1>>)
      BY DEF handle_sub_command_group, ch
    <3>2. t \in ParserState /\ t.state = 0 /\ t.did = v.did /\ t.attr = v.attr
      BY ToRest
    <3> HIDE DEF t
    <3>3. w \in ParserState
      <4>1. \A m \in Octet : [t EXCEPT !.p0 = m] \in ParserState
        BY <3>2 DEF ParserState
      <4>2. QED BY <4>1, Values
    <3>4. w.state = 0 /\ w.did = v.did /\ w.attr = v.attr
      BY <3>2 DEF ParserState
    <3> HIDE DEF w
    <3>5. QED BY <3>1, <3>3, <3>4
  <2>2. QED BY <1>1, <1>2, <1>3, <2>1, GroupIsSound
<1>8. Sound(s, Csi(<< >>, ch.s), Effect("ansi_save_cursor", << >>, s.attr), s.attr)
  <2>1. \A u : handle_ansi_final(u, ch.s) = Does(To(u, 0), "ansi_save_cursor", << >>)
    BY DEF handle_ansi_final, ch
  <2>2. QED BY <1>1, <1>2, <1>3, <1>4, <2>1, FinalIsSound
<1>9. Sound(s, Csi(<< >>, ch.u),
            Effect("ansi_restore_cursor", << >>, s.attr), s.attr)
  <2>1. \A u : handle_ansi_final(u, ch.u)
                 = Does(To(u, 0), "ansi_restore_cursor", << >>)
    BY DEF handle_ansi_final, ch
  <2>2. QED BY <1>1, <1>2, <1>3, <1>4, <2>1, FinalIsSound
<1>10. QED
  BY <1>5, <1>6, <1>7, <1>8, <1>9

LEMMA HexReads ==
  ASSUME NEW n \in 0 .. 15
  PROVE  Hex(n) \in HexBytes /\ Hex(n) \in Octet /\ hex_to_nibble(Hex(n)) = n
BY DEF Hex, HexBytes, hex_to_nibble, ch, Octet

LEMMA FiveBytes ==
  ASSUME NEW S, NEW a \in S, NEW b \in S, NEW c \in S, NEW d \in S, NEW e \in S
  PROVE  /\ <<a, b>> \in Seq(S)
         /\ Append(<<a, b>>, c) \in Seq(S)
         /\ Append(Append(<<a, b>>, c), d) \in Seq(S)
         /\ Append(Append(Append(<<a, b>>, c), d), e) = <<a, b, c, d, e>>
         /\ <<a, b, c, d, e>> \in Seq(S)
<1>1. <<a, b>> \in Seq(S) /\ <<a, b, c, d, e>> \in Seq(S) /\ << >> \in Seq(S)
  OBVIOUS
<1>2. \A t \in Seq(S) : Append(t, c) \in Seq(S) /\ Append(t, d) \in Seq(S)
  OBVIOUS
<1>3. \A t \in Seq(S) : t \o <<a, b, c, d, e>>
        = Append(Append(Append(Append(Append(t, a), b), c), d), e)
  OBVIOUS
<1>4. << >> \o <<a, b, c, d, e>> = <<a, b, c, d, e>>
  OBVIOUS
<1>5. Append(Append(<< >>, a), b) = <<a, b>>
  BY TwoBytes
<1>6. QED
  BY <1>1, <1>2, <1>3, <1>4, <1>5

(* A byte for the graphics controller reaches the port it is sent to.      *)
Ports == {<<ch.C, "GGDC_CMD_PORT">>, <<ch.P, "GGDC_PARAM_PORT">>}

LEMMA GdcLeads ==
  ASSUME NEW s \in ParserState, s.state = 0, NEW n \in Octet, NEW port \in Ports
  PROVE  LET bytes == <<ESC, ch.G, port[1], Hex(n \div 16), Hex(n % 16)>>
         IN  /\ bytes \in Seq(Octet) /\ bytes # << >>
             /\ \E u \in ParserState :
                  /\ Leads(s, bytes, u)
                  /\ u.state = 0 /\ u.attr = s.attr
                  /\ u.did = Append(s.did, [what |-> port[2], args |-> <<n>>,
                                            attr |-> s.attr])
<1> DEFINE hi == n \div 16
           lo == n % 16
           b3 == port[1]
           b4 == Hex(hi)
           b5 == Hex(lo)
           bytes == <<ESC, ch.G, b3, b4, b5>>
<1>1. s \in ParserState /\ s.state = 0 /\ port \in Ports
  OBVIOUS
<1>2. hi \in 0 .. 15 /\ lo \in 0 .. 15 /\ 16 * hi + lo = n
  BY DEF Octet
<1> HIDE DEF hi, lo
<1>3. /\ b4 \in HexBytes /\ b4 \in Octet /\ hex_to_nibble(b4) = hi
      /\ b5 \in HexBytes /\ b5 \in Octet /\ hex_to_nibble(b5) = lo
  BY <1>2, HexReads
<1>4. ESC \in Octet /\ ch.G \in Octet /\ b3 \in {ch.C, ch.P} /\ b3 \in Octet
  BY DEF ESC, ch, Octet, Ports
<1> HIDE DEF b4, b5
<1> DEFINE s1 == To(s, 1)
           s2 == To(s1, 2)
           op == IF b3 = ch.C THEN 1 ELSE 2
           s3 == [s2 EXCEPT !.op = op, !.state = 3]
           s4 == [s3 EXCEPT !.hex = 16 * hi, !.state = 4]
           s5 == To(s4, 0)
           s6 == Does(s5, port[2], <<n>>)
<1>5. handle_char(s, ESC) = s1
  BY <1>1 DEF handle_char, handle_plain, ESC, CR
<1>6. s1 \in ParserState /\ s1.state = 1 /\ s1.attr = s.attr /\ s1.did = s.did
  BY <1>1, ToTypes DEF To, ParserState
<1> HIDE DEF s1
<1>7. handle_char(s1, ch.G) = s2
  BY <1>6 DEF handle_char, handle_sub_command_group, ch
<1>8. s2 \in ParserState /\ s2.state = 2 /\ s2.attr = s.attr /\ s2.did = s.did
  BY <1>6, ToTypes DEF To, ParserState
<1> HIDE DEF s2
<1>9. handle_char(s2, b3) = s3
  <2>1. handle_char(s2, b3) = handle_sub_command_op(s2, b3)
    BY <1>8 DEF handle_char
  <2>2. CASE b3 = ch.C
    <3>1. s3 = [s2 EXCEPT !.op = 1, !.state = 3]
      BY <2>2
    <3>2. ch.C # ch.P /\ ch.C # ch.T
      BY DEF ch
    <3>3. handle_sub_command_op(s2, ch.C) = [s2 EXCEPT !.op = 1, !.state = 3]
      BY <3>2 DEF handle_sub_command_op
    <3>4. QED BY <2>1, <2>2, <3>1, <3>3
  <2>3. CASE b3 = ch.P
    <3>1. ch.P # ch.C /\ ch.P # ch.T
      BY DEF ch
    <3>2. s3 = [s2 EXCEPT !.op = 2, !.state = 3]
      BY <2>3, <3>1
    <3>3. handle_sub_command_op(s2, ch.P) = [s2 EXCEPT !.op = 2, !.state = 3]
      BY <3>1 DEF handle_sub_command_op
    <3>4. QED BY <2>1, <2>3, <3>2, <3>3
  <2>4. QED BY <1>4, <2>2, <2>3
<1>10. op \in {1, 2}
  OBVIOUS
<1> HIDE DEF op
<1>11. s3 \in ParserState /\ s3.state = 3 /\ s3.attr = s.attr /\ s3.did = s.did
       /\ s3.op = op
  <2>1. s3 \in ParserState
    BY <1>4, <1>8, <1>9, HandleTypes
  <2>2. QED BY <1>8, <2>1 DEF ParserState
<1> HIDE DEF s3
<1>12. handle_char(s3, b4) = s4
  BY <1>3, <1>11 DEF handle_char, handle_sub_command_hex_hi
<1>13. s4 \in ParserState /\ s4.state = 4 /\ s4.attr = s.attr /\ s4.did = s.did
       /\ s4.op = op /\ s4.hex = 16 * hi
  <2>1. s4 \in ParserState
    BY <1>3, <1>11, <1>12, HandleTypes
  <2>2. QED BY <1>11, <2>1 DEF ParserState
<1> HIDE DEF s4
<1>14. handle_char(s4, b5) = s6
  <2>1. port[2] = IF op = 1 THEN "GGDC_CMD_PORT" ELSE "GGDC_PARAM_PORT"
    BY DEF op, ch, Ports
  <2>2. s4.hex + hex_to_nibble(b5) = n
    BY <1>2, <1>3, <1>13
  <2>3. handle_char(s4, b5)
          = Does(To(s4, 0),
                 IF s4.op = 1 THEN "GGDC_CMD_PORT" ELSE "GGDC_PARAM_PORT",
                 <<s4.hex + hex_to_nibble(b5)>>)
    BY <1>3, <1>13 DEF handle_char, handle_sub_command_hex_lo
  <2>4. QED BY <1>13, <2>1, <2>2, <2>3
<1>15. s5 \in ParserState /\ s5.state = 0 /\ s5.attr = s.attr /\ s5.did = s.did
  BY <1>13, ToRest
<1>16. port[2] \in EffectNames /\ <<n>> \in Seq(Nat)
  BY DEF EffectNames, Octet, Ports
<1> HIDE DEF s5
<1> DEFINE e == [what |-> port[2], args |-> <<n>>, attr |-> s.attr]
<1>17. s6 \in ParserState /\ s6.state = 0 /\ s6.attr = s.attr /\ s6.did = Append(s.did, e)
  <2> DEFINE d == Append(s.did, e)
  <2>1. s6 = [s5 EXCEPT !.did = d]
    BY <1>15 DEF Does
  <2>2. s6 \in ParserState
    BY <1>15, <1>16, DoesTypes
  <2> HIDE DEF d, s6
  <2>3. QED
    BY <1>15, <2>1, <2>2 DEF ParserState, d
<1> HIDE DEF s6, b3, e
<1>18. Leads(s, bytes, s6) /\ bytes \in Seq(Octet)
  <2> DEFINE t2 == <<ESC, ch.G>>
             t3 == Append(t2, b3)
             t4 == Append(t3, b4)
  <2>1. /\ t2 \in Seq(Octet) /\ t3 \in Seq(Octet) /\ t4 \in Seq(Octet)
        /\ Append(t4, b5) = bytes /\ bytes \in Seq(Octet)
    BY <1>3, <1>4, FiveBytes
  <2>2. /\ << >> \in Seq(Octet) /\ Append(<< >>, ESC) = <<ESC>>
        /\ <<ESC>> \in Seq(Octet) /\ Append(<<ESC>>, ch.G) = t2
    BY <1>4, TwoBytes
  <2> HIDE DEF t2
  <2>3. Leads(s, <<ESC>>, s1)
    <3>1. Leads(s, << >>, s)
      BY <1>1, LeadsNowhere
    <3>2. Leads(s, <<ESC>>, handle_char(s, ESC))
      BY <1>4, <2>2, <3>1, LeadsOn
    <3>3. QED BY <1>5, <3>2
  <2>4. Leads(s, t2, s2)
    <3>1. Leads(s, Append(<<ESC>>, ch.G), handle_char(s1, ch.G))
      BY <1>4, <2>2, <2>3, LeadsOn
    <3>2. QED BY <1>7, <2>2, <3>1
  <2>5. Leads(s, t3, s3)
    <3>1. Leads(s, Append(t2, b3), handle_char(s2, b3))
      BY <1>4, <2>1, <2>4, LeadsOn
    <3>2. QED BY <1>9, <3>1
  <2> HIDE DEF t3
  <2>6. Leads(s, t4, s4)
    <3>1. Leads(s, Append(t3, b4), handle_char(s3, b4))
      BY <1>3, <2>1, <2>5, LeadsOn
    <3>2. QED BY <1>12, <3>1 DEF t4
  <2> HIDE DEF t4
  <2>7. Leads(s, Append(t4, b5), handle_char(s4, b5))
    BY <1>3, <2>1, <2>6, LeadsOn
  <2>8. QED BY <1>14, <2>1, <2>7
<1>19. bytes # << >>
  OBVIOUS
<1> HIDE DEF bytes
<1>20. QED
  BY <1>17, <1>18, <1>19 DEF bytes, b3, b4, b5, hi, lo, e

LEMMA GdcIsSound ==
  ASSUME NEW s, AtRest(s), NEW n \in Octet, NEW port \in Ports
  PROVE  Sound(s, <<ESC, ch.G, port[1], Hex(n \div 16), Hex(n % 16)>>,
               Effect(port[2], <<n>>, s.attr), s.attr)
<1> DEFINE bytes == <<ESC, ch.G, port[1], Hex(n \div 16), Hex(n % 16)>>
           e == [what |-> port[2], args |-> <<n>>, attr |-> s.attr]
<1>1. s \in ParserState /\ s.state = 0 /\ s.did = << >>
  BY DEF AtRest
<1>2. /\ bytes \in Seq(Octet) /\ bytes # << >>
      /\ \E u \in ParserState : /\ Leads(s, bytes, u)
                               /\ u.state = 0 /\ u.attr = s.attr
                               /\ u.did = Append(s.did, e)
  BY <1>1, GdcLeads
<1>3. Append(<< >>, e) = Effect(port[2], <<n>>, s.attr)
  BY DEF Effect
<1> HIDE DEF bytes, e
<1>4. Sound(s, bytes, Effect(port[2], <<n>>, s.attr), s.attr)
  BY <1>1, <1>2, <1>3 DEF Sound, Means
<1>5. QED
  BY <1>4 DEF bytes

-----------------------------------------------------------------------------

LEMMA ParserInvInit == ParserInit => ParserInv
<1> SUFFICES ASSUME ParserInit PROVE ParserInv
  OBVIOUS
<1>1. ATTR_WHITE \in Attr
  BY DEF ATTR_WHITE, Attr
<1>2. << >> \in Effects /\ << >> \in Seq(Octet)
  BY DEF Effects
<1>3. 0 \in 0 .. 5 /\ 0 \in 0 .. 2 /\ 0 \in Octet /\ 0 \in {0, 1}
  BY Values
<1>4. AtPowerOn \in ParserState /\ AtPowerOn.did = << >>
  BY <1>1, <1>2, <1>3 DEF AtPowerOn, ParserState
<1>5. Nothing \in [did : Effects, attr : Attr]
  BY <1>1, <1>2 DEF Nothing
<1>6. QED
  BY <1>2, <1>4, <1>5 DEF ParserInit, ParserInv

(* A sequence that means what it says may be sent. *)
LEMMA SendStep ==
  ASSUME ParserInv, NEW bytes, NEW did, NEW attr,
         AtRest(ps) => Sound(ps, bytes, did, attr),
         Send(bytes, did, attr)
  PROVE  ParserInv'
<1>1. AtRest(ps)
  BY DEF AtRest, ParserInv, Send
<1>2. bytes \in Seq(Octet) /\ bytes # << >> /\ Means(ps, bytes, did, attr)
  BY <1>1 DEF Sound
<1>3. did \in Effects /\ attr \in Attr
  BY <1>2 DEF Means, ParserState
<1>4. ps' = ps /\ todo' = bytes /\ want' = [did |-> did, attr |-> attr]
  BY DEF Send
<1>5. want' \in [did : Effects, attr : Attr] /\ want'.did = did /\ want'.attr = attr
  BY <1>3, <1>4
<1>6. Means(ps', todo', want'.did, want'.attr)
  BY <1>2, <1>4, <1>5
<1>7. QED
  BY <1>2, <1>4, <1>5, <1>6 DEF ParserInv

LEMMA SendManyStep == ParserInv /\ SendMany => ParserInv'
<1> SUFFICES ASSUME ParserInv, SendMany PROVE ParserInv'
  OBVIOUS
<1> DEFINE attr == ps.attr
           reset == <<0>>
           once == <<1>>
<1>0. AtRest(ps) => ps \in ParserState /\ ps.state = 0
  BY DEF AtRest
<1>1. ASSUME NEW c \in Glyphs,
             Send(<<c>>, Effect("write_char", <<c>>, attr), attr)
      PROVE  ParserInv'
  <2>1. c \in Octet /\ c >= 32 /\ c \in Nat
    BY GlyphsArePrintable DEF Octet
  <2>2. ASSUME AtRest(ps) PROVE handle_char(ps, c) = Does(ps, "write_char", <<c>>)
    BY <1>0, <2>1, <2>2 DEF handle_char, handle_plain, ESC, CR
  <2>3. "write_char" \in EffectNames /\ <<c>> \in Seq(Nat)
    BY <2>1, ArgsTypes DEF EffectNames
  <2>4. AtRest(ps) => Sound(ps, <<c>>, Effect("write_char", <<c>>, ps.attr), ps.attr)
    BY <2>1, <2>2, <2>3, ByteIsSound
  <2>5. QED BY <1>1, <2>4, SendStep
<1>2. ASSUME NEW c \in Ctrl, Send(<<c[1]>>, Effect(c[2], << >>, attr), attr)
      PROVE  ParserInv'
  <2>1. c[1] \in Octet /\ c[2] \in EffectNames
    BY DEF Ctrl, Octet, CR, EffectNames
  <2>2. ASSUME AtRest(ps) PROVE handle_char(ps, c[1]) = Does(ps, c[2], << >>)
    BY <1>0, <2>2 DEF handle_char, handle_plain, Ctrl, ESC, CR
  <2>3. << >> \in Seq(Nat)
    BY ArgsTypes
  <2>4. AtRest(ps) => Sound(ps, <<c[1]>>, Effect(c[2], << >>, ps.attr), ps.attr)
    BY <2>1, <2>2, <2>3, ByteIsSound
  <2>5. QED BY <1>2, <2>4, SendStep
<1>3. ASSUME NEW f \in OneParameter, NEW params \in {<< >>} \cup {<<n>> : n \in Params},
             Send(Csi(params, f[1]), Effect(f[2], <<Given(params, 1)>>, attr), attr)
      PROVE  ParserInv'
  <2>1. params \in {<< >>} \cup {<<n>> : n \in Octet}
    BY ParamsAreBytes DEF Octet
  <2>2. AtRest(ps) => Sound(ps, Csi(params, f[1]),
                            Effect(f[2], <<Given(params, 1)>>, ps.attr), ps.attr)
    BY <2>1, OneParameterIsSound
  <2>3. QED BY <1>3, <2>2, SendStep
<1>4. ASSUME NEW f \in {ch.H, ch.f}, NEW params \in Lists(Params),
             Send(Csi(params, f),
                  Effect("ansi_cursor_position",
                         <<Given(params, 1), Given(params, 2)>>, attr), attr)
      PROVE  ParserInv'
  <2>1. params \in Lists(Octet)
    <3>1. Params \subseteq Octet /\ SgrParams \subseteq Octet
      BY ParamsAreBytes DEF Octet
    <3>2. QED BY <3>1, ListsGrow
  <2>2. AtRest(ps) => Sound(ps, Csi(params, f),
                            Effect("ansi_cursor_position",
                                   <<Given(params, 1), Given(params, 2)>>, ps.attr),
                            ps.attr)
    BY <2>1, PositionIsSound
  <2>3. QED BY <1>4, <2>2, SendStep
<1>5. ASSUME NEW params \in Lists(SgrParams),
             Send(Csi(params, ch.m), << >>,
                  Pen(IF params = << >> THEN reset ELSE params, attr))
      PROVE  ParserInv'
  <2>1. params \in Lists(Octet)
    <3>1. Params \subseteq Octet /\ SgrParams \subseteq Octet
      BY ParamsAreBytes DEF Octet
    <3>2. QED BY <3>1, ListsGrow
  <2>2. AtRest(ps) => Sound(ps, Csi(params, ch.m), << >>,
                            Pen(IF params = << >> THEN <<0>> ELSE params, ps.attr))
    BY <2>1, SgrIsSound
  <2>3. QED BY <1>5, <2>2, SendStep
<1>6. ASSUME NEW bytes \in {<<ESC, ch.seven>>, Csi(<< >>, ch.s)},
             Send(bytes, Effect("ansi_save_cursor", << >>, attr), attr)
      PROVE  ParserInv'
  <2>1. AtRest(ps) => Sound(ps, bytes,
                            Effect("ansi_save_cursor", << >>, ps.attr), ps.attr)
    BY CursorKeysAreSound
  <2>2. QED BY <1>6, <2>1, SendStep
<1>7. ASSUME NEW bytes \in {<<ESC, ch.eight>>, Csi(<< >>, ch.u)},
             Send(bytes, Effect("ansi_restore_cursor", << >>, attr), attr)
      PROVE  ParserInv'
  <2>1. AtRest(ps) => Sound(ps, bytes,
                            Effect("ansi_restore_cursor", << >>, ps.attr), ps.attr)
    BY CursorKeysAreSound
  <2>2. QED BY <1>7, <2>1, SendStep
<1>8. ASSUME Send(<<ESC, ch.M>>, Effect("ansi_cursor_up", once, attr), attr)
      PROVE  ParserInv'
  <2>1. AtRest(ps) => Sound(ps, <<ESC, ch.M>>,
                            Effect("ansi_cursor_up", <<1>>, ps.attr), ps.attr)
    BY CursorKeysAreSound
  <2>2. QED BY <1>8, <2>1, SendStep
<1>9. ASSUME NEW n \in GdcBytes,
             NEW port \in Ports,
             Send(<<ESC, ch.G, port[1], Hex(n \div 16), Hex(n % 16)>>,
                  Effect(port[2], <<n>>, attr), attr)
      PROVE  ParserInv'
  <2>1. n \in Octet
    BY GdcBytesAreBytes DEF Octet
  <2>2. AtRest(ps) => Sound(ps, <<ESC, ch.G, port[1], Hex(n \div 16), Hex(n % 16)>>,
                            Effect(port[2], <<n>>, ps.attr), ps.attr)
    BY <2>1, GdcIsSound
  <2>3. QED BY <1>9, <2>2, SendStep
<1>10. QED
  BY <1>1, <1>2, <1>3, <1>4, <1>5, <1>6, <1>7, <1>8, <1>9 DEF SendMany, Ports

LEMMA ForgetTypes ==
  ASSUME NEW s \in ParserState
  PROVE  /\ [s EXCEPT !.did = << >>] \in ParserState
         /\ [s EXCEPT !.did = << >>].did = << >>
<1>1. << >> \in Effects
  BY DEF Effects
<1>2. QED
  BY <1>1 DEF ParserState

LEMMA FeedStep == ParserInv /\ Feed => ParserInv'
<1> SUFFICES ASSUME ParserInv, Feed PROVE ParserInv'
  OBVIOUS
<1> DEFINE b == Head(todo)
           after == handle_char(ps, b)
<1>1. /\ ps \in ParserState /\ todo \in Seq(Octet) /\ todo # << >>
      /\ want \in [did : Effects, attr : Attr]
      /\ Means(ps, todo, want.did, want.attr)
  BY DEF ParserInv, Feed
<1>2. b \in Octet /\ Tail(todo) \in Seq(Octet) /\ (Tail(todo) = << >> <=> Len(todo) = 1)
  <2>1. b \in Octet /\ Tail(todo) \in Seq(Octet)
    BY <1>1
  <2>2. Len(todo) \in Nat \ {0} /\ Len(Tail(todo)) = Len(todo) - 1
    BY <1>1
  <2>3. \A t \in Seq(Octet) : t = << >> <=> Len(t) = 0
    OBVIOUS
  <2>4. Tail(todo) = << >> <=> Len(Tail(todo)) = 0
    BY <2>1, <2>3
  <2>5. Len(Tail(todo)) = 0 <=> Len(todo) = 1
    BY <2>2
  <2>6. QED BY <2>1, <2>4, <2>5
<1> HIDE DEF b
<1>3. after \in ParserState
  BY <1>1, <1>2, HandleTypes
<1>4. todo' = Tail(todo)
  BY DEF Feed
<1>5. CASE Len(todo) = 1
  <2>1. ps' = [after EXCEPT !.did = << >>] /\ want' = Nothing
    BY <1>5 DEF Feed, b
  <2>2. ps' \in ParserState /\ ps'.did = << >>
    BY <1>3, <2>1, ForgetTypes
  <2>3. want' \in [did : Effects, attr : Attr]
    BY <2>1 DEF Nothing, Effects, Attr, ATTR_WHITE
  <2>4. QED BY <1>2, <1>4, <1>5, <2>2, <2>3 DEF ParserInv
<1>6. CASE Len(todo) # 1
  <2>1. ps' = after /\ want' = want
    BY <1>6 DEF Feed, b
  <2>2. PICK u \in ParserState :
          Leads(ps, todo, u) /\ u.did = want.did /\ u.attr = want.attr /\ u.state = 0
    BY <1>1 DEF Means
  <2>3. Leads(after, Tail(todo), u)
    BY <1>1, <2>2, LeadsRest DEF b
  <2> HIDE DEF after
  <2>4. Means(ps', todo', want'.did, want'.attr)
    BY <1>4, <2>1, <2>2, <2>3 DEF Means
  <2>5. QED BY <1>1, <1>2, <1>3, <1>4, <1>6, <2>1, <2>4 DEF ParserInv
<1>7. QED
  BY <1>5, <1>6

LEMMA ParserInvStep == ParserInv /\ [ParserNext]_parserVars => ParserInv'
<1> SUFFICES ASSUME ParserInv, [ParserNext]_parserVars PROVE ParserInv'
  OBVIOUS
<1>1. CASE SendMany
  BY <1>1, SendManyStep
<1>2. CASE Feed
  BY <1>2, FeedStep
<1>3. ASSUME NEW b \in Noise, Disturb(b) PROVE ParserInv'
  <2>1. b \in Octet
    BY NoiseIsBytes DEF Octet
  <2>2. handle_char(ps, b) \in ParserState
    BY <2>1, HandleTypes DEF ParserInv
  <2>3. ps' \in ParserState /\ ps'.did = << >>
    BY <1>3, <2>2, ForgetTypes DEF Disturb
  <2>4. todo' = todo /\ todo = << >> /\ want' = want
    BY <1>3 DEF Disturb
  <2>5. QED BY <2>3, <2>4 DEF ParserInv
<1>4. CASE ParserReset
  <2>1. ATTR_WHITE \in Attr /\ << >> \in Effects /\ 0 \in 0 .. 5
    BY DEF ATTR_WHITE, Attr, Effects
  <2>2. ps \in ParserState
    BY DEF ParserInv
  <2>3. \A q \in 0 .. 5, a \in Attr, d \in Effects :
          [ps EXCEPT !.state = q, !.attr = a, !.did = d] \in ParserState
    BY <2>2 DEF ParserState
  <2>4. AfterReset(ps) \in ParserState /\ AfterReset(ps).did = << >>
    BY <2>1, <2>2, <2>3 DEF AfterReset, ParserState
  <2>5. Nothing \in [did : Effects, attr : Attr] /\ << >> \in Seq(Octet)
    BY <2>1 DEF Nothing
  <2>6. QED BY <1>4, <2>4, <2>5 DEF ParserReset, ParserInv
<1>5. CASE UNCHANGED parserVars
  BY <1>5 DEF parserVars, ParserInv, Means, Leads
<1>6. QED
  BY <1>1, <1>2, <1>3, <1>4, <1>5 DEF ParserNext

(* Every variable of the parser keeps its type, whatever the bytes. *)
THEOREM ParserTypeCorrect == ParserSpec => []ParserTypeOK
<1>1. ParserInv => ParserTypeOK
  BY DEF ParserInv, ParserTypeOK, ParserState, Octet
<1>2. QED
  BY <1>1, ParserInvInit, ParserInvStep, PTL DEF ParserSpec

(* Every well-formed sequence has its own meaning, for every set of        *)
(* parameters, of bytes for the graphics controller and of noise.          *)
THEOREM SequencesKeepMeaning == ParserSpec => []SequencesMean
<1>1. ParserInv => SequencesMean
  <2> SUFFICES ASSUME ParserInv, Len(todo) = 1
               PROVE  LET after == handle_char(ps, Head(todo))
                      IN  /\ after.did = want.did /\ after.attr = want.attr
                          /\ after.state = 0
    BY DEF SequencesMean
  <2>1. todo \in Seq(Octet) /\ todo # << >>
    <3>1. Len(<< >>) = 0
      OBVIOUS
    <3>2. todo # << >>
      BY <3>1
    <3>3. QED BY <3>2 DEF ParserInv
  <2>2. PICK u \in ParserState :
          Leads(ps, todo, u) /\ u.did = want.did /\ u.attr = want.attr /\ u.state = 0
    BY <2>1 DEF ParserInv, Means
  <2>3. u = handle_char(ps, Head(todo))
    BY <2>1, <2>2, LeadsRest
  <2>4. QED BY <2>2, <2>3
<1>2. QED
  BY <1>1, ParserInvInit, ParserInvStep, PTL DEF ParserSpec

(* Wherever the parser is, a carriage return puts it to rest.              *)
LEMMA CarriageReturnIsRest ==
  ASSUME NEW s \in ParserState
  PROVE  handle_char(s, CR).state = 0
<1>1. s \in ParserState /\ s.state \in {0, 1, 2, 3, 4, 5}
  BY DEF ParserState
<1>2. /\ CR = 13 /\ CR \notin HexBytes
      /\ \A b \in {ch.G, ch.bracket, ch.seven, ch.eight, ch.M, ch.C, ch.P, ch.T,
                   ch.query, ch.semicolon, ch.H, ch.f, ch.J, ch.K, ch.m, ch.A,
                   ch.B, ch.D, ch.E, ch.F, ch.s, ch.u, ESC} : CR # b
      /\ CR \notin ch.zero .. ch.nine
  BY DEF CR, ESC, ch, HexBytes
<1>3. To(s, 0).state = 0
  BY <1>1, ToRest
<1>4. CASE s.state = 0
  <2>1. handle_char(s, CR) = Does(s, "handle_cr", << >>)
    BY <1>4 DEF handle_char, handle_plain, CR, ESC
  <2>2. QED BY <1>1, <1>4, <2>1 DEF Does, ParserState
<1>5. CASE s.state = 1
  BY <1>2, <1>3, <1>5
     DEF handle_char, handle_sub_command_group, handle_sub_command_cancel
<1>6. CASE s.state = 2
  BY <1>2, <1>3, <1>6
     DEF handle_char, handle_sub_command_op, handle_sub_command_cancel
<1>7. CASE s.state = 3
  BY <1>2, <1>3, <1>7
     DEF handle_char, handle_sub_command_hex_hi, handle_sub_command_cancel
<1>8. CASE s.state = 4
  BY <1>2, <1>3, <1>8
     DEF handle_char, handle_sub_command_hex_lo, handle_sub_command_cancel
<1>9. CASE s.state = 5
  BY <1>2, <1>3, <1>9 DEF handle_char, handle_ansi_char, handle_ansi_final
<1>10. QED BY <1>1, <1>4, <1>5, <1>6, <1>7, <1>8, <1>9

(* Whatever has been broken off, a carriage return ends it. *)
THEOREM CarriageReturnRests == ParserSpec => []CarriageReturnEnds
<1>1. ParserInv => CarriageReturnEnds
  BY CarriageReturnIsRest DEF ParserInv, CarriageReturnEnds
<1>2. QED
  BY <1>1, ParserInvInit, ParserInvStep, PTL DEF ParserSpec

-----------------------------------------------------------------------------
(* GVRAMTST.COM.  First, what its recursive definitions compute.            *)

(* Loops: what holds before the first turn and is kept by every turn holds *)
(* after the last.                                                         *)
LEMMA SetInduction ==
  ASSUME NEW T \in SUBSET Nat, 0 \in T, \A n \in T : n + 1 \in T
  PROVE  T = Nat
<1>1. SUFFICES ASSUME Nat \ T # {} PROVE FALSE
  OBVIOUS
<1> DEFINE R == OpToRel(<, Nat)
<1>2. IsWellFoundedOn(R, Nat)
  BY NatLessThanWellFounded
<1>3. \A y, m \in Nat : y < m => <<y, m>> \in R
  BY DEF OpToRel
<1> HIDE DEF R
<1>4. PICK m \in Nat \ T : \A y \in Nat \ T : <<y, m>> \notin R
  BY ONLY <1>1, <1>2, WFMin
<1>5. m \in Nat /\ m - 1 \in Nat \ T /\ m - 1 < m
  OBVIOUS
<1>6. <<m - 1, m>> \in R
  BY <1>3, <1>5
<1>7. QED
  BY <1>4, <1>5, <1>6

(* Parsed is a recursive function, which the provers cannot unfold; where  *)
(* the bytes lead is what it computes.                                     *)
LEMMA ParsedIs ==
  ASSUME NEW s \in ParserState, NEW t \in Seq(Octet), NEW u, Leads(s, t, u)
  PROVE  Parsed(s, t) = u
<1> DEFINE n == Len(t)
           Solves(g) == g = [i \in 0 .. n |->
                               IF i = 0 THEN s ELSE handle_char(g[i - 1], t[i])]
           after == CHOOSE g : Solves(g)
<1>1. Parsed(s, t) = after[n]
  BY DEF Parsed
<1>2. n \in Nat
  OBVIOUS
<1>3. PICK f \in [0 .. n -> ParserState] :
        /\ f[0] = s /\ f[n] = u
        /\ \A i \in 1 .. n : f[i] = handle_char(f[i - 1], t[i])
  BY DEF Leads
<1> HIDE DEF n
<1>4. Solves(f)
  <2> DEFINE h == [i \in 0 .. n |-> IF i = 0 THEN s ELSE handle_char(f[i - 1], t[i])]
  <2>1. \A i \in 0 .. n : i # 0 => i \in 1 .. n
    BY <1>2
  <2>2. \A i \in 0 .. n : f[i] = h[i]
    BY <1>3, <2>1
  <2>3. QED BY <1>3, <2>2
<1>5. Solves(after)
  <2> HIDE DEF Solves
  <2>1. QED BY <1>4
<1>6. after[0] = s /\ \A i \in 1 .. n : after[i] = handle_char(after[i - 1], t[i])
  <2> HIDE DEF after
  <2>1. QED BY <1>2, <1>5
<1> HIDE DEF after
<1> DEFINE T == {i \in Nat : i <= n => after[i] = f[i]}
<1>7. T = Nat
  <2>1. 0 \in T
    BY <1>3, <1>6
  <2>2. ASSUME NEW i \in T PROVE i + 1 \in T
    <3>1. CASE i + 1 <= n
      <4>1. i + 1 \in 1 .. n /\ (i + 1) - 1 = i /\ i <= n
        BY <1>2, <3>1
      <4>2. QED BY <1>3, <1>6, <4>1
    <3>2. CASE ~(i + 1 <= n)
      BY <3>2
    <3>3. QED BY <3>1, <3>2
  <2>3. QED
    <3> HIDE DEF T
    <3>1. T \subseteq Nat
      BY DEF T
    <3>2. QED BY <2>1, <2>2, <3>1, SetInduction
<1>8. after[n] = f[n]
  <2>1. n \in T => (n <= n => after[n] = f[n])
    OBVIOUS
  <2> HIDE DEF T
  <2>2. QED BY <1>2, <1>7, <2>1
<1>9. QED
  BY <1>1, <1>3, <1>8

(* The same for FlattenSeq: it grows by one sequence at a time.            *)
LEMMA FlattenGrows ==
  ASSUME NEW S, NEW q \in Seq(Seq(S))
  PROVE  \E F \in [0 .. Len(q) -> Seq(S)] :
           /\ F[0] = << >> /\ F[Len(q)] = FlattenSeq(q)
           /\ \A i \in 1 .. Len(q) : F[i] = F[i - 1] \o q[i]
<1> DEFINE N == Len(q)
           Solves(g, n) == g = [i \in 1 .. n |-> IF i = 1 THEN q[i] ELSE g[i - 1] \o q[i]]
           Grows(g, n) == /\ g[0] = << >>
                          /\ \A i \in 1 .. n : g[i] = g[i - 1] \o q[i]
           T == {n \in Nat : n <= N => \E F \in [0 .. n -> Seq(S)] : Grows(F, n)}
<1>0. N \in Nat /\ \A i \in 1 .. N : q[i] \in Seq(S)
  OBVIOUS
<1> HIDE DEF N
<1>1. 0 \in T
  <2> DEFINE F == [i \in 0 .. 0 |-> << >>]
  <2>1. F \in [0 .. 0 -> Seq(S)] /\ Grows(F, 0)
    OBVIOUS
  <2> HIDE DEF F, Grows
  <2>2. QED BY <2>1
<1>2. ASSUME NEW n \in T PROVE n + 1 \in T
  <2>0. n \in Nat /\ (n <= N => \E F \in [0 .. n -> Seq(S)] : Grows(F, n))
    OBVIOUS
  <2>1. SUFFICES ASSUME n + 1 <= N
                 PROVE  \E F \in [0 .. (n + 1) -> Seq(S)] : Grows(F, n + 1)
    <3> HIDE DEF Grows
    <3>1. QED BY <2>0
  <2>10. n <= N
    BY <1>0, <2>0, <2>1
  <2>2. PICK F \in [0 .. n -> Seq(S)] : Grows(F, n)
    <3> HIDE DEF Grows
    <3>1. QED BY <2>0, <2>10
  <2>3. n \in Nat /\ n + 1 \in 1 .. N /\ q[n + 1] \in Seq(S)
    BY <1>0, <2>1
  <2> DEFINE x == F[n] \o q[n + 1]
             G == [i \in 0 .. (n + 1) |-> IF i = n + 1 THEN x ELSE F[i]]
  <2>4. F[n] \in Seq(S)
    BY <2>2, <2>3
  <2>5. x \in Seq(S)
    BY <2>3, <2>4
  <2> HIDE DEF x
  <2>6. G \in [0 .. (n + 1) -> Seq(S)]
    BY <2>2, <2>3, <2>5
  <2>7. G[0] = << >>
    BY <2>2, <2>3
  <2>8. ASSUME NEW i \in 1 .. (n + 1) PROVE G[i] = G[i - 1] \o q[i]
    <3>1. CASE i = n + 1
      <4>1. i - 1 = n /\ n \in 0 .. (n + 1) /\ n # n + 1 /\ i \in 0 .. (n + 1)
        BY <2>3, <3>1
      <4>2. G[i] = x /\ G[i - 1] = F[n]
        BY <3>1, <4>1
      <4>3. QED BY <3>1, <4>2 DEF x
    <3>2. CASE i # n + 1
      <4>1. i \in 1 .. n /\ i - 1 \in 0 .. (n + 1) /\ i - 1 # n + 1 /\ i \in 0 .. (n + 1)
        BY <2>3, <3>2
      <4>2. G[i] = F[i] /\ G[i - 1] = F[i - 1]
        BY <3>2, <4>1
      <4>3. F[i] = F[i - 1] \o q[i]
        BY <2>2, <4>1
      <4>4. QED BY <4>2, <4>3
    <3>3. QED BY <3>1, <3>2
  <2>9. QED
    <3> HIDE DEF G
    <3>1. QED BY <2>6, <2>7, <2>8
<1>3. T = Nat
  <2> HIDE DEF T
  <2>1. T \subseteq Nat
    BY DEF T
  <2>2. QED BY <1>1, <1>2, <2>1, SetInduction
<1>4. PICK F \in [0 .. N -> Seq(S)] : Grows(F, N)
  <2>1. N \in T => (N <= N => \E F \in [0 .. N -> Seq(S)] : Grows(F, N))
    <3> HIDE DEF Grows
    <3>1. QED OBVIOUS
  <2> HIDE DEF T, Grows
  <2>2. QED BY <1>0, <1>3, <2>1
<1> HIDE DEF T
<1>5. FlattenSeq(q) = F[N]
  <2>1. CASE N = 0
    <3>1. q = << >>
      BY <2>1 DEF N
    <3>2. FlattenSeq(q) = q
      BY <2>1 DEF FlattenSeq, N
    <3>3. QED BY <1>4, <2>1, <3>1, <3>2
  <2>2. CASE N # 0
    <3> DEFINE flatten == CHOOSE g : Solves(g, N)
               H == [i \in 1 .. N |-> F[i]]
    <3>1. FlattenSeq(q) = flatten[N]
      BY <2>2 DEF FlattenSeq, N
    <3>2. Solves(H, N)
      <4>0. << >> \o q[1] = q[1]
        BY <1>0, <2>2
      <4>1. \A i \in 1 .. N : H[i] = IF i = 1 THEN q[i] ELSE H[i - 1] \o q[i]
        <5>1. SUFFICES ASSUME NEW i \in 1 .. N
                       PROVE  H[i] = IF i = 1 THEN q[i] ELSE H[i - 1] \o q[i]
          OBVIOUS
        <5>2. H[i] = F[i - 1] \o q[i]
          BY <1>4
        <5>3. CASE i = 1
          <6>1. i - 1 = 0
            BY <5>3
          <6>2. F[i - 1] = << >>
            BY <1>4, <6>1
          <6>3. QED BY <4>0, <5>2, <5>3, <6>2
        <5>4. CASE i # 1
          <6>1. i - 1 \in 1 .. N
            BY <1>0, <5>4
          <6>2. H[i - 1] = F[i - 1]
            BY <6>1
          <6>3. QED BY <5>2, <5>4, <6>2
        <5>5. QED BY <5>3, <5>4
      <4>2. QED BY <4>1
    <3> HIDE DEF H
    <3>3. Solves(flatten, N)
      <4> HIDE DEF Solves
      <4>1. QED BY <3>2
    <3> HIDE DEF flatten
    <3> DEFINE U == {i \in Nat : i \in 1 .. N => flatten[i] = F[i]}
    <3>4. U = Nat
      <4>1. 0 \in U
        OBVIOUS
      <4>2. ASSUME NEW i \in U PROVE i + 1 \in U
        <5>1. SUFFICES ASSUME i + 1 \in 1 .. N PROVE flatten[i + 1] = F[i + 1]
          OBVIOUS
        <5>2. flatten[i + 1] = IF i + 1 = 1 THEN q[i + 1]
                                            ELSE flatten[(i + 1) - 1] \o q[i + 1]
          BY <3>3, <5>1
        <5>3. F[i + 1] = F[(i + 1) - 1] \o q[i + 1]
          BY <1>4, <5>1
        <5>4. i \in Nat /\ (i + 1) - 1 = i /\ << >> \o q[i + 1] = q[i + 1]
          BY <1>0, <5>1
        <5>5. CASE i = 0
          <6>1. i + 1 = 1 /\ (i + 1) - 1 = 0
            BY <5>5
          <6>2. F[(i + 1) - 1] = << >>
            BY <1>4, <6>1
          <6>3. flatten[i + 1] = q[i + 1]
            BY <5>2, <6>1
          <6>4. QED BY <5>3, <5>4, <6>2, <6>3
        <5>6. CASE i # 0
          <6>1. i \in 1 .. N
            BY <1>0, <5>1, <5>4, <5>6
          <6>2. flatten[i] = F[i]
            BY <6>1
          <6>3. i + 1 # 1
            BY <5>4, <5>6
          <6>4. QED BY <5>2, <5>3, <5>4, <6>2, <6>3
        <5>7. QED BY <5>5, <5>6
      <4>3. QED
        <5> HIDE DEF U
        <5>1. U \subseteq Nat
          BY DEF U
        <5>2. QED BY <4>1, <4>2, <5>1, SetInduction
    <3>5. flatten[N] = F[N]
      <4>1. N \in U => (N \in 1 .. N => flatten[N] = F[N])
        OBVIOUS
      <4>2. N \in 1 .. N
        BY <1>0, <2>2
      <4> HIDE DEF U
      <4>3. QED BY <1>0, <3>4, <4>1, <4>2
    <3>6. QED BY <3>1, <3>5
  <2>3. QED BY <2>1, <2>2
<1>6. QED
  BY <1>4, <1>5 DEF N

-----------------------------------------------------------------------------
(* Each byte asked for is a sequence of five for the parser; the sequences *)
(* of the earlier section do not care what the parser did before.           *)

(* What can be asked of the controller.                                    *)
Asks == {"GGDC_CMD_PORT", "GGDC_PARAM_PORT"} \X Octet

(* The places of the program, by what their turn counts.                   *)
Opening == {"start", "reset", "master", "begin"}
Filling == {"fill", "vector", "csrw", "low", "high", "third", "write", "wlow", "whigh"}
Masking == {"textw", "mask1", "mask2"}
Drawing == {"arc", "origin", "shape", "curve", "vecte"}
Looping == {"vector", "origin", "curve"}

Registers == [C : Octet, D : Octet, E : Octet]

(* The program's own state: in a loop, C is the number of bytes at HL.     *)
Machine ==
  /\ pc \in Opening \cup Filling \cup Masking \cup Drawing \cup {"done"}
  /\ pc \in Opening \cup Masking => turn = 1
  /\ pc \in Filling => turn \in 1 .. Len(fill_table)
  /\ pc \in Drawing => turn \in 1 .. Len(arc_table)
  /\ regs \in Registers /\ hl \in Seq(Octet)
  /\ pc \in Looping => regs.C = Len(hl) /\ Len(hl) \in 1 .. 11

(* The terminal's part.                                                    *)
Faithful ==
  /\ ps \in ParserState /\ ps.state = 0
  /\ asked \in Seq(Asks) /\ GgdcGot = asked

TestInv ==
  /\ Machine
  /\ pc = "start" => ps \in ParserState /\ ps.did = << >> /\ asked = << >>
  /\ pc # "start" => Faithful

(* The digits the program writes are the ones the parser reads.            *)
LEMMA SameHex ==
  ASSUME NEW d \in 0 .. 15
  PROVE  put_hex_nibble(d) = Hex(d)
BY DEF put_hex_nibble, Hex

GotFrom(s) == [i \in DOMAIN s.did |-> <<s.did[i].what, s.did[i].args[1]>>]

(* One more byte for the controller.                                       *)
LEMMA GotGrows ==
  ASSUME NEW s \in ParserState, NEW u \in ParserState, NEW n \in Octet,
         NEW what \in {"GGDC_CMD_PORT", "GGDC_PARAM_PORT"}, GotFrom(s) \in Seq(Asks),
         u.did = Append(s.did, [what |-> what, args |-> <<n>>, attr |-> s.attr])
  PROVE  GotFrom(u) = Append(GotFrom(s), <<what, n>>)
<1> DEFINE e == [what |-> what, args |-> <<n>>, attr |-> s.attr]
           d == s.did
           m == Len(d)
           x == <<what, n>>
           got(q) == [i \in DOMAIN q |-> <<q[i].what, q[i].args[1]>>]
<1>1. e.what = what /\ e.args[1] = n
  OBVIOUS
<1>2. d \in Effects /\ x \in Asks
  BY DEF ParserState, Asks
<1> HIDE DEF e, d
<1>3. /\ m \in Nat /\ DOMAIN d = 1 .. m /\ DOMAIN Append(d, e) = 1 .. (m + 1)
      /\ Append(d, e)[m + 1] = e
      /\ \A i \in 1 .. m : Append(d, e)[i] = d[i]
  <2>1. e \in [what : EffectNames, args : Seq(Nat), attr : Attr]
    <3>1. <<n>> \in Seq(Nat) /\ what \in EffectNames
      BY DEF EffectNames, Octet
    <3>2. QED BY <3>1 DEF ParserState, e
  <2>2. QED BY <1>2, <2>1 DEF Effects
<1>4. got(d) \in Seq(Asks) /\ Len(got(d)) = m
  <2>1. got(d) \in Seq(Asks) /\ DOMAIN got(d) = 1 .. m
    BY <1>3 DEF GotFrom, d
  <2> HIDE DEF got
  <2>2. QED BY <1>3, <2>1
<1>5. got(Append(d, e)) = [i \in 1 .. (m + 1) |-> IF i = m + 1 THEN x ELSE got(d)[i]]
  <2>1. \A i \in 1 .. m : i # m + 1 /\ i \in 1 .. (m + 1)
    BY <1>3
  <2>2. ASSUME NEW i \in 1 .. (m + 1)
        PROVE  got(Append(d, e))[i] = IF i = m + 1 THEN x ELSE got(d)[i]
    <3>1. CASE i = m + 1
      BY <1>1, <1>3, <3>1
    <3>2. CASE i # m + 1
      <4>1. i \in 1 .. m
        BY <1>3, <3>2
      <4>2. QED BY <1>3, <3>2, <4>1
    <3>3. QED BY <3>1, <3>2
  <2>3. QED BY <1>3, <2>2
<1> HIDE DEF got, x
<1>6. Append(got(d), x) = [i \in 1 .. (m + 1) |-> IF i = m + 1 THEN x ELSE got(d)[i]]
  <2> DEFINE A == Append(got(d), x)
  <2>1. A \in Seq(Asks) /\ Len(A) = m + 1
    BY <1>2, <1>3, <1>4
  <2>2. \A i \in 1 .. (m + 1) : A[i] = IF i = m + 1 THEN x ELSE got(d)[i]
    BY <1>2, <1>3, <1>4
  <2> HIDE DEF A
  <2>3. A = [i \in 1 .. (m + 1) |-> A[i]]
    BY <2>1
  <2>4. QED BY <2>2, <2>3 DEF A
<1>7. QED
  BY <1>5, <1>6 DEF GotFrom, got, x, d, e

(* A call of send_proxy_a: the controller gets the byte on the port named, *)
(* and nothing else comes of the sequence.                                 *)
LEMMA SentFaithfully ==
  ASSUME Faithful, NEW port \in Ports, NEW a \in Octet,
         SendProxy(port[1], port[2], a)
  PROVE  Faithful' /\ asked' = Append(asked, <<port[2], a>>)
<1> DEFINE bytes == <<ESC, ch.G, port[1], Hex(a \div 16), Hex(a % 16)>>
           e == [what |-> port[2], args |-> <<a>>, attr |-> ps.attr]
<1>1. Proxy(port[1], a) = bytes
  <2>1. a \div 16 \in 0 .. 15 /\ a % 16 \in 0 .. 15
    BY DEF Octet
  <2>2. QED BY <2>1, SameHex DEF Proxy
<1>2. ps \in ParserState /\ ps.state = 0
  BY DEF Faithful
<1>3. /\ bytes \in Seq(Octet)
      /\ \E u \in ParserState : /\ Leads(ps, bytes, u)
                               /\ u.state = 0 /\ u.attr = ps.attr
                               /\ u.did = Append(ps.did, e)
  BY <1>2, GdcLeads
<1> HIDE DEF bytes, e
<1>4. PICK u \in ParserState :
        Leads(ps, bytes, u) /\ u.state = 0 /\ u.did = Append(ps.did, e)
  BY <1>3
<1>5. ps' = u
  <2>1. Parsed(ps, bytes) = u
    BY <1>2, <1>3, <1>4, ParsedIs
  <2>2. QED BY <1>1, <2>1 DEF SendProxy
<1>6. asked' = Append(asked, <<port[2], a>>)
  BY DEF SendProxy
<1>7. port[2] \in EffectNames /\ port[2] \in {"GGDC_CMD_PORT", "GGDC_PARAM_PORT"}
  BY DEF Ports, EffectNames
<1>8. asked' \in Seq(Asks)
  <2>1. <<port[2], a>> \in Asks
    BY <1>7 DEF Asks
  <2>2. QED BY <1>6, <2>1 DEF Faithful
<1>9. GgdcGot' = asked'
  <2>1. GgdcGot = GotFrom(ps) /\ GgdcGot' = GotFrom(ps')
    BY DEF GgdcGot, GotFrom
  <2>2. GotFrom(ps) = asked /\ GotFrom(ps) \in Seq(Asks)
    BY <2>1 DEF Faithful
  <2>3. GotFrom(u) = Append(GotFrom(ps), <<port[2], a>>)
    <3>1. u.did = Append(ps.did, [what |-> port[2], args |-> <<a>>, attr |-> ps.attr])
      BY <1>4 DEF e
    <3>2. QED BY <1>2, <1>7, <2>2, <3>1, GotGrows
  <2>4. QED BY <1>5, <1>6, <2>1, <2>2, <2>3
<1>10. QED
  BY <1>4, <1>5, <1>6, <1>8, <1>9 DEF Faithful

(* The heading: a carriage return ends what was left, and line feeds and   *)
(* letters leave the parser at rest.                                       *)
LEMMA PlainRests ==
  ASSUME NEW s \in ParserState, s.state = 0, NEW b \in {10, ch.G, CR}
  PROVE  handle_char(s, b) \in ParserState /\ handle_char(s, b).state = 0
<1>1. b \in Octet
  BY DEF Octet, ch, CR
<1>2. handle_char(s, b) \in ParserState
  BY <1>1, HandleTypes
<1>3. CASE b = CR
  BY <1>2, <1>3, CarriageReturnIsRest
<1>4. CASE b \in {10, ch.G}
  <2>1. \E what, args : handle_char(s, b) = Does(s, what, args)
    BY <1>4 DEF handle_char, handle_plain, ch, CR, ESC
  <2>2. \A what, args : Does(s, what, args).state = s.state
    BY DEF Does, ParserState
  <2>3. QED BY <1>2, <2>1, <2>2
<1>5. QED
  BY <1>3, <1>4

LEMMA HeadingRests ==
  ASSUME NEW s \in ParserState
  PROVE  LET u == Parsed(s, <<CR, 10, ch.G, CR, 10>>)
         IN  u \in ParserState /\ u.state = 0
<1> DEFINE t == <<CR, 10, ch.G, CR, 10>>
           u1 == handle_char(s, CR)
           u2 == handle_char(u1, 10)
           u3 == handle_char(u2, ch.G)
           u4 == handle_char(u3, CR)
           u5 == handle_char(u4, 10)
           f == [i \in 0 .. 5 |-> CASE i = 0 -> s [] i = 1 -> u1 [] i = 2 -> u2
                                    [] i = 3 -> u3 [] i = 4 -> u4 [] i = 5 -> u5]
<1>1. u1 \in ParserState /\ u1.state = 0
  BY HandleTypes, CarriageReturnIsRest DEF CR, Octet
<1> HIDE DEF u1
<1>2. u2 \in ParserState /\ u2.state = 0
  BY <1>1, PlainRests
<1> HIDE DEF u2
<1>3. u3 \in ParserState /\ u3.state = 0
  BY <1>2, PlainRests
<1> HIDE DEF u3
<1>4. u4 \in ParserState /\ u4.state = 0
  BY <1>3, PlainRests
<1> HIDE DEF u4
<1>5. u5 \in ParserState /\ u5.state = 0
  BY <1>4, PlainRests
<1> HIDE DEF u5
<1>6. f \in [0 .. 5 -> ParserState] /\ f[0] = s /\ f[5] = u5
  BY <1>1, <1>2, <1>3, <1>4, <1>5
<1>7. \A i \in 1 .. 5 : f[i] = handle_char(f[i - 1], t[i])
  <2>1. \A i \in 1 .. 5 : i = 1 \/ i = 2 \/ i = 3 \/ i = 4 \/ i = 5
    OBVIOUS
  <2>2. QED BY <2>1 DEF u1, u2, u3, u4, u5
<1>8. Len(t) = 5 /\ t \in Seq(Octet)
  BY DEF CR, ch, Octet
<1> HIDE DEF f, t
<1>9. Leads(s, t, u5)
  BY <1>6, <1>7, <1>8 DEF Leads
<1>10. Parsed(s, t) = u5
  BY <1>8, <1>9, ParsedIs
<1>11. QED
  BY <1>5, <1>10 DEF t

LEMMA CommandsAreBytes == \A c \in DOMAIN CMD : CMD[c] \in Octet
BY DEF CMD, Octet

LEMMA SentRegisters ==
  ASSUME NEW r \in Registers, NEW a \in Octet
  PROVE  /\ send_proxy_a(r, a) \in Registers
         /\ send_proxy_a(r, a).C = r.C /\ send_proxy_a(r, a).D = r.D
         /\ send_proxy_a(r, a).E = a
BY DEF send_proxy_a, Registers

LEMMA CommandAsked ==
  ASSUME Faithful, NEW a \in Octet, send_cmd_a(a)
  PROVE  Faithful' /\ asked' = Append(asked, <<"GGDC_CMD_PORT", a>>)
<1>1. <<ch.C, "GGDC_CMD_PORT">> \in Ports
  BY DEF Ports
<1>2. QED
  BY <1>1, SentFaithfully DEF send_cmd_a

LEMMA ParameterAsked ==
  ASSUME Faithful, NEW a \in Octet, send_param_a(a)
  PROVE  Faithful' /\ asked' = Append(asked, <<"GGDC_PARAM_PORT", a>>)
<1>1. <<ch.P, "GGDC_PARAM_PORT">> \in Ports
  BY DEF Ports
<1>2. QED
  BY <1>1, SentFaithfully DEF send_param_a

(* Where a step leads.                                                     *)
Steps(p, q) == pc = p /\ pc' = q /\ regs' \in Registers /\ hl' \in Seq(Octet)

(* The kinds of step, one by one.                                          *)
LEMMA CommandStep ==
  ASSUME TestInv, NEW p, p # "start", NEW q, NEW a \in Octet, Command(p, q, a)
  PROVE  /\ Steps(p, q) /\ regs'.C = regs.C /\ turn' = turn /\ hl' = hl
         /\ Faithful' /\ asked' = Append(asked, <<"GGDC_CMD_PORT", a>>)
<1>1. /\ pc = p /\ pc' = q /\ send_cmd_a(a) /\ regs' = send_proxy_a(regs, a)
      /\ turn' = turn /\ hl' = hl
  BY DEF Command, From
<1>2. Faithful /\ regs \in Registers /\ hl \in Seq(Octet)
  BY <1>1 DEF TestInv, Machine
<1>3. QED
  BY <1>1, <1>2, SentRegisters, CommandAsked DEF Steps

LEMMA ParameterStep ==
  ASSUME TestInv, NEW p, p # "start", NEW q, NEW a \in Octet, Parameter(p, q, a)
  PROVE  /\ Steps(p, q) /\ regs'.C = regs.C /\ turn' = turn /\ hl' = hl
         /\ Faithful' /\ asked' = Append(asked, <<"GGDC_PARAM_PORT", a>>)
<1>1. /\ pc = p /\ pc' = q /\ send_param_a(a) /\ regs' = send_proxy_a(regs, a)
      /\ turn' = turn /\ hl' = hl
  BY DEF Parameter, From
<1>2. Faithful /\ regs \in Registers /\ hl \in Seq(Octet)
  BY <1>1 DEF TestInv, Machine
<1>3. QED
  BY <1>1, <1>2, SentRegisters, ParameterAsked DEF Steps

LEMMA CommandThenStep ==
  ASSUME TestInv, NEW p, p # "start", NEW q, NEW a \in Octet, NEW count \in Octet,
         NEW bytes \in Seq(Octet), CommandThen(p, q, a, count, bytes)
  PROVE  /\ Steps(p, q) /\ regs'.C = count /\ turn' = turn /\ hl' = bytes
         /\ Faithful' /\ asked' = Append(asked, <<"GGDC_CMD_PORT", a>>)
<1>1. /\ pc = p /\ pc' = q /\ send_cmd_a(a)
      /\ regs' = [send_proxy_a(regs, a) EXCEPT !.C = count]
      /\ turn' = turn /\ hl' = bytes
  BY DEF CommandThen, From
<1>2. Faithful /\ regs \in Registers
  BY <1>1 DEF TestInv, Machine
<1>3. send_proxy_a(regs, a) \in Registers
  BY <1>2, SentRegisters
<1>4. regs' \in Registers /\ regs'.C = count
  BY <1>1, <1>3 DEF Registers
<1>5. QED
  BY <1>1, <1>2, <1>4, CommandAsked DEF Steps

LEMMA LoopStep ==
  ASSUME TestInv, NEW p \in Looping, NEW q, send_params_hl_c(p, q)
  PROVE  /\ pc = p /\ regs' \in Registers /\ turn' = turn
         /\ Len(hl) \in 1 .. 11 /\ Head(hl) \in Octet
         /\ hl' = Tail(hl) /\ hl' \in Seq(Octet) /\ Len(hl') = Len(hl) - 1
         /\ regs.C = Len(hl) /\ regs'.C = Len(hl')
         /\ hl' # << >> => Len(hl') \in 1 .. 11
         /\ pc' = IF hl' = << >> THEN q ELSE p
         /\ Faithful' /\ asked' = Append(asked, <<"GGDC_PARAM_PORT", Head(hl)>>)
<1>1. /\ pc = p /\ send_param_a(Head(hl))
      /\ regs' = [send_proxy_a(regs, Head(hl)) EXCEPT !.C = (@ - 1) % 256]
      /\ hl' = Tail(hl) /\ turn' = turn
      /\ pc' = IF regs'.C = 0 THEN q ELSE p
  BY DEF send_params_hl_c
<1>2. p # "start"
  BY DEF Looping
<1>3. /\ Faithful /\ regs \in Registers /\ hl \in Seq(Octet)
      /\ regs.C = Len(hl) /\ Len(hl) \in 1 .. 11
  BY <1>1, <1>2 DEF TestInv, Machine
<1>4. /\ Head(hl) \in Octet /\ Tail(hl) \in Seq(Octet)
      /\ Len(Tail(hl)) = Len(hl) - 1 /\ Len(hl) - 1 \in Octet
      /\ (Len(hl) - 1) % 256 = Len(hl) - 1
      /\ Tail(hl) = << >> <=> Len(hl) - 1 = 0
      /\ Len(hl) - 1 # 0 => Len(hl) - 1 \in 1 .. 11
  <2>0. Len(<< >>) = 0 /\ 0 \notin 1 .. 11
    OBVIOUS
  <2>1. hl # << >>
    BY <1>3, <2>0, Zenon
  <2>2. Head(hl) \in Octet /\ Tail(hl) \in Seq(Octet) /\ Len(Tail(hl)) = Len(hl) - 1
    BY <1>3, <2>1
  <2>3. \A t \in Seq(Octet) : t = << >> <=> Len(t) = 0
    OBVIOUS
  <2>4. Tail(hl) = << >> <=> Len(hl) - 1 = 0
    BY <2>2, <2>3
  <2> DEFINE k == Len(hl)
  <2>5. k \in 1 .. 11
    BY <1>3
  <2> HIDE DEF k
  <2>6. /\ k - 1 \in Octet /\ (k - 1) % 256 = k - 1
        /\ k - 1 # 0 => k - 1 \in 1 .. 11
    BY <2>5 DEF Octet
  <2>7. QED BY <2>2, <2>4, <2>6 DEF k
<1>5. /\ send_proxy_a(regs, Head(hl)) \in Registers
      /\ send_proxy_a(regs, Head(hl)).C = Len(hl)
  BY <1>3, <1>4, SentRegisters
<1>6. regs' \in Registers /\ regs'.C = Len(hl) - 1
  BY <1>1, <1>4, <1>5, SMTT(30) DEF Registers
<1>7. Faithful' /\ asked' = Append(asked, <<"GGDC_PARAM_PORT", Head(hl)>>)
  BY <1>1, <1>3, <1>4, ParameterAsked
<1>8. QED
  BY <1>1, <1>3, <1>4, <1>6, <1>7

(* The tables, as sequences of bytes.                                      *)
LEMMA TupleIsSeq ==
  ASSUME NEW S, NEW n \in Nat, NEW e \in [1 .. n -> S]
  PROVE  e \in Seq(S) /\ Len(e) = n
<1>1. [i \in 1 .. n |-> e[i]] \in Seq(S)
  OBVIOUS
<1>2. e = [i \in 1 .. n |-> e[i]]
  OBVIOUS
<1>3. e \in Seq(S) /\ DOMAIN e = 1 .. n
  BY <1>1, <1>2
<1>4. QED
  BY <1>3

LEMMA Tables ==
  /\ linear_vector \in Seq(Octet) /\ Len(linear_vector) = 11
  /\ Len(fill_table) \in Nat \ {0} /\ Len(arc_table) \in Nat \ {0}
  /\ \A i \in 1 .. Len(fill_table) : fill_table[i] \in [1 .. 5 -> Octet]
  /\ \A i \in 1 .. Len(arc_table) :
       /\ arc_table[i] \in [1 .. 14 -> Octet]
       /\ SubSeq(arc_table[i], 1, 3) \in Seq(Octet)
       /\ SubSeq(arc_table[i], 4, 14) \in Seq(Octet)
       /\ Len(SubSeq(arc_table[i], 1, 3)) = 3
       /\ Len(SubSeq(arc_table[i], 4, 14)) = 11
<1>1. /\ linear_vector \in [1 .. 11 -> Octet]
      /\ fill_table \in Seq([1 .. 5 -> Octet]) \ {<< >>}
      /\ arc_table \in Seq([1 .. 14 -> Octet]) \ {<< >>}
  BY TablesAreBytes DEF Bytes, Octet
<1>2. /\ Len(fill_table) \in Nat \ {0} /\ Len(arc_table) \in Nat \ {0}
      /\ \A i \in 1 .. Len(fill_table) : fill_table[i] \in [1 .. 5 -> Octet]
      /\ \A i \in 1 .. Len(arc_table) : arc_table[i] \in [1 .. 14 -> Octet]
  BY <1>1
<1>3. linear_vector \in Seq(Octet) /\ Len(linear_vector) = 11
  BY <1>1, TupleIsSeq, ZenonT(30)
<1>4. ASSUME NEW e \in [1 .. 14 -> Octet]
      PROVE  /\ SubSeq(e, 1, 3) \in Seq(Octet) /\ Len(SubSeq(e, 1, 3)) = 3
             /\ SubSeq(e, 4, 14) \in Seq(Octet) /\ Len(SubSeq(e, 4, 14)) = 11
  <2>1. e \in Seq(Octet) /\ Len(e) = 14
    BY TupleIsSeq, ZenonT(30)
  <2>2. QED BY <2>1
<1>5. QED
  BY <1>2, <1>3, <1>4

LEMMA FillLoadStep ==
  ASSUME TestInv, FillLoad
  PROVE  /\ Steps("fill", "vector") /\ regs'.C = 11 /\ turn' = turn
         /\ hl' = linear_vector
         /\ Faithful' /\ asked' = Append(asked, <<"GGDC_CMD_PORT", CMD.VECTW>>)
<1> DEFINE r == [regs EXCEPT !.D = Entry[1], !.E = Entry[2]]
<1>1. /\ pc = "fill" /\ pc' = "vector" /\ send_cmd_a(CMD.VECTW)
      /\ regs' = [send_proxy_a(r, CMD.VECTW) EXCEPT !.C = 11]
      /\ turn' = turn /\ hl' = linear_vector
  BY DEF FillLoad, From
<1>2. Faithful /\ regs \in Registers /\ turn \in 1 .. Len(fill_table)
  BY <1>1 DEF TestInv, Machine, Filling
<1>3. Entry[1] \in Octet /\ Entry[2] \in Octet /\ CMD.VECTW \in Octet
  <2>1. Entry \in [1 .. 5 -> Octet]
    BY <1>2, Tables DEF Entry
  <2>2. QED BY <2>1 DEF CMD, Octet
<1>4. r \in Registers
  BY <1>2, <1>3 DEF Registers
<1> HIDE DEF r
<1>5. send_proxy_a(r, CMD.VECTW) \in Registers /\ 11 \in Octet
  BY <1>3, <1>4, SentRegisters, SMTT(30) DEF Octet
<1>6. regs' \in Registers /\ regs'.C = 11
  BY <1>1, <1>5 DEF Registers
<1>7. Faithful' /\ asked' = Append(asked, <<"GGDC_CMD_PORT", CMD.VECTW>>)
  BY <1>1, <1>2, <1>3, CommandAsked
<1>8. QED
  BY <1>1, <1>6, <1>7, Tables DEF Steps

LEMMA FillWriteStep ==
  ASSUME TestInv, FillWrite
  PROVE  /\ Steps("write", "wlow") /\ turn' = turn /\ hl' = hl
         /\ Faithful' /\ asked' = Append(asked, <<"GGDC_CMD_PORT", CMD.WRITE>>)
<1> DEFINE r == [regs EXCEPT !.E = Entry[4], !.D = Entry[5]]
<1>1. /\ pc = "write" /\ pc' = "wlow" /\ send_cmd_a(CMD.WRITE)
      /\ regs' = send_proxy_a(r, CMD.WRITE)
      /\ turn' = turn /\ hl' = hl
  BY DEF FillWrite, From
<1>2. /\ Faithful /\ regs \in Registers /\ turn \in 1 .. Len(fill_table)
      /\ hl \in Seq(Octet)
  BY <1>1 DEF TestInv, Machine, Filling
<1>3. Entry[4] \in Octet /\ Entry[5] \in Octet /\ CMD.WRITE \in Octet
  <2>1. Entry \in [1 .. 5 -> Octet]
    BY <1>2, Tables DEF Entry
  <2>2. QED BY <2>1 DEF CMD, Octet
<1>4. r \in Registers
  BY <1>2, <1>3 DEF Registers
<1> HIDE DEF r
<1>5. regs' \in Registers
  BY <1>1, <1>3, <1>4, SentRegisters
<1>6. Faithful' /\ asked' = Append(asked, <<"GGDC_CMD_PORT", CMD.WRITE>>)
  BY <1>1, <1>2, <1>3, CommandAsked
<1>7. QED
  BY <1>1, <1>2, <1>5, <1>6 DEF Steps

LEMMA FillNextStep ==
  ASSUME TestInv, FillNext
  PROVE  /\ pc = "whigh" /\ regs' \in Registers /\ hl' = hl
         /\ IF turn = Len(fill_table) THEN turn' = 1 /\ pc' = "textw"
                                      ELSE turn' = turn + 1 /\ pc' = "fill"
         /\ Faithful' /\ asked' = Append(asked, <<"GGDC_PARAM_PORT", regs.D>>)
         /\ regs.D \in Octet
<1>1. /\ pc = "whigh" /\ send_param_a(regs.D) /\ regs' = send_proxy_a(regs, regs.D)
      /\ hl' = hl
      /\ IF turn = Len(fill_table) THEN turn' = 1 /\ pc' = "textw"
                                   ELSE turn' = turn + 1 /\ pc' = "fill"
  BY DEF FillNext
<1>2. Faithful /\ regs \in Registers /\ regs.D \in Octet
  BY <1>1 DEF TestInv, Machine, Registers
<1>3. QED
  BY <1>1, <1>2, SentRegisters, ParameterAsked

LEMMA ArcNextStep ==
  ASSUME TestInv, ArcNext
  PROVE  /\ pc = "vecte" /\ regs' \in Registers /\ hl' = hl
         /\ IF turn = Len(arc_table) THEN turn' = turn /\ pc' = "done"
                                     ELSE turn' = turn + 1 /\ pc' = "arc"
         /\ Faithful' /\ asked' = Append(asked, <<"GGDC_CMD_PORT", CMD.VECTE>>)
<1>1. /\ pc = "vecte" /\ send_cmd_a(CMD.VECTE) /\ regs' = send_proxy_a(regs, CMD.VECTE)
      /\ hl' = hl
      /\ IF turn = Len(arc_table) THEN turn' = turn /\ pc' = "done"
                                  ELSE turn' = turn + 1 /\ pc' = "arc"
  BY DEF ArcNext
<1>2. Faithful /\ regs \in Registers /\ CMD.VECTE \in Octet
  BY <1>1 DEF TestInv, Machine, CMD, Octet
<1>3. QED
  BY <1>1, <1>2, SentRegisters, CommandAsked

LEMMA StartStep ==
  ASSUME TestInv, Start
  PROVE  TestInv'
<1> DEFINE u == Parsed(ps, <<CR, 10, ch.G, CR, 10>>)
<1>1. /\ pc = "start" /\ pc' = "reset" /\ ps' = [u EXCEPT !.did = << >>]
      /\ turn' = turn /\ regs' = regs /\ hl' = hl /\ asked' = asked
  BY DEF Start, From
<1>2. ps \in ParserState /\ asked = << >> /\ Machine
  BY <1>1 DEF TestInv
<1>3. u \in ParserState /\ u.state = 0
  BY <1>2, HeadingRests
<1> HIDE DEF u
<1>4. << >> \in Effects
  BY EmptyIsSeq DEF Effects
<1>5. ps' \in ParserState /\ ps'.state = 0 /\ ps'.did = << >>
  BY <1>1, <1>3, <1>4 DEF ParserState
<1>6. GgdcGot' = << >>
  <2>1. GgdcGot' = GotFrom(ps')
    BY DEF GgdcGot, GotFrom
  <2>2. GotFrom(ps') = << >>
    BY <1>5 DEF GotFrom
  <2>3. QED BY <2>1, <2>2
<1>7. Faithful'
  BY <1>1, <1>2, <1>5, <1>6, EmptyIsSeq DEF Faithful
<1>8. Machine'
  BY <1>1, <1>2 DEF Machine, Opening, Filling, Masking, Drawing, Looping
<1>9. QED
  BY <1>1, <1>7, <1>8 DEF TestInv

LEMMA TestStep == TestInv /\ TestNext => TestInv'
<1> SUFFICES ASSUME TestInv, TestNext PROVE TestInv'
  OBVIOUS
<1> USE DEF Machine, Opening, Filling, Masking, Drawing, Looping
<1>1. Machine
  BY DEF TestInv
<1>2. SUFFICES ASSUME ~Start PROVE Machine' /\ Faithful' /\ pc' # "start"
  BY StartStep DEF TestInv
<1>3. Len(fill_table) \in Nat \ {0} /\ Len(arc_table) \in Nat \ {0}
  BY Tables
<1>4. \A c \in {"RESET", "MASTER", "START", "CSRW", "VECTW", "TEXTW"} : CMD[c] \in Octet
  BY DEF CMD, Octet
<1>5. 3 \in Octet /\ 11 \in Octet /\ 255 \in Octet
  BY DEF Octet
<1>6. regs \in Registers /\ regs.C \in Octet /\ regs.D \in Octet /\ regs.E \in Octet
  BY <1>1 DEF Registers
<1>7. CASE Command("reset", "master", CMD.RESET)
  <2>1. Steps("reset", "master") /\ turn' = turn /\ Faithful'
    BY <1>4, <1>5, <1>6, <1>7, CommandStep
  <2>2. QED BY <1>1, <1>3, <2>1 DEF Steps
<1>8. CASE Command("master", "begin", CMD.MASTER)
  <2>1. Steps("master", "begin") /\ turn' = turn /\ Faithful'
    BY <1>4, <1>5, <1>6, <1>8, CommandStep
  <2>2. QED BY <1>1, <1>3, <2>1 DEF Steps
<1>9. CASE Command("begin", "fill", CMD.START)
  <2>1. Steps("begin", "fill") /\ turn' = turn /\ Faithful'
    BY <1>4, <1>5, <1>6, <1>9, CommandStep
  <2>2. QED BY <1>1, <1>3, <2>1 DEF Steps
<1>10. CASE Command("csrw", "low", CMD.CSRW)
  <2>1. Steps("csrw", "low") /\ turn' = turn /\ Faithful'
    BY <1>4, <1>5, <1>6, <1>10, CommandStep
  <2>2. QED BY <1>1, <1>3, <2>1 DEF Steps
<1>11. CASE Command("textw", "mask1", CMD.TEXTW)
  <2>1. Steps("textw", "mask1") /\ turn' = turn /\ Faithful'
    BY <1>4, <1>5, <1>6, <1>11, CommandStep
  <2>2. QED BY <1>1, <1>3, <2>1 DEF Steps
<1>12. CASE Parameter("low", "high", regs.E)
  <2>1. Steps("low", "high") /\ turn' = turn /\ Faithful'
    BY <1>4, <1>5, <1>6, <1>12, ParameterStep
  <2>2. QED BY <1>1, <1>3, <2>1 DEF Steps
<1>13. CASE Parameter("high", "third", regs.D)
  <2>1. Steps("high", "third") /\ turn' = turn /\ Faithful'
    BY <1>4, <1>5, <1>6, <1>13, ParameterStep
  <2>2. QED BY <1>1, <1>3, <2>1 DEF Steps
<1>14. CASE Parameter("third", "write", regs.C)
  <2>1. Steps("third", "write") /\ turn' = turn /\ Faithful'
    BY <1>4, <1>5, <1>6, <1>14, ParameterStep
  <2>2. QED BY <1>1, <1>3, <2>1 DEF Steps
<1>15. CASE Parameter("wlow", "whigh", regs.E)
  <2>1. Steps("wlow", "whigh") /\ turn' = turn /\ Faithful'
    BY <1>4, <1>5, <1>6, <1>15, ParameterStep
  <2>2. QED BY <1>1, <1>3, <2>1 DEF Steps
<1>16. CASE Parameter("mask1", "mask2", 255)
  <2>1. Steps("mask1", "mask2") /\ turn' = turn /\ Faithful'
    BY <1>4, <1>5, <1>6, <1>16, ParameterStep, ZenonT(30)
  <2>2. QED BY <1>1, <1>3, <2>1 DEF Steps
<1>17. CASE Parameter("mask2", "arc", 255)
  <2>1. Steps("mask2", "arc") /\ turn' = turn /\ Faithful'
    BY <1>4, <1>5, <1>6, <1>17, ParameterStep, ZenonT(30)
  <2>2. QED BY <1>1, <1>3, <2>1 DEF Steps
<1>18. CASE send_params_hl_c("vector", "csrw")
  <2>1. "vector" \in Looping
    OBVIOUS
  <2>2. /\ pc = "vector" /\ regs' \in Registers /\ turn' = turn
        /\ Len(hl) \in 1 .. 11 /\ hl' \in Seq(Octet) /\ Len(hl') = Len(hl) - 1
        /\ (hl' # << >> => Len(hl') \in 1 .. 11) /\ regs'.C = Len(hl')
        /\ pc' = IF hl' = << >> THEN "csrw" ELSE "vector"
        /\ Faithful'
    BY <1>18, <2>1, LoopStep
  <2>3. QED BY <1>1, <2>2
<1>19. CASE send_params_hl_c("origin", "shape")
  <2>1. "origin" \in Looping
    OBVIOUS
  <2>2. /\ pc = "origin" /\ regs' \in Registers /\ turn' = turn
        /\ Len(hl) \in 1 .. 11 /\ hl' \in Seq(Octet) /\ Len(hl') = Len(hl) - 1
        /\ (hl' # << >> => Len(hl') \in 1 .. 11) /\ regs'.C = Len(hl')
        /\ pc' = IF hl' = << >> THEN "shape" ELSE "origin"
        /\ Faithful'
    BY <1>19, <2>1, LoopStep
  <2>3. QED BY <1>1, <2>2
<1>20. CASE send_params_hl_c("curve", "vecte")
  <2>1. "curve" \in Looping
    OBVIOUS
  <2>2. /\ pc = "curve" /\ regs' \in Registers /\ turn' = turn
        /\ Len(hl) \in 1 .. 11 /\ hl' \in Seq(Octet) /\ Len(hl') = Len(hl) - 1
        /\ (hl' # << >> => Len(hl') \in 1 .. 11) /\ regs'.C = Len(hl')
        /\ pc' = IF hl' = << >> THEN "vecte" ELSE "curve"
        /\ Faithful'
    BY <1>20, <2>1, LoopStep
  <2>3. QED BY <1>1, <2>2
<1>21. CASE CommandThen("arc", "origin", CMD.CSRW, 3,
                      SubSeq(arc_table[turn], 1, 3))
  <2> DEFINE bytes == SubSeq(arc_table[turn], 1, 3)
  <2>1. pc = "arc"
    BY <1>21 DEF CommandThen, From
  <2>2. bytes \in Seq(Octet) /\ Len(bytes) = 3
    BY <1>1, <2>1, Tables
  <2>3. CommandThen("arc", "origin", CMD.CSRW, 3, bytes)
    BY <1>21
  <2> HIDE DEF bytes
  <2>4. CMD.CSRW \in Octet /\ 3 \in Octet
    BY <1>4, <1>5
  <2>5. Steps("arc", "origin") /\ regs'.C = 3 /\ turn' = turn /\ hl' = bytes /\ Faithful'
    BY <2>2, <2>3, <2>4, CommandThenStep
  <2>6. QED BY <1>1, <2>2, <2>5 DEF Steps
<1>22. CASE CommandThen("shape", "curve", CMD.VECTW, 11,
                      SubSeq(arc_table[turn], 4, 14))
  <2> DEFINE bytes == SubSeq(arc_table[turn], 4, 14)
  <2>1. pc = "shape"
    BY <1>22 DEF CommandThen, From
  <2>2. bytes \in Seq(Octet) /\ Len(bytes) = 11
    BY <1>1, <2>1, Tables
  <2>3. CommandThen("shape", "curve", CMD.VECTW, 11, bytes)
    BY <1>22
  <2> HIDE DEF bytes
  <2>4. CMD.VECTW \in Octet /\ 11 \in Octet
    BY <1>4, <1>5
  <2>5. Steps("shape", "curve") /\ regs'.C = 11 /\ turn' = turn /\ hl' = bytes /\ Faithful'
    BY <2>2, <2>3, <2>4, CommandThenStep, ZenonT(30)
  <2>6. QED BY <1>1, <2>2, <2>5 DEF Steps
<1>23. CASE FillLoad
  <2>1. Steps("fill", "vector") /\ regs'.C = 11 /\ turn' = turn
        /\ hl' = linear_vector /\ Len(linear_vector) = 11 /\ Faithful'
    BY <1>23, FillLoadStep, Tables
  <2>2. QED BY <1>1, <2>1 DEF Steps
<1>24. CASE FillWrite
  <2>1. Steps("write", "wlow") /\ turn' = turn /\ Faithful'
    BY <1>24, FillWriteStep
  <2>2. QED BY <1>1, <2>1 DEF Steps
<1>25. CASE FillNext
  <2>1. /\ pc = "whigh" /\ regs' \in Registers /\ hl' = hl /\ Faithful'
        /\ IF turn = Len(fill_table) THEN turn' = 1 /\ pc' = "textw"
           ELSE turn' = turn + 1 /\ pc' = "fill"
    BY <1>25, FillNextStep
  <2>2. turn \in 1 .. Len(fill_table)
    BY <1>1, <2>1
  <2>3. turn # Len(fill_table) => turn + 1 \in 1 .. Len(fill_table)
    BY <1>3, <2>2
  <2>4. QED BY <1>1, <2>1, <2>3
<1>26. CASE ArcNext
  <2>1. /\ pc = "vecte" /\ regs' \in Registers /\ hl' = hl /\ Faithful'
        /\ IF turn = Len(arc_table) THEN turn' = turn /\ pc' = "done"
           ELSE turn' = turn + 1 /\ pc' = "arc"
    BY <1>26, ArcNextStep
  <2>2. turn \in 1 .. Len(arc_table)
    BY <1>1, <2>1
  <2>3. turn # Len(arc_table) => turn + 1 \in 1 .. Len(arc_table)
    BY <1>3, <2>2
  <2>4. QED BY <1>1, <2>1, <2>3
<1>27. QED
  BY <1>2, <1>7, <1>8, <1>9, <1>10, <1>11, <1>12, <1>13, <1>14, <1>15, <1>16,
     <1>17, <1>18, <1>19, <1>20, <1>21, <1>22, <1>23, <1>24, <1>25, <1>26
     DEF TestNext, init_ggdc, fill_gvram, draw_arcs

LEMMA TestInvStep == TestInv /\ [TestNext]_testVars => TestInv'
<1>1. ASSUME TestInv, UNCHANGED testVars PROVE TestInv'
  BY <1>1 DEF testVars, TestInv, Machine, Faithful, GgdcGot
<1>2. QED
  BY <1>1, TestStep

LEMMA TestInvInit == TestInit => TestInv
<1> SUFFICES ASSUME TestInit PROVE TestInv
  OBVIOUS
<1>1. ps \in ParserState /\ ps.did = << >>
  <2>1. ps \in Left
    BY LeftoversAreLeft DEF TestInit
  <2>2. << >> \in Effects
    BY EmptyIsSeq DEF Effects
  <2>3. QED BY <2>1, <2>2 DEF Left, ParserState, Octet
<1>2. Machine
  BY DEF TestInit, Machine, Opening, Filling, Masking, Drawing, Looping, Registers,
         Octet
<1>3. QED
  BY <1>1, <1>2 DEF TestInit, TestInv

(* Whatever an earlier program left of the parser, and whatever the tables *)
(* say, the controller has got the bytes the send calls were given, on     *)
(* their ports and in their order, and the parser is at rest again.        *)
THEOREM BytesPassThrough == TestSpec => []PassThrough
<1>1. TestInv => PassThrough
  BY DEF TestInv, Faithful, PassThrough
<1>2. QED
  BY <1>1, TestInvInit, TestInvStep, PTL DEF TestSpec

-----------------------------------------------------------------------------

(* Sequences of bytes asked for.                                           *)
LEMMA Regroup ==
  \A s, t \in Seq(Asks) :
    /\ s \o t \in Seq(Asks) /\ Len(s \o t) = Len(s) + Len(t)
    /\ \A u \in Seq(Asks) : (s \o t) \o u = s \o (t \o u)
<1>1. ASSUME NEW S
      PROVE  \A s, t \in Seq(S) :
               /\ s \o t \in Seq(S) /\ Len(s \o t) = Len(s) + Len(t)
               /\ \A u \in Seq(S) : (s \o t) \o u = s \o (t \o u)
  OBVIOUS
<1>2. QED
  BY <1>1

LEMMA MoveFirst ==
  ASSUME NEW S, NEW s \in Seq(S), NEW x \in S, NEW t \in Seq(S)
  PROVE  /\ Append(s, x) \o t = s \o (<<x>> \o t)
         /\ <<x>> \in Seq(S) /\ Append(s, x) = s \o <<x>>
OBVIOUS

(* What comes after the first m grows at its end.                          *)
LEMMA FromThere ==
  ASSUME NEW S, NEW s \in Seq(S), NEW x \in S, NEW m \in Nat, m <= Len(s)
  PROVE  /\ SubSeq(s, m + 1, Len(s)) \in Seq(S)
         /\ SubSeq(Append(s, x), m + 1, Len(Append(s, x)))
              = Append(SubSeq(s, m + 1, Len(s)), x)
<1> DEFINE n == Len(s)
           a == SubSeq(s, m + 1, n)
           w == Append(s, x)
           b == SubSeq(w, m + 1, n + 1)
           c == Append(a, x)
<1>1. n \in Nat /\ m <= n /\ a \in Seq(S) /\ Len(a) = n - m
  OBVIOUS
<1>2. w \in Seq(S) /\ Len(w) = n + 1 /\ w[n + 1] = x /\ \A i \in 1 .. n : w[i] = s[i]
  OBVIOUS
<1>3. \A i \in 1 .. (n - m) : a[i] = s[m + i]
  OBVIOUS
<1> HIDE DEF n, a, w
<1>4. /\ b \in Seq(S) /\ Len(b) = n + 1 - m
      /\ \A i \in 1 .. (n + 1 - m) : b[i] = w[m + i]
  BY <1>1, <1>2
<1>5. /\ c \in Seq(S) /\ Len(c) = n + 1 - m
      /\ c[n + 1 - m] = x /\ \A i \in 1 .. (n - m) : c[i] = a[i]
  BY <1>1
<1> HIDE DEF b, c
<1>6. ASSUME NEW i \in 1 .. (n + 1 - m) PROVE b[i] = c[i]
  <2>1. CASE i = n + 1 - m
    <3>1. m + i = n + 1
      BY <1>1, <2>1
    <3>2. QED BY <1>2, <1>4, <1>5, <2>1, <3>1
  <2>2. CASE i # n + 1 - m
    <3>1. i \in 1 .. (n - m) /\ m + i \in 1 .. n
      BY <1>1, <2>2
    <3>2. QED BY <1>2, <1>3, <1>4, <1>5, <3>1
  <2>3. QED BY <2>1, <2>2
<1>7. b = c
  <2>1. b = [i \in 1 .. (n + 1 - m) |-> b[i]] /\ c = [i \in 1 .. (n + 1 - m) |-> c[i]]
    BY <1>4, <1>5
  <2>2. QED BY <1>6, <2>1
<1>8. QED
  BY <1>1, <1>2, <1>7 DEF a, b, c, n, w

LEMMA FirstPart ==
  ASSUME NEW S, NEW s \in Seq(S), NEW t \in Seq(S)
  PROVE  IsPrefix(s, s \o t)
<1> DEFINE n == Len(s)
           w == s \o t
<1>1. /\ n \in Nat /\ w \in Seq(S) /\ n <= Len(w)
      /\ \A i \in 1 .. n : w[i] = s[i]
  OBVIOUS
<1> DEFINE a == SubSeq(s, 1, n)
           b == SubSeq(w, 1, n)
<1>2. a \in Seq(S) /\ Len(a) = n /\ \A i \in 1 .. n : a[i] = s[i]
  OBVIOUS
<1> HIDE DEF n, w
<1>3. b \in Seq(S) /\ Len(b) = n /\ \A i \in 1 .. n : b[i] = w[i]
  BY <1>1
<1> HIDE DEF a, b
<1>4. a = [i \in 1 .. n |-> a[i]] /\ b = [i \in 1 .. n |-> b[i]]
  BY <1>2, <1>3
<1>5. a = b
  BY <1>1, <1>2, <1>3, <1>4
<1>6. QED
  BY <1>1, <1>5 DEF IsPrefix, a, b, n, w

(* Bytes sent to one port.                                                 *)
LEMMA Marked ==
  ASSUME NEW what \in {"GGDC_CMD_PORT", "GGDC_PARAM_PORT"}, NEW q \in Seq(Octet)
  PROVE  LET m == [i \in DOMAIN q |-> <<what, q[i]>>]
         IN  /\ m \in Seq(Asks) /\ Len(m) = Len(q)
             /\ q # << >> => m = << <<what, Head(q)>> >> \o
                                   [i \in DOMAIN Tail(q) |-> <<what, Tail(q)[i]>>]
<1> DEFINE mark(t) == [i \in DOMAIN t |-> <<what, t[i]>>]
<1>1. ASSUME NEW t \in Seq(Octet)
      PROVE  mark(t) \in Seq(Asks) /\ Len(mark(t)) = Len(t)
  <2>1. DOMAIN t = 1 .. Len(t) /\ Len(t) \in Nat /\ \A i \in 1 .. Len(t) : t[i] \in Octet
    OBVIOUS
  <2>2. mark(t) \in [1 .. Len(t) -> Asks]
    BY <2>1 DEF Asks
  <2> HIDE DEF mark
  <2>3. QED BY <2>1, <2>2, TupleIsSeq
<1>2. ASSUME q # << >>
      PROVE  mark(q) = << <<what, Head(q)>> >> \o mark(Tail(q))
  <2> DEFINE x == <<what, Head(q)>>
             r == Tail(q)
             n == Len(q)
             c == <<x>> \o mark(r)
  <2>1. /\ n \in Nat \ {0} /\ Head(q) = q[1] /\ r \in Seq(Octet) /\ Len(r) = n - 1
        /\ \A i \in 1 .. (n - 1) : r[i] = q[i + 1]
    BY <1>2
  <2>2. x \in Asks
    BY <2>1 DEF Asks
  <2>3. /\ mark(r) \in Seq(Asks) /\ Len(mark(r)) = n - 1
        /\ mark(q) \in Seq(Asks) /\ Len(mark(q)) = n
    BY <1>1, <2>1
  <2>4. /\ \A i \in 1 .. (n - 1) : mark(r)[i] = <<what, r[i]>>
        /\ \A i \in 1 .. n : mark(q)[i] = <<what, q[i]>>
    BY <2>1
  <2> HIDE DEF mark, r, n, x
  <2>5. /\ c \in Seq(Asks) /\ Len(c) = n /\ c[1] = x
        /\ \A i \in 2 .. n : c[i] = mark(r)[i - 1]
    BY <2>1, <2>2, <2>3
  <2> HIDE DEF c
  <2>6. ASSUME NEW i \in 1 .. n PROVE mark(q)[i] = c[i]
    <3>1. CASE i = 1
      BY <2>1, <2>4, <2>5, <3>1 DEF x
    <3>2. CASE i # 1
      <4>1. i \in 2 .. n /\ i - 1 \in 1 .. (n - 1) /\ (i - 1) + 1 = i
        BY <2>1, <3>2
      <4>2. r[i - 1] = q[i]
        BY <2>1, <4>1
      <4>3. mark(r)[i - 1] = <<what, r[i - 1]>> /\ c[i] = mark(r)[i - 1]
        BY <2>4, <2>5, <4>1
      <4>4. QED BY <2>4, <4>2, <4>3
    <3>3. QED BY <3>1, <3>2
  <2>7. mark(q) = [i \in 1 .. n |-> mark(q)[i]] /\ c = [i \in 1 .. n |-> c[i]]
    BY <2>3, <2>5
  <2>8. QED BY <2>6, <2>7 DEF c, x, r
<1>3. QED
  BY <1>1, <1>2

LEMMA CmdsAre ==
  /\ \A q \in Seq(Octet) : Cmds(q) \in Seq(Asks) /\ Len(Cmds(q)) = Len(q)
  /\ \A c : Cmds(<<c>>) = << <<"GGDC_CMD_PORT", c>> >>
<1>1. ASSUME NEW q \in Seq(Octet) PROVE Cmds(q) \in Seq(Asks) /\ Len(Cmds(q)) = Len(q)
  BY Marked DEF Cmds
<1>2. ASSUME NEW c PROVE Cmds(<<c>>) = << <<"GGDC_CMD_PORT", c>> >>
  BY DEF Cmds
<1>3. QED
  BY <1>1, <1>2

LEMMA ParsAre ==
  /\ \A q \in Seq(Octet) : /\ Pars(q) \in Seq(Asks) /\ Len(Pars(q)) = Len(q)
                           /\ q # << >> => Pars(q) = << <<"GGDC_PARAM_PORT", Head(q)>> >>
                                                       \o Pars(Tail(q))
  /\ Pars(<< >>) = << >>
<1>1. ASSUME NEW q \in Seq(Octet)
      PROVE  /\ Pars(q) \in Seq(Asks) /\ Len(Pars(q)) = Len(q)
             /\ q # << >> => Pars(q) = << <<"GGDC_PARAM_PORT", Head(q)>> >>
                                         \o Pars(Tail(q))
  BY Marked DEF Pars
<1>2. Pars(<< >>) = << >>
  BY DEF Pars
<1>3. QED
  BY <1>1, <1>2

(* The fill is counted: 3 commands, then 19 bytes for each entry.          *)
LEMMA FillOfLength ==
  ASSUME NEW e \in [1 .. 5 -> Octet]
  PROVE  FillOf(e) \in Seq(Asks) /\ Len(FillOf(e)) = 19
<1> DEFINE c1 == Cmds(<<CMD.VECTW>>)
           p1 == Pars(linear_vector)
           c2 == Cmds(<<CMD.CSRW>>)
           p2 == Pars(<<e[2], e[1], e[3]>>)
           c3 == Cmds(<<CMD.WRITE>>)
           p3 == Pars(<<e[4], e[5]>>)
<1>1. CMD.VECTW \in Octet /\ CMD.CSRW \in Octet /\ CMD.WRITE \in Octet
  BY DEF CMD, Octet
<1>2. /\ <<CMD.VECTW>> \in Seq(Octet) /\ Len(<<CMD.VECTW>>) = 1
      /\ <<CMD.CSRW>> \in Seq(Octet) /\ Len(<<CMD.CSRW>>) = 1
      /\ <<CMD.WRITE>> \in Seq(Octet) /\ Len(<<CMD.WRITE>>) = 1
  BY <1>1
<1>3. /\ <<e[2], e[1], e[3]>> \in Seq(Octet) /\ Len(<<e[2], e[1], e[3]>>) = 3
      /\ <<e[4], e[5]>> \in Seq(Octet) /\ Len(<<e[4], e[5]>>) = 2
  OBVIOUS
<1>4. /\ c1 \in Seq(Asks) /\ Len(c1) = 1 /\ c2 \in Seq(Asks) /\ Len(c2) = 1
      /\ c3 \in Seq(Asks) /\ Len(c3) = 1
  BY <1>2, CmdsAre
<1>5. /\ p1 \in Seq(Asks) /\ Len(p1) = 11 /\ p2 \in Seq(Asks) /\ Len(p2) = 3
      /\ p3 \in Seq(Asks) /\ Len(p3) = 2
  BY <1>3, ParsAre, Tables
<1>6. FillOf(e) = c1 \o p1 \o c2 \o p2 \o c3 \o p3
  BY DEF FillOf
<1> HIDE DEF c1, p1, c2, p2, c3, p3
<1> DEFINE t1 == c1 \o p1
           t2 == t1 \o c2
           t3 == t2 \o p2
           t4 == t3 \o c3
           t5 == t4 \o p3
<1>7. t1 \in Seq(Asks) /\ Len(t1) = Len(c1) + Len(p1)
  BY <1>4, <1>5, Regroup, Zenon
<1>8. t2 \in Seq(Asks) /\ Len(t2) = Len(t1) + Len(c2)
  <2> HIDE DEF t1
  <2>1. QED BY <1>4, <1>7, Regroup, Zenon
<1>9. t3 \in Seq(Asks) /\ Len(t3) = Len(t2) + Len(p2)
  <2> HIDE DEF t2
  <2>1. QED BY <1>5, <1>8, Regroup, Zenon
<1>10. t4 \in Seq(Asks) /\ Len(t4) = Len(t3) + Len(c3)
  <2> HIDE DEF t3
  <2>1. QED BY <1>4, <1>9, Regroup, Zenon
<1>11. t5 \in Seq(Asks) /\ Len(t5) = Len(t4) + Len(p3)
  <2> HIDE DEF t4
  <2>1. QED BY <1>5, <1>10, Regroup, Zenon
<1>12. FillOf(e) = t5
  BY <1>6
<1> HIDE DEF t1, t2, t3, t4, t5
<1>13. Len(t5) = 19
  BY <1>4, <1>5, <1>7, <1>8, <1>9, <1>10, <1>11
<1>14. QED
  BY <1>11, <1>12, <1>13

LEMMA FillsLength ==
  Fills \in Seq(Asks) /\ Len(Fills) = 3 + 19 * Len(fill_table)
<1> DEFINE N == Len(fill_table)
           q == [i \in DOMAIN fill_table |-> FillOf(fill_table[i])]
<1>1. N \in Nat /\ DOMAIN fill_table = 1 .. N
  BY TablesAreBytes
<1>2. q \in [1 .. N -> Seq(Asks)] /\ \A i \in 1 .. N : Len(q[i]) = 19
  BY <1>1, Tables, FillOfLength
<1> HIDE DEF q, N
<1>3. q \in Seq(Seq(Asks)) /\ Len(q) = N
  BY <1>1, <1>2, TupleIsSeq
<1>4. PICK F \in [0 .. N -> Seq(Asks)] :
        /\ F[0] = << >> /\ F[N] = FlattenSeq(q)
        /\ \A i \in 1 .. N : F[i] = F[i - 1] \o q[i]
  BY <1>3, FlattenGrows
<1> DEFINE T == {i \in Nat : i <= N => Len(F[i]) = 19 * i}
<1>5. T = Nat
  <2>1. 0 \in T
    BY <1>4
  <2>2. ASSUME NEW i \in T PROVE i + 1 \in T
    <3>1. SUFFICES ASSUME i + 1 <= N PROVE Len(F[i + 1]) = 19 * (i + 1)
      OBVIOUS
    <3>2. i \in Nat /\ i + 1 \in 1 .. N /\ (i + 1) - 1 = i /\ i \in 0 .. N
      BY <1>1, <3>1
    <3>3. Len(F[i]) = 19 * i /\ F[i] \in Seq(Asks)
      BY <1>4, <3>2
    <3>4. F[i + 1] = F[i] \o q[i + 1] /\ q[i + 1] \in Seq(Asks) /\ Len(q[i + 1]) = 19
      BY <1>2, <1>4, <3>2
    <3>5. Len(F[i] \o q[i + 1]) = Len(F[i]) + Len(q[i + 1])
      BY <3>3, <3>4, Regroup
    <3>6. QED BY <3>2, <3>3, <3>4, <3>5
  <2> HIDE DEF T
  <2>3. T \subseteq Nat
    BY DEF T
  <2>4. QED BY <2>1, <2>2, <2>3, SetInduction
<1>6. Len(F[N]) = 19 * N /\ F[N] \in Seq(Asks)
  <2>1. N \in T => Len(F[N]) = 19 * N
    BY <1>1
  <2> HIDE DEF T
  <2>2. QED BY <1>1, <1>4, <1>5, <2>1
<1> DEFINE opening == Cmds(<<CMD.RESET, CMD.MASTER, CMD.START>>)
<1>7. opening \in Seq(Asks) /\ Len(opening) = 3
  <2>1. CMD.RESET \in Octet /\ CMD.MASTER \in Octet /\ CMD.START \in Octet
    BY DEF CMD, Octet
  <2>2. /\ <<CMD.RESET, CMD.MASTER, CMD.START>> \in Seq(Octet)
        /\ Len(<<CMD.RESET, CMD.MASTER, CMD.START>>) = 3
    BY <2>1
  <2>3. QED BY <2>2, CmdsAre
<1>8. Fills = opening \o F[N]
  BY <1>4 DEF Fills, q
<1> HIDE DEF opening
<1>9. QED
  BY <1>1, <1>6, <1>7, <1>8, Regroup DEF N

(* An arc, by its parts.                                                   *)
AfterOrigin(e) ==
  Cmds(<<CMD.VECTW>>) \o (Pars(SubSeq(e, 4, 14)) \o Cmds(<<CMD.VECTE>>))

LEMMA OneCommand ==
  \A c \in {"CSRW", "VECTW", "VECTE", "TEXTW"} :
    /\ CMD[c] \in Octet /\ <<"GGDC_CMD_PORT", CMD[c]>> \in Asks
    /\ Cmds(<<CMD[c]>>) = << <<"GGDC_CMD_PORT", CMD[c]>> >>
    /\ Cmds(<<CMD[c]>>) \in Seq(Asks)
<1>1. ASSUME NEW c \in {"CSRW", "VECTW", "VECTE", "TEXTW"}
      PROVE  CMD[c] \in Octet
  BY DEF CMD, Octet
<1>2. QED
  BY <1>1, CmdsAre, SingleIsSeq DEF Asks

LEMMA ArcParts ==
  ASSUME NEW i \in 1 .. Len(arc_table)
  PROVE  LET e == arc_table[i]
         IN  /\ AfterOrigin(e) \in Seq(Asks) /\ ArcOf(e) \in Seq(Asks)
             /\ Pars(SubSeq(e, 1, 3)) \in Seq(Asks)
             /\ Pars(SubSeq(e, 4, 14)) \in Seq(Asks)
             /\ Pars(SubSeq(e, 1, 3)) \o AfterOrigin(e) \in Seq(Asks)
             /\ Pars(SubSeq(e, 4, 14)) \o Cmds(<<CMD.VECTE>>) \in Seq(Asks)
             /\ ArcOf(e) = Cmds(<<CMD.CSRW>>) \o (Pars(SubSeq(e, 1, 3)) \o AfterOrigin(e))
<1> DEFINE e == arc_table[i]
           c1 == Cmds(<<CMD.CSRW>>)
           p1 == Pars(SubSeq(e, 1, 3))
           c2 == Cmds(<<CMD.VECTW>>)
           p2 == Pars(SubSeq(e, 4, 14))
           c3 == Cmds(<<CMD.VECTE>>)
<1>1. c1 \in Seq(Asks) /\ c2 \in Seq(Asks) /\ c3 \in Seq(Asks)
  BY OneCommand
<1>2. p1 \in Seq(Asks) /\ p2 \in Seq(Asks)
  BY Tables, ParsAre
<1>3. AfterOrigin(e) = c2 \o (p2 \o c3) /\ ArcOf(e) = c1 \o p1 \o c2 \o p2 \o c3
  BY DEF AfterOrigin, ArcOf
<1> HIDE DEF c1, p1, c2, p2, c3, e
<1>4. p2 \o c3 \in Seq(Asks) /\ c2 \o (p2 \o c3) \in Seq(Asks)
  BY <1>1, <1>2
<1>5. p1 \o (c2 \o (p2 \o c3)) \in Seq(Asks)
  BY <1>2, <1>4
<1>6. c1 \o p1 \o c2 \o p2 \o c3 = c1 \o (p1 \o (c2 \o (p2 \o c3)))
  <2> DEFINE t1 == c1 \o p1
             t2 == t1 \o c2
             u1 == p2 \o c3
             u2 == c2 \o u1
  <2>1. t1 \in Seq(Asks) /\ u1 \in Seq(Asks)
    BY <1>1, <1>2
  <2>2. t1 \o u2 = c1 \o (p1 \o u2)
    <3>1. u2 \in Seq(Asks)
      BY <1>1, <2>1
    <3> HIDE DEF u2
    <3>2. c1 \in Seq(Asks) /\ p1 \in Seq(Asks)
      BY <1>1, <1>2
    <3>3. (c1 \o p1) \o u2 = c1 \o (p1 \o u2)
      BY <3>1, <3>2, Regroup, ZenonT(30)
    <3>4. QED BY <3>3
  <2> HIDE DEF t1
  <2>3. t2 \in Seq(Asks) /\ (t2 \o p2) \o c3 = t2 \o u1
    <3>1. t2 \in Seq(Asks)
      BY <1>1, <2>1
    <3> HIDE DEF t2
    <3>2. p2 \in Seq(Asks) /\ c3 \in Seq(Asks)
      BY <1>1, <1>2
    <3>3. QED BY <3>1, <3>2, Regroup, ZenonT(30)
  <2>4. t2 \o u1 = t1 \o u2
    <3> HIDE DEF u1
    <3>1. c2 \in Seq(Asks) /\ t1 \in Seq(Asks) /\ u1 \in Seq(Asks)
      BY <1>1, <2>1
    <3>2. (t1 \o c2) \o u1 = t1 \o (c2 \o u1)
      BY <3>1, Regroup, ZenonT(30)
    <3>3. QED BY <3>2
  <2>5. QED BY <2>2, <2>3, <2>4 DEF t1
<1>7. c1 \o (p1 \o (c2 \o (p2 \o c3))) \in Seq(Asks)
  BY <1>1, <1>5
<1>8. QED
  BY <1>2, <1>3, <1>4, <1>5, <1>6, <1>7 DEF c1, p1, c2, p2, c3, e

(* What has been drawn after k arcs.                                       *)
Masks == Cmds(<<CMD.TEXTW>>) \o Pars(<<255, 255>>)

ArcTurns ==
  CHOOSE F \in [0 .. Len(arc_table) -> Seq(Asks)] :
    /\ F[0] = << >>
    /\ F[Len(arc_table)] = FlattenSeq([i \in DOMAIN arc_table |-> ArcOf(arc_table[i])])
    /\ \A i \in 1 .. Len(arc_table) : F[i] = F[i - 1] \o ArcOf(arc_table[i])

DrawnAfter(k) == Masks \o ArcTurns[k]

LEMMA MaskParts ==
  LET x == <<"GGDC_PARAM_PORT", 255>>
  IN  /\ Masks \in Seq(Asks) /\ x \in Asks
      /\ Pars(<<255, 255>>) = <<x>> \o Pars(<<255>>)
      /\ Pars(<<255>>) = <<x>> \o << >>
      /\ Pars(<<255, 255>>) \in Seq(Asks) /\ Pars(<<255>>) \in Seq(Asks)
<1>1. 255 \in Octet
  BY DEF Octet
<1>2. /\ <<255>> \in Seq(Octet) /\ <<255>> # << >> /\ Head(<<255>>) = 255
      /\ Tail(<<255>>) = << >>
  BY <1>1
<1>3. /\ <<255, 255>> \in Seq(Octet) /\ <<255, 255>> # << >> /\ Head(<<255, 255>>) = 255
      /\ Tail(<<255, 255>>) = <<255>>
  BY <1>1
<1>4. Pars(<<255, 255>>) \in Seq(Asks) /\ Pars(<<255>>) \in Seq(Asks)
  BY <1>2, <1>3, ParsAre, ZenonT(30)
<1>5. Masks \in Seq(Asks)
  <2>1. Cmds(<<CMD.TEXTW>>) \in Seq(Asks)
    BY OneCommand
  <2>2. QED BY <1>4, <2>1, Regroup DEF Masks
<1>6. QED
  <2>1. <<"GGDC_PARAM_PORT", 255>> \in Asks
    BY <1>1 DEF Asks
  <2> DEFINE x == <<"GGDC_PARAM_PORT", 255>>
  <2>2. \A q \in Seq(Octet) : q # << >> /\ Head(q) = 255 =>
          Pars(q) = <<x>> \o Pars(Tail(q))
    BY ParsAre, ZenonT(30)
  <2>3. Pars(<< >>) = << >>
    BY ParsAre
  <2> HIDE DEF x
  <2>4. Pars(<<255, 255>>) = <<x>> \o Pars(<<255>>)
    BY <1>3, <2>2, ZenonT(30)
  <2>5. Pars(<<255>>) = <<x>> \o << >>
    BY <1>2, <2>2, <2>3, ZenonT(30)
  <2>6. QED BY <1>4, <1>5, <2>1, <2>4, <2>5 DEF x

LEMMA Drawn ==
  /\ DrawnAfter(0) = Masks
  /\ DrawnAfter(Len(arc_table)) = Arcs
  /\ \A i \in 0 .. Len(arc_table) : DrawnAfter(i) \in Seq(Asks)
  /\ \A i \in 1 .. Len(arc_table) :
       DrawnAfter(i) = DrawnAfter(i - 1) \o ArcOf(arc_table[i])
<1> DEFINE N == Len(arc_table)
           q == [i \in DOMAIN arc_table |-> ArcOf(arc_table[i])]
           Good(F) == /\ F[0] = << >> /\ F[N] = FlattenSeq(q)
                      /\ \A i \in 1 .. N : F[i] = F[i - 1] \o ArcOf(arc_table[i])
<1>1. N \in Nat /\ DOMAIN arc_table = 1 .. N
  BY TablesAreBytes
<1>2. /\ q \in [1 .. N -> Seq(Asks)]
      /\ \A i \in 1 .. N : q[i] = ArcOf(arc_table[i])
  BY <1>1, ArcParts
<1>3. ArcTurns = CHOOSE F \in [0 .. N -> Seq(Asks)] : Good(F)
  BY DEF ArcTurns
<1>4. Arcs = Masks \o FlattenSeq(q)
  BY DEF Arcs, Masks
<1>5. \A i \in 1 .. N : ArcOf(arc_table[i]) \in Seq(Asks)
  BY ArcParts
<1> HIDE DEF q, N
<1>6. \E F \in [0 .. N -> Seq(Asks)] : Good(F)
  <2>1. q \in Seq(Seq(Asks)) /\ Len(q) = N
    BY <1>1, <1>2, TupleIsSeq
  <2>2. PICK F \in [0 .. N -> Seq(Asks)] :
          /\ F[0] = << >> /\ F[N] = FlattenSeq(q)
          /\ \A i \in 1 .. N : F[i] = F[i - 1] \o q[i]
    BY <2>1, FlattenGrows
  <2>3. QED BY <1>2, <2>2
<1>7. ArcTurns \in [0 .. N -> Seq(Asks)] /\ Good(ArcTurns)
  <2> HIDE DEF Good
  <2>1. QED BY <1>3, <1>6
<1>8. Masks \in Seq(Asks)
  BY MaskParts
<1>9. DrawnAfter(0) = Masks
  BY <1>7, <1>8, ConcatEmpty DEF DrawnAfter
<1>10. DrawnAfter(N) = Arcs
  BY <1>4, <1>7 DEF DrawnAfter
<1>11. ASSUME NEW i \in 0 .. N PROVE DrawnAfter(i) \in Seq(Asks)
  <2>1. ArcTurns[i] \in Seq(Asks)
    BY <1>7
  <2>2. QED BY <1>8, <2>1, Regroup DEF DrawnAfter
<1>12. ASSUME NEW i \in 1 .. N
       PROVE  DrawnAfter(i) = DrawnAfter(i - 1) \o ArcOf(arc_table[i])
  <2>1. i - 1 \in 0 .. N
    BY <1>1
  <2>2. ArcTurns[i - 1] \in Seq(Asks) /\ ArcOf(arc_table[i]) \in Seq(Asks)
    BY <1>5, <1>7, <2>1
  <2>3. ArcTurns[i] = ArcTurns[i - 1] \o ArcOf(arc_table[i])
    BY <1>7
  <2>4. Masks \o (ArcTurns[i - 1] \o ArcOf(arc_table[i]))
          = (Masks \o ArcTurns[i - 1]) \o ArcOf(arc_table[i])
    BY <1>8, <2>2, Regroup, Zenon
  <2>5. QED BY <2>3, <2>4 DEF DrawnAfter
<1>13. QED
  BY <1>9, <1>10, <1>11, <1>12 DEF N

(* It is a beginning of the whole drawing.                                 *)
LEMMA DrawnIsPrefix ==
  \A k \in 0 .. Len(arc_table) : \E r \in Seq(Asks) : DrawnAfter(k) \o r = Arcs
<1> DEFINE N == Len(arc_table)
           T == {j \in Nat : j <= N => \E r \in Seq(Asks) : DrawnAfter(N - j) \o r = Arcs}
<1>1. N \in Nat
  BY Tables
<1>2. /\ DrawnAfter(N) = Arcs
      /\ \A i \in 0 .. N : DrawnAfter(i) \in Seq(Asks)
      /\ \A i \in 1 .. N : DrawnAfter(i) = DrawnAfter(i - 1) \o ArcOf(arc_table[i])
      /\ \A i \in 1 .. N : ArcOf(arc_table[i]) \in Seq(Asks)
  BY Drawn, ArcParts
<1> HIDE DEF N
<1>3. 0 \in T
  <2>1. N - 0 = N /\ N \in 0 .. N
    BY <1>1
  <2>2. DrawnAfter(N - 0) \o << >> = Arcs /\ << >> \in Seq(Asks)
    BY <1>2, <2>1, ConcatEmpty, EmptyIsSeq
  <2>3. QED BY <2>2
<1>4. ASSUME NEW j \in T PROVE j + 1 \in T
  <2>1. j \in Nat /\ (j <= N => \E r \in Seq(Asks) : DrawnAfter(N - j) \o r = Arcs)
    OBVIOUS
  <2>2. SUFFICES ASSUME j + 1 <= N
                 PROVE  \E r \in Seq(Asks) : DrawnAfter(N - (j + 1)) \o r = Arcs
    BY <2>1
  <2> HIDE DEF T
  <2> DEFINE i == N - j
  <2>3. i \in 1 .. N /\ i - 1 \in 0 .. N /\ N - (j + 1) = i - 1 /\ j <= N
    BY <1>1, <2>1, <2>2
  <2>4. PICK r \in Seq(Asks) : DrawnAfter(i) \o r = Arcs
    BY <2>1, <2>3
  <2> HIDE DEF i
  <2> DEFINE a == ArcOf(arc_table[i])
             d == DrawnAfter(i - 1)
  <2>5. a \in Seq(Asks) /\ d \in Seq(Asks) /\ DrawnAfter(i) = d \o a
    BY <1>2, <2>3
  <2> HIDE DEF a, d
  <2>6. a \o r \in Seq(Asks) /\ d \o (a \o r) = Arcs
    <3>1. a \o r \in Seq(Asks)
      BY <2>5
    <3>2. (d \o a) \o r = d \o (a \o r)
      BY <2>5, Regroup, Zenon
    <3>3. QED BY <2>4, <2>5, <3>1, <3>2
  <2>7. DrawnAfter(N - (j + 1)) \o (a \o r) = Arcs
    BY <2>3, <2>6 DEF d
  <2>8. QED BY <2>6, <2>7
<1>5. T = Nat
  <2> HIDE DEF T
  <2>1. T \subseteq Nat
    BY DEF T
  <2>2. QED BY <1>3, <1>4, <2>1, SetInduction
<1>6. ASSUME NEW k \in 0 .. N
      PROVE  \E r \in Seq(Asks) : DrawnAfter(k) \o r = Arcs
  <2> DEFINE j == N - k
  <2>1. j \in Nat /\ j <= N /\ N - j = k
    BY <1>1
  <2> HIDE DEF j
  <2>2. j \in T => (j <= N => \E r \in Seq(Asks) : DrawnAfter(N - j) \o r = Arcs)
    OBVIOUS
  <2> HIDE DEF T
  <2>3. QED BY <1>5, <2>1, <2>2
<1>7. QED
  BY <1>6 DEF N

-----------------------------------------------------------------------------

(* The fill: how many bytes have been asked for.  Which bytes they are is  *)
(* of no concern to the arcs, only that they end where the arcs begin.     *)
Counted ==
  LET asks == Len(asked)
      turns == 3 + 19 * (turn - 1)
  IN  /\ pc \in {"start", "reset"} => asks = 0
      /\ pc = "master" => asks = 1
      /\ pc = "begin"  => asks = 2
      /\ pc = "fill"   => asks = turns
      /\ pc = "vector" => asks = turns + 12 - Len(hl)
      /\ pc = "csrw"   => asks = turns + 12
      /\ pc = "low"    => asks = turns + 13
      /\ pc = "high"   => asks = turns + 14
      /\ pc = "third"  => asks = turns + 15
      /\ pc = "write"  => asks = turns + 16
      /\ pc = "wlow"   => asks = turns + 17
      /\ pc = "whigh"  => asks = turns + 18
      /\ pc = "textw"  => asks = Len(Fills)

LEMMA OneMore ==
  ASSUME Faithful, NEW x, asked' = Append(asked, x)
  PROVE  Len(asked) \in Nat /\ Len(asked') = Len(asked) + 1
BY DEF Faithful

LEMMA CountedStep ==
  ASSUME TestInv, Counted, TestNext
  PROVE  Counted'
<1>1. /\ pc \in Opening \cup Filling \cup Masking \cup Drawing \cup {"done"}
      /\ pc \in Opening \cup Masking => turn = 1
      /\ pc \in Filling => turn \in 1 .. Len(fill_table)
      /\ pc # "start" => Faithful
      /\ pc = "start" => asked = << >>
  BY DEF TestInv, Machine
<1>2. Len(fill_table) \in Nat \ {0} /\ Len(Fills) = 3 + 19 * Len(fill_table)
  BY Tables, FillsLength
<1>3. /\ 255 \in Octet
      /\ \A c \in {"RESET", "MASTER", "START", "CSRW", "VECTW", "TEXTW"} : CMD[c] \in Octet
  BY DEF CMD, Octet
<1>4. pc # "start" => regs.C \in Octet /\ regs.D \in Octet /\ regs.E \in Octet
  BY DEF TestInv, Machine, Registers
<1> USE DEF Opening, Filling, Masking, Drawing, Looping
<1>5. CASE Start
  <2>1. pc = "start" /\ pc' = "reset" /\ asked' = asked
    BY <1>5 DEF Start, From
  <2>2. Len(<< >>) = 0
    OBVIOUS
  <2>3. QED BY <1>1, <2>1, <2>2 DEF Counted
<1>6. CASE Command("reset", "master", CMD.RESET)
  <2>0. CMD.RESET \in Octet
    BY <1>3, <1>4, <1>6 DEF Command, From
  <2>1. /\ pc = "reset" /\ pc' = "master" /\ turn' = turn
        /\ asked' = Append(asked, <<"GGDC_CMD_PORT", CMD.RESET>>)
    BY <1>6, <2>0, CommandStep DEF Steps
  <2>2. Len(asked) \in Nat /\ Len(asked') = Len(asked) + 1
    BY <1>1, <2>1, OneMore
  <2>3. Len(asked) = 0
    BY <2>1 DEF Counted
  <2>4. Len(asked') = 1
    BY <1>1, <2>1, <2>2, <2>3
  <2>5. QED BY <2>1, <2>4 DEF Counted
<1>7. CASE Command("master", "begin", CMD.MASTER)
  <2>0. CMD.MASTER \in Octet
    BY <1>3, <1>4, <1>7 DEF Command, From
  <2>1. /\ pc = "master" /\ pc' = "begin" /\ turn' = turn
        /\ asked' = Append(asked, <<"GGDC_CMD_PORT", CMD.MASTER>>)
    BY <1>7, <2>0, CommandStep DEF Steps
  <2>2. Len(asked) \in Nat /\ Len(asked') = Len(asked) + 1
    BY <1>1, <2>1, OneMore
  <2>3. Len(asked) = 1
    BY <2>1 DEF Counted
  <2>4. Len(asked') = 2
    BY <1>1, <2>1, <2>2, <2>3
  <2>5. QED BY <2>1, <2>4 DEF Counted
<1>8. CASE Command("begin", "fill", CMD.START)
  <2>0. CMD.START \in Octet
    BY <1>3, <1>4, <1>8 DEF Command, From
  <2>1. /\ pc = "begin" /\ pc' = "fill" /\ turn' = turn
        /\ asked' = Append(asked, <<"GGDC_CMD_PORT", CMD.START>>)
    BY <1>8, <2>0, CommandStep DEF Steps
  <2>2. Len(asked) \in Nat /\ Len(asked') = Len(asked) + 1
    BY <1>1, <2>1, OneMore
  <2>3. Len(asked) = 2
    BY <2>1 DEF Counted
  <2>4. Len(asked') = 3 + 19 * (turn' - 1)
    BY <1>1, <2>1, <2>2, <2>3
  <2>5. QED BY <2>1, <2>4 DEF Counted
<1>9. CASE Command("csrw", "low", CMD.CSRW)
  <2>0. CMD.CSRW \in Octet
    BY <1>3, <1>4, <1>9 DEF Command, From
  <2>1. /\ pc = "csrw" /\ pc' = "low" /\ turn' = turn
        /\ asked' = Append(asked, <<"GGDC_CMD_PORT", CMD.CSRW>>)
    BY <1>9, <2>0, CommandStep DEF Steps
  <2>2. Len(asked) \in Nat /\ Len(asked') = Len(asked) + 1
    BY <1>1, <2>1, OneMore
  <2>3. Len(asked) = 3 + 19 * (turn - 1) + 12
    BY <2>1 DEF Counted
  <2>4. Len(asked') = 3 + 19 * (turn' - 1) + 13
    BY <1>1, <2>1, <2>2, <2>3
  <2>5. QED BY <2>1, <2>4 DEF Counted
<1>10. CASE Command("textw", "mask1", CMD.TEXTW)
  BY <1>10 DEF Command, From, Counted
<1>11. CASE Parameter("low", "high", regs.E)
  <2>0. regs.E \in Octet
    BY <1>3, <1>4, <1>11 DEF Parameter, From
  <2>1. /\ pc = "low" /\ pc' = "high" /\ turn' = turn
        /\ asked' = Append(asked, <<"GGDC_PARAM_PORT", regs.E>>)
    BY <1>11, <2>0, ParameterStep DEF Steps
  <2>2. Len(asked) \in Nat /\ Len(asked') = Len(asked) + 1
    BY <1>1, <2>1, OneMore
  <2>3. Len(asked) = 3 + 19 * (turn - 1) + 13
    BY <2>1 DEF Counted
  <2>4. Len(asked') = 3 + 19 * (turn' - 1) + 14
    BY <1>1, <2>1, <2>2, <2>3
  <2>5. QED BY <2>1, <2>4 DEF Counted
<1>12. CASE Parameter("high", "third", regs.D)
  <2>0. regs.D \in Octet
    BY <1>3, <1>4, <1>12 DEF Parameter, From
  <2>1. /\ pc = "high" /\ pc' = "third" /\ turn' = turn
        /\ asked' = Append(asked, <<"GGDC_PARAM_PORT", regs.D>>)
    BY <1>12, <2>0, ParameterStep DEF Steps
  <2>2. Len(asked) \in Nat /\ Len(asked') = Len(asked) + 1
    BY <1>1, <2>1, OneMore
  <2>3. Len(asked) = 3 + 19 * (turn - 1) + 14
    BY <2>1 DEF Counted
  <2>4. Len(asked') = 3 + 19 * (turn' - 1) + 15
    BY <1>1, <2>1, <2>2, <2>3
  <2>5. QED BY <2>1, <2>4 DEF Counted
<1>13. CASE Parameter("third", "write", regs.C)
  <2>0. regs.C \in Octet
    BY <1>3, <1>4, <1>13 DEF Parameter, From
  <2>1. /\ pc = "third" /\ pc' = "write" /\ turn' = turn
        /\ asked' = Append(asked, <<"GGDC_PARAM_PORT", regs.C>>)
    BY <1>13, <2>0, ParameterStep DEF Steps
  <2>2. Len(asked) \in Nat /\ Len(asked') = Len(asked) + 1
    BY <1>1, <2>1, OneMore
  <2>3. Len(asked) = 3 + 19 * (turn - 1) + 15
    BY <2>1 DEF Counted
  <2>4. Len(asked') = 3 + 19 * (turn' - 1) + 16
    BY <1>1, <2>1, <2>2, <2>3
  <2>5. QED BY <2>1, <2>4 DEF Counted
<1>14. CASE Parameter("wlow", "whigh", regs.E)
  <2>0. regs.E \in Octet
    BY <1>3, <1>4, <1>14 DEF Parameter, From
  <2>1. /\ pc = "wlow" /\ pc' = "whigh" /\ turn' = turn
        /\ asked' = Append(asked, <<"GGDC_PARAM_PORT", regs.E>>)
    BY <1>14, <2>0, ParameterStep DEF Steps
  <2>2. Len(asked) \in Nat /\ Len(asked') = Len(asked) + 1
    BY <1>1, <2>1, OneMore
  <2>3. Len(asked) = 3 + 19 * (turn - 1) + 17
    BY <2>1 DEF Counted
  <2>4. Len(asked') = 3 + 19 * (turn' - 1) + 18
    BY <1>1, <2>1, <2>2, <2>3
  <2>5. QED BY <2>1, <2>4 DEF Counted
<1>15. CASE Parameter("mask1", "mask2", 255)
  BY <1>15 DEF Parameter, From, Counted
<1>16. CASE Parameter("mask2", "arc", 255)
  BY <1>16 DEF Parameter, From, Counted
<1>17. CASE send_params_hl_c("vector", "csrw")
  <2>1. "vector" \in Looping
    OBVIOUS
  <2>2. /\ pc = "vector" /\ turn' = turn /\ Len(hl) \in 1 .. 11
        /\ Len(hl') = Len(hl) - 1
        /\ pc' = IF hl' = << >> THEN "csrw" ELSE "vector"
        /\ asked' = Append(asked, <<"GGDC_PARAM_PORT", Head(hl)>>)
    BY <1>17, <2>1, LoopStep
  <2>3. Len(asked) \in Nat /\ Len(asked') = Len(asked) + 1
    BY <1>1, <2>2, OneMore
  <2>4. hl' = << >> => Len(hl') = 0
    OBVIOUS
  <2>5. Len(asked) = 3 + 19 * (turn - 1) + 12 - Len(hl)
    BY <2>2 DEF Counted
  <2>6. CASE hl' = << >>
    <3>1. pc' = "csrw" /\ Len(hl) = 1
      BY <2>2, <2>4, <2>6
    <3>2. QED BY <1>1, <2>2, <2>3, <2>5, <3>1 DEF Counted
  <2>7. CASE hl' # << >>
    <3>1. pc' = "vector"
      BY <2>2, <2>7
    <3>2. Len(asked') = 3 + 19 * (turn' - 1) + 12 - Len(hl')
      <4>1. turn \in Int /\ turn' = turn
        BY <1>1, <2>2
      <4>2. Len(hl) \in Int /\ Len(hl') = Len(hl) - 1
        BY <2>2
      <4>3. QED BY <2>3, <2>5, <4>1, <4>2
    <3>3. QED BY <3>1, <3>2 DEF Counted
  <2>8. QED BY <2>6, <2>7
<1>18. CASE send_params_hl_c("origin", "shape")
  BY <1>18 DEF send_params_hl_c, Counted
<1>19. CASE send_params_hl_c("curve", "vecte")
  BY <1>19 DEF send_params_hl_c, Counted
<1>20. CASE CommandThen("arc", "origin", CMD.CSRW, 3,
                      SubSeq(arc_table[turn], 1, 3))
  BY <1>20 DEF CommandThen, From, Counted
<1>21. CASE CommandThen("shape", "curve", CMD.VECTW, 11,
                      SubSeq(arc_table[turn], 4, 14))
  BY <1>21 DEF CommandThen, From, Counted
<1>22. CASE FillLoad
  <2>1. /\ pc = "fill" /\ pc' = "vector" /\ turn' = turn /\ Len(hl') = 11
        /\ asked' = Append(asked, <<"GGDC_CMD_PORT", CMD.VECTW>>)
    BY <1>22, FillLoadStep, Tables DEF Steps
  <2>2. Len(asked) \in Nat /\ Len(asked') = Len(asked) + 1
    BY <1>1, <2>1, OneMore
  <2>3. Len(asked) = 3 + 19 * (turn - 1)
    BY <2>1 DEF Counted
  <2>4. Len(asked') = 3 + 19 * (turn' - 1) + 12 - Len(hl')
    BY <1>1, <2>1, <2>2, <2>3
  <2>5. QED BY <2>1, <2>4 DEF Counted
<1>23. CASE FillWrite
  <2>1. /\ pc = "write" /\ pc' = "wlow" /\ turn' = turn
        /\ asked' = Append(asked, <<"GGDC_CMD_PORT", CMD.WRITE>>)
    BY <1>23, FillWriteStep DEF Steps
  <2>2. Len(asked) \in Nat /\ Len(asked') = Len(asked) + 1
    BY <1>1, <2>1, OneMore
  <2>3. Len(asked) = 3 + 19 * (turn - 1) + 16
    BY <2>1 DEF Counted
  <2>4. Len(asked') = 3 + 19 * (turn' - 1) + 17
    BY <1>1, <2>1, <2>2, <2>3
  <2>5. QED BY <2>1, <2>4 DEF Counted
<1>24. CASE FillNext
  <2>1. /\ pc = "whigh"
        /\ IF turn = Len(fill_table) THEN turn' = 1 /\ pc' = "textw"
           ELSE turn' = turn + 1 /\ pc' = "fill"
        /\ asked' = Append(asked, <<"GGDC_PARAM_PORT", regs.D>>)
    BY <1>24, FillNextStep
  <2>2. Len(asked) \in Nat /\ Len(asked') = Len(asked) + 1
    BY <1>1, <2>1, OneMore
  <2>3. Len(asked) = 3 + 19 * (turn - 1) + 18
    BY <2>1 DEF Counted
  <2>4. Len(asked') = 3 + 19 * turn
    BY <1>1, <2>1, <2>2, <2>3
  <2>5. CASE turn = Len(fill_table)
    <3>1. pc' = "textw" /\ Len(asked') = Len(Fills)
      BY <1>2, <2>1, <2>4, <2>5
    <3>2. QED BY <3>1 DEF Counted
  <2>6. CASE turn # Len(fill_table)
    <3>1. pc' = "fill" /\ turn' = turn + 1
      BY <2>1, <2>6
    <3>2. Len(asked') = 3 + 19 * (turn' - 1)
      BY <1>1, <2>1, <2>4, <3>1
    <3>3. QED BY <3>1, <3>2 DEF Counted
  <2>7. QED BY <2>5, <2>6
<1>25. CASE ArcNext
  BY <1>25 DEF ArcNext, Counted
<1>26. QED
  BY <1>5, <1>6, <1>7, <1>8, <1>9, <1>10, <1>11, <1>12, <1>13, <1>14, <1>15,
     <1>16, <1>17, <1>18, <1>19, <1>20, <1>21, <1>22, <1>23, <1>24, <1>25
     DEF TestNext, init_ggdc, fill_gvram, draw_arcs

-----------------------------------------------------------------------------

(* The drawing: what has been asked for since the fill, followed by what   *)
(* is still due in this turn, is what the turn has to end with.  The bytes *)
(* at HL are the ones due: this is why no call may change HL or C.         *)
Got == SubSeq(asked, Len(Fills) + 1, Len(asked))

Due ==
  LET e == arc_table[turn]
  IN  CASE pc = "textw"  -> Masks
        [] pc = "mask1"  -> Pars(<<255, 255>>)
        [] pc = "mask2"  -> Pars(<<255>>)
        [] pc = "arc"    -> ArcOf(e)
        [] pc = "origin" -> Pars(hl) \o AfterOrigin(e)
        [] pc = "shape"  -> AfterOrigin(e)
        [] pc = "curve"  -> Pars(hl) \o Cmds(<<CMD.VECTE>>)
        [] pc = "vecte"  -> Cmds(<<CMD.VECTE>>)
        [] OTHER         -> << >>

Goal == DrawnAfter(IF pc \in Masking THEN 0 ELSE turn)

OnTheWay ==
  pc \in Masking \cup Drawing \cup {"done"} =>
    /\ Len(Fills) <= Len(asked)
    /\ Got \o Due = Goal
    /\ pc = "done" => turn = Len(arc_table)

LEMMA GotMore ==
  ASSUME Faithful, Len(Fills) <= Len(asked), NEW x \in Asks, asked' = Append(asked, x)
  PROVE  /\ Len(Fills) <= Len(asked') /\ Got \in Seq(Asks) /\ Got' \in Seq(Asks)
         /\ \A t \in Seq(Asks) : Got' \o t = Got \o (<<x>> \o t)
<1>1. Len(Fills) \in Nat /\ asked \in Seq(Asks)
  BY FillsLength DEF Faithful
<1>2. Got \in Seq(Asks) /\ Got' = Append(Got, x)
  <2> DEFINE m == Len(Fills)
  <2>1. Len(Fills)' = m
    BY DEF Fills, Cmds, FillOf, Pars
  <2>2. m \in Nat /\ m <= Len(asked)
    BY <1>1
  <2> HIDE DEF m
  <2>3. /\ SubSeq(asked, m + 1, Len(asked)) \in Seq(Asks)
        /\ SubSeq(Append(asked, x), m + 1, Len(Append(asked, x)))
             = Append(SubSeq(asked, m + 1, Len(asked)), x)
    BY <1>1, <2>2, FromThere, ZenonT(30)
  <2>4. QED BY <2>1, <2>3 DEF Got, m
<1>3. Len(asked') = Len(asked) + 1 /\ Len(asked) \in Nat
  BY OneMore
<1>4. ASSUME NEW t \in Seq(Asks) PROVE Got' \o t = Got \o (<<x>> \o t)
  <2> DEFINE g == Got
  <2>1. g \in Seq(Asks)
    BY <1>2
  <2> HIDE DEF g
  <2>2. Append(g, x) \o t = g \o (<<x>> \o t)
    BY <2>1, MoveFirst
  <2>3. QED BY <1>2, <2>2 DEF g
<1>5. Got' \in Seq(Asks)
  BY <1>2
<1>6. QED
  BY <1>1, <1>2, <1>3, <1>4, <1>5

LEMMA DueNow ==
  LET e == arc_table[turn]
  IN  /\ pc = "textw"  => Due = Masks
      /\ pc = "mask1"  => Due = Pars(<<255, 255>>)
      /\ pc = "mask2"  => Due = Pars(<<255>>)
      /\ pc = "arc"    => Due = ArcOf(e)
      /\ pc = "origin" => Due = Pars(hl) \o AfterOrigin(e)
      /\ pc = "shape"  => Due = AfterOrigin(e)
      /\ pc = "curve"  => Due = Pars(hl) \o Cmds(<<CMD.VECTE>>)
      /\ pc = "vecte"  => Due = Cmds(<<CMD.VECTE>>)
BY DEF Due

LEMMA DueThen ==
  LET e == arc_table[turn']
  IN  /\ pc' = "textw"  => Due' = Masks
      /\ pc' = "mask1"  => Due' = Pars(<<255, 255>>)
      /\ pc' = "mask2"  => Due' = Pars(<<255>>)
      /\ pc' = "arc"    => Due' = ArcOf(e)
      /\ pc' = "origin" => Due' = Pars(hl') \o AfterOrigin(e)
      /\ pc' = "shape"  => Due' = AfterOrigin(e)
      /\ pc' = "curve"  => Due' = Pars(hl') \o Cmds(<<CMD.VECTE>>)
      /\ pc' = "vecte"  => Due' = Cmds(<<CMD.VECTE>>)
      /\ pc' = "done"   => Due' = << >>
<1> DEFINE e == arc_table[turn']
<1>1. Due' = CASE pc' = "textw"  -> Masks
               [] pc' = "mask1"  -> Pars(<<255, 255>>)
               [] pc' = "mask2"  -> Pars(<<255>>)
               [] pc' = "arc"    -> ArcOf(e)
               [] pc' = "origin" -> Pars(hl') \o AfterOrigin(e)
               [] pc' = "shape"  -> AfterOrigin(e)
               [] pc' = "curve"  -> Pars(hl') \o Cmds(<<CMD.VECTE>>)
               [] pc' = "vecte"  -> Cmds(<<CMD.VECTE>>)
               [] OTHER          -> << >>
  BY DEF Due, Masks, Pars, Cmds, ArcOf, AfterOrigin
<1> HIDE DEF e
<1>2. QED
  BY <1>1 DEF e

LEMMA GoalThen ==
  /\ pc' \in Masking => Goal' = DrawnAfter(0)
  /\ pc' \notin Masking => Goal' = DrawnAfter(turn')
BY DEF Goal, DrawnAfter, ArcTurns, Masks, Pars, Cmds, ArcOf, Masking

(* Each step takes the first byte due; the last of a turn brings the next. *)
LEMMA StillOnTheWay ==
  ASSUME Len(Fills) <= Len(asked'), Got' \o Due' = Goal',
         pc' = "done" => turn' = Len(arc_table)
  PROVE  OnTheWay'
<1>1. Len(Fills)' = Len(Fills)
  BY DEF Fills, Cmds, FillOf, Pars
<1>2. QED
  BY <1>1 DEF OnTheWay

(* One byte less is due: the sequence the turn will end with is the same.  *)
LEMMA OneLessDue ==
  ASSUME Faithful, OnTheWay, pc \in Masking \cup Drawing,
         NEW x \in Asks, asked' = Append(asked, x),
         NEW t \in Seq(Asks), Due = <<x>> \o t
  PROVE  Len(Fills) <= Len(asked') /\ Got' \in Seq(Asks) /\ Got' \o t = Goal
BY GotMore DEF OnTheWay

LEMMA OnTheWayStep ==
  ASSUME TestInv, Counted, OnTheWay, TestNext
  PROVE  OnTheWay'
<1>1. /\ pc \in Opening \cup Filling \cup Masking \cup Drawing \cup {"done"}
      /\ pc \in Opening \cup Masking => turn = 1
      /\ pc \in Filling => turn \in 1 .. Len(fill_table)
      /\ pc \in Drawing => turn \in 1 .. Len(arc_table)
      /\ pc # "start" => Faithful
      /\ hl \in Seq(Octet)
  BY DEF TestInv, Machine
<1>2. Len(arc_table) \in Nat \ {0}
  BY Tables
<1>3. /\ 255 \in Octet /\ 3 \in Octet /\ 11 \in Octet
      /\ \A c \in {"CSRW", "VECTW", "TEXTW"} : CMD[c] \in Octet
  BY DEF CMD, Octet
<1>4. /\ <<"GGDC_CMD_PORT", CMD.TEXTW>> \in Asks
      /\ <<"GGDC_CMD_PORT", CMD.CSRW>> \in Asks
      /\ <<"GGDC_CMD_PORT", CMD.VECTW>> \in Asks
      /\ <<"GGDC_CMD_PORT", CMD.VECTE>> \in Asks
      /\ <<"GGDC_PARAM_PORT", 255>> \in Asks
  BY OneCommand, MaskParts
<1> USE DEF Opening, Filling, Masking, Drawing, Looping
<1>5. CASE pc' \in Opening \cup Filling
  BY <1>5 DEF OnTheWay
<1>6. CASE FillNext
  <2>1. /\ pc = "whigh" /\ pc' \in {"textw", "fill"}
        /\ asked' = Append(asked, <<"GGDC_PARAM_PORT", regs.D>>)
        /\ Faithful'
    BY <1>6, FillNextStep
  <2>2. CASE pc' = "fill"
    BY <1>5, <2>2
  <2>3. CASE pc' = "textw"
    <3>1. Len(asked') = Len(Fills)
      <4>1. Counted'
        BY CountedStep
      <4>2. Len(asked') = Len(Fills)'
        BY <2>3, <4>1 DEF Counted
      <4>3. QED BY <4>2 DEF Fills, Cmds, FillOf, Pars
    <3>2. asked' \in Seq(Asks) /\ Len(Fills) \in Nat
      BY <2>1, FillsLength DEF Faithful
    <3>3. Got' = << >>
      <4> DEFINE m == Len(Fills)
                 s == asked'
      <4>1. s \in Seq(Asks) /\ m \in Nat /\ Len(s) = m
        BY <3>1, <3>2
      <4>2. Len(Fills)' = m
        BY DEF Fills, Cmds, FillOf, Pars
      <4>3. Got' = SubSeq(s, m + 1, m)
        BY <4>1, <4>2 DEF Got
      <4> HIDE DEF s, m
      <4>4. SubSeq(s, m + 1, m) = << >>
        BY <4>1
      <4>5. QED BY <4>3, <4>4
    <3>4. Due' = Masks /\ Goal' = DrawnAfter(0)
      BY <2>3, DueThen, GoalThen
    <3>5. Got' \o Due' = Goal'
      BY <3>3, <3>4, Drawn, MaskParts, ConcatEmpty
    <3>6. QED BY <2>3, <3>1, <3>2, <3>5, StillOnTheWay
  <2>4. QED BY <2>1, <2>2, <2>3
<1>7. CASE Command("textw", "mask1", CMD.TEXTW)
  <2> DEFINE x == <<"GGDC_CMD_PORT", CMD.TEXTW>>
             t == Pars(<<255, 255>>)
  <2>1. /\ pc = "textw" /\ pc' = "mask1" /\ turn' = turn /\ asked' = Append(asked, x)
        /\ Faithful /\ x \in Asks
    <3>1. CMD.TEXTW \in Octet
      BY <1>3
    <3>2. Steps("textw", "mask1") /\ turn' = turn /\ asked' = Append(asked, x)
      BY <1>7, <3>1, CommandStep
    <3>3. QED BY <1>1, <1>4, <3>2 DEF Steps
  <2>2. Due = <<x>> \o t /\ t \in Seq(Asks)
    BY <2>1, DueNow, MaskParts, OneCommand, ZenonT(30) DEF Masks
  <2> HIDE DEF x
  <2>3. /\ Len(Fills) <= Len(asked') /\ Got' \in Seq(Asks) /\ Got' \o t = Goal
        /\ Goal = DrawnAfter(0)
    BY <2>1, <2>2, OneLessDue, ZenonT(30) DEF Goal
  <2>4. Due' = t /\ Goal' = Goal
    BY <2>1, <2>3, DueThen, GoalThen
  <2>5. QED BY <2>1, <2>3, <2>4, StillOnTheWay
<1>8. CASE Parameter("mask1", "mask2", 255)
  <2> DEFINE x == <<"GGDC_PARAM_PORT", 255>>
             t == Pars(<<255>>)
  <2>1. /\ pc = "mask1" /\ pc' = "mask2" /\ turn' = turn /\ asked' = Append(asked, x)
        /\ Faithful /\ x \in Asks
    <3>1. 255 \in Octet
      BY <1>3
    <3>2. Steps("mask1", "mask2") /\ turn' = turn /\ asked' = Append(asked, x)
      BY <1>8, <3>1, ParameterStep, ZenonT(30)
    <3>3. QED BY <1>1, <1>4, <3>2 DEF Steps
  <2>2. Due = <<x>> \o t /\ t \in Seq(Asks)
    BY <2>1, DueNow, MaskParts
  <2> HIDE DEF x
  <2>3. /\ Len(Fills) <= Len(asked') /\ Got' \in Seq(Asks) /\ Got' \o t = Goal
        /\ Goal = DrawnAfter(0)
    BY <2>1, <2>2, OneLessDue, ZenonT(30) DEF Goal
  <2>4. Due' = t /\ Goal' = Goal
    BY <2>1, <2>3, DueThen, GoalThen
  <2>5. QED BY <2>1, <2>3, <2>4, StillOnTheWay
<1>9. CASE Parameter("mask2", "arc", 255)
  <2> DEFINE x == <<"GGDC_PARAM_PORT", 255>>
             t == << >>
  <2>1. /\ pc = "mask2" /\ pc' = "arc" /\ turn' = turn /\ asked' = Append(asked, x)
        /\ Faithful /\ x \in Asks
    <3>1. 255 \in Octet
      BY <1>3
    <3>2. Steps("mask2", "arc") /\ turn' = turn /\ asked' = Append(asked, x)
      BY <1>9, <3>1, ParameterStep, ZenonT(30)
    <3>3. QED BY <1>1, <1>4, <3>2 DEF Steps
  <2>2. Due = <<x>> \o t /\ t \in Seq(Asks)
    BY <2>1, DueNow, MaskParts, EmptyIsSeq
  <2> HIDE DEF x
  <2>3. /\ Len(Fills) <= Len(asked') /\ Got' \in Seq(Asks) /\ Got' \o t = Goal
        /\ Goal = DrawnAfter(0)
    BY <2>1, <2>2, OneLessDue DEF Goal
  <2> DEFINE d == ArcOf(arc_table[1])
  <2>4. Due' = d /\ Goal' = DrawnAfter(1)
    BY <1>1, <2>1, DueThen, GoalThen
  <2>5. Got' = DrawnAfter(0)
    BY <2>3, ConcatEmpty
  <2>6. DrawnAfter(1) = DrawnAfter(0) \o d
    <3>1. 1 \in 1 .. Len(arc_table) /\ 1 - 1 = 0
      BY <1>2
    <3>2. QED BY <3>1, Drawn
  <2>7. QED BY <2>1, <2>3, <2>4, <2>5, <2>6, StillOnTheWay
<1>10. CASE CommandThen("arc", "origin", CMD.CSRW, 3,
                      SubSeq(arc_table[turn], 1, 3))
  <2> DEFINE x == <<"GGDC_CMD_PORT", CMD.CSRW>>
             bytes == SubSeq(arc_table[turn], 1, 3)
             t == Pars(bytes) \o AfterOrigin(arc_table[turn])
  <2>0. /\ pc = "arc" /\ turn \in 1 .. Len(arc_table) /\ Faithful /\ x \in Asks
        /\ CMD.CSRW \in Octet /\ 3 \in Octet
    BY <1>1, <1>3, <1>4, <1>10 DEF CommandThen, From
  <2>2. Due = <<x>> \o t /\ t \in Seq(Asks)
    <3>1. Due = Cmds(<<CMD.CSRW>>) \o t /\ t \in Seq(Asks)
      BY <2>0, DueNow, ArcParts DEF AfterOrigin
    <3>2. QED BY <3>1, OneCommand
  <2>3. bytes \in Seq(Octet) /\ CommandThen("arc", "origin", CMD.CSRW, 3, bytes)
    BY <1>10, <2>0, Tables
  <2> HIDE DEF bytes
  <2>1. /\ pc = "arc" /\ pc' = "origin" /\ turn' = turn /\ hl' = bytes
        /\ asked' = Append(asked, x)
    BY <2>0, <2>3, CommandThenStep DEF Steps
  <2> HIDE DEF x
  <2>4. /\ Len(Fills) <= Len(asked') /\ Got' \in Seq(Asks) /\ Got' \o t = Goal
        /\ Goal = DrawnAfter(turn)
    BY <2>0, <2>1, <2>2, OneLessDue DEF Goal
  <2>5. Due' = t /\ Goal' = Goal
    BY <2>1, <2>4, DueThen, GoalThen
  <2>6. QED BY <2>1, <2>4, <2>5, StillOnTheWay
<1>11. CASE CommandThen("shape", "curve", CMD.VECTW, 11,
                      SubSeq(arc_table[turn], 4, 14))
  <2> DEFINE x == <<"GGDC_CMD_PORT", CMD.VECTW>>
             bytes == SubSeq(arc_table[turn], 4, 14)
             t == Pars(bytes) \o Cmds(<<CMD.VECTE>>)
  <2>0. /\ pc = "shape" /\ turn \in 1 .. Len(arc_table) /\ Faithful /\ x \in Asks
        /\ CMD.VECTW \in Octet /\ 11 \in Octet
    BY <1>1, <1>3, <1>4, <1>11 DEF CommandThen, From
  <2>2. Due = <<x>> \o t /\ t \in Seq(Asks)
    <3>1. Due = Cmds(<<CMD.VECTW>>) \o t /\ t \in Seq(Asks)
      BY <2>0, DueNow, ArcParts DEF AfterOrigin
    <3>2. QED BY <3>1, OneCommand
  <2>3. bytes \in Seq(Octet) /\ CommandThen("shape", "curve", CMD.VECTW, 11, bytes)
    BY <1>11, <2>0, Tables
  <2> HIDE DEF bytes
  <2>1. /\ pc = "shape" /\ pc' = "curve" /\ turn' = turn /\ hl' = bytes
        /\ asked' = Append(asked, x)
    BY <2>0, <2>3, CommandThenStep DEF Steps
  <2> HIDE DEF x
  <2>4. /\ Len(Fills) <= Len(asked') /\ Got' \in Seq(Asks) /\ Got' \o t = Goal
        /\ Goal = DrawnAfter(turn)
    BY <2>0, <2>1, <2>2, OneLessDue DEF Goal
  <2>5. Due' = t /\ Goal' = Goal
    BY <2>1, <2>4, DueThen, GoalThen
  <2>6. QED BY <2>1, <2>4, <2>5, StillOnTheWay
<1>12. CASE send_params_hl_c("origin", "shape")
  <2> DEFINE x == <<"GGDC_PARAM_PORT", Head(hl)>>
             r == AfterOrigin(arc_table[turn])
             t == Pars(Tail(hl)) \o r
  <2>1. /\ pc = "origin" /\ turn' = turn /\ Head(hl) \in Octet /\ Len(hl) \in 1 .. 11
        /\ hl' = Tail(hl) /\ Tail(hl) \in Seq(Octet)
        /\ pc' = IF hl' = << >> THEN "shape" ELSE "origin"
        /\ asked' = Append(asked, x)
    <3>1. "origin" \in Looping
      OBVIOUS
    <3>2. QED BY <1>12, <3>1, LoopStep
  <2>2. Faithful /\ turn \in 1 .. Len(arc_table) /\ x \in Asks
    BY <1>1, <2>1 DEF Asks
  <2>3. r \in Seq(Asks) /\ Due = Pars(hl) \o r
    BY <2>1, <2>2, DueNow, ArcParts, OneCommand
  <2>4. Pars(hl) = <<x>> \o Pars(Tail(hl)) /\ Pars(Tail(hl)) \in Seq(Asks)
    <3>1. 0 \notin 1 .. 11 /\ Len(<< >>) = 0
      OBVIOUS
    <3>2. hl # << >>
      BY <2>1, <3>1, Zenon
    <3>3. QED BY <1>1, <2>1, <3>2, ParsAre
  <2> HIDE DEF x, r
  <2>5. Due = <<x>> \o t /\ t \in Seq(Asks)
    <3> DEFINE p == Pars(Tail(hl))
    <3>1. p \in Seq(Asks) /\ Due = (<<x>> \o p) \o r /\ <<x>> \in Seq(Asks)
      BY <2>2, <2>3, <2>4, SingleIsSeq
    <3> HIDE DEF p
    <3>2. (<<x>> \o p) \o r = <<x>> \o (p \o r) /\ p \o r \in Seq(Asks)
      BY <2>3, <3>1, Regroup, Zenon
    <3>3. QED BY <3>1, <3>2 DEF p
  <2> HIDE DEF t
  <2>6. /\ Len(Fills) <= Len(asked') /\ Got' \o t = Goal /\ Goal = DrawnAfter(turn)
    BY <2>1, <2>2, <2>5, OneLessDue DEF Goal
  <2>7. Goal' = Goal
    BY <2>1, <2>6, GoalThen
  <2>8. Due' = t
    <3>1. CASE hl' = << >>
      <4>1. pc' = "shape"
        BY <2>1, <3>1
      <4>2. Due' = r
        BY <2>1, <4>1, DueThen DEF r
      <4>3. t = r
        BY <2>1, <2>3, <3>1, ParsAre, ConcatEmpty DEF t
      <4>4. QED BY <4>2, <4>3
    <3>2. CASE hl' # << >>
      <4>1. pc' = "origin"
        BY <2>1, <3>2
      <4>2. QED BY <2>1, <4>1, DueThen DEF t, r
    <3>3. QED BY <3>1, <3>2
  <2>9. pc' # "done"
    BY <2>1
  <2>10. QED BY <2>6, <2>7, <2>8, <2>9, StillOnTheWay
<1>13. CASE send_params_hl_c("curve", "vecte")
  <2> DEFINE x == <<"GGDC_PARAM_PORT", Head(hl)>>
             r == Cmds(<<CMD.VECTE>>)
             t == Pars(Tail(hl)) \o r
  <2>1. /\ pc = "curve" /\ turn' = turn /\ Head(hl) \in Octet /\ Len(hl) \in 1 .. 11
        /\ hl' = Tail(hl) /\ Tail(hl) \in Seq(Octet)
        /\ pc' = IF hl' = << >> THEN "vecte" ELSE "curve"
        /\ asked' = Append(asked, x)
    <3>1. "curve" \in Looping
      OBVIOUS
    <3>2. QED BY <1>13, <3>1, LoopStep
  <2>2. Faithful /\ turn \in 1 .. Len(arc_table) /\ x \in Asks
    BY <1>1, <2>1 DEF Asks
  <2>3. r \in Seq(Asks) /\ Due = Pars(hl) \o r
    BY <2>1, <2>2, DueNow, ArcParts, OneCommand
  <2>4. Pars(hl) = <<x>> \o Pars(Tail(hl)) /\ Pars(Tail(hl)) \in Seq(Asks)
    <3>1. 0 \notin 1 .. 11 /\ Len(<< >>) = 0
      OBVIOUS
    <3>2. hl # << >>
      BY <2>1, <3>1, Zenon
    <3>3. QED BY <1>1, <2>1, <3>2, ParsAre
  <2> HIDE DEF x, r
  <2>5. Due = <<x>> \o t /\ t \in Seq(Asks)
    <3> DEFINE p == Pars(Tail(hl))
    <3>1. p \in Seq(Asks) /\ Due = (<<x>> \o p) \o r /\ <<x>> \in Seq(Asks)
      BY <2>2, <2>3, <2>4, SingleIsSeq
    <3> HIDE DEF p
    <3>2. (<<x>> \o p) \o r = <<x>> \o (p \o r) /\ p \o r \in Seq(Asks)
      BY <2>3, <3>1, Regroup, Zenon
    <3>3. QED BY <3>1, <3>2 DEF p
  <2> HIDE DEF t
  <2>6. /\ Len(Fills) <= Len(asked') /\ Got' \o t = Goal /\ Goal = DrawnAfter(turn)
    BY <2>1, <2>2, <2>5, OneLessDue DEF Goal
  <2>7. Goal' = Goal
    BY <2>1, <2>6, GoalThen
  <2>8. Due' = t
    <3>1. CASE hl' = << >>
      <4>1. pc' = "vecte"
        BY <2>1, <3>1
      <4>2. Due' = r
        BY <2>1, <4>1, DueThen DEF r
      <4>3. t = r
        BY <2>1, <2>3, <3>1, ParsAre, ConcatEmpty DEF t
      <4>4. QED BY <4>2, <4>3
    <3>2. CASE hl' # << >>
      <4>1. pc' = "curve"
        BY <2>1, <3>2
      <4>2. QED BY <2>1, <4>1, DueThen DEF t, r
    <3>3. QED BY <3>1, <3>2
  <2>9. pc' # "done"
    BY <2>1
  <2>10. QED BY <2>6, <2>7, <2>8, <2>9, StillOnTheWay
<1>14. CASE ArcNext
  <2> DEFINE x == <<"GGDC_CMD_PORT", CMD.VECTE>>
  <2>1. /\ pc = "vecte" /\ asked' = Append(asked, x)
        /\ IF turn = Len(arc_table) THEN turn' = turn /\ pc' = "done"
                                    ELSE turn' = turn + 1 /\ pc' = "arc"
    BY <1>14, ArcNextStep
  <2>2. Faithful /\ turn \in 1 .. Len(arc_table) /\ x \in Asks
    BY <1>1, <1>4, <2>1
  <2>3. Due = <<x>> \o << >>
    BY <2>1, <2>2, DueNow, OneCommand, SingleIsSeq, ConcatEmpty
  <2> HIDE DEF x
  <2>4. /\ Len(Fills) <= Len(asked') /\ Got' = DrawnAfter(turn)
    <3>1. /\ Len(Fills) <= Len(asked') /\ Got' \in Seq(Asks) /\ Got' \o << >> = Goal
          /\ Goal = DrawnAfter(turn)
      BY <2>1, <2>2, <2>3, EmptyIsSeq, OneLessDue DEF Goal
    <3>2. QED BY <3>1, ConcatEmpty
  <2>5. CASE turn = Len(arc_table)
    <3>1. pc' = "done" /\ turn' = turn
      BY <2>1, <2>5
    <3>2. Due' = << >> /\ Goal' = DrawnAfter(turn)
      BY <3>1, DueThen, GoalThen
    <3>3. DrawnAfter(turn) \o << >> = DrawnAfter(turn)
      <4>1. turn \in 0 .. Len(arc_table)
        BY <2>2
      <4>2. DrawnAfter(turn) \in Seq(Asks)
        BY <4>1, Drawn
      <4>3. QED BY <4>2, ConcatEmpty
    <3>4. QED BY <2>4, <2>5, <3>1, <3>2, <3>3, StillOnTheWay
  <2>6. CASE turn # Len(arc_table)
    <3> DEFINE k == turn + 1
    <3>1. pc' = "arc" /\ turn' = k
      BY <2>1, <2>6
    <3>2. k \in 1 .. Len(arc_table) /\ k - 1 = turn
      BY <1>2, <2>2, <2>6
    <3> HIDE DEF k
    <3>3. Due' = ArcOf(arc_table[k]) /\ Goal' = DrawnAfter(k)
      BY <3>1, DueThen, GoalThen
    <3>4. DrawnAfter(k) = DrawnAfter(turn) \o ArcOf(arc_table[k])
      BY <3>2, Drawn
    <3>5. QED BY <2>4, <3>1, <3>3, <3>4, StillOnTheWay
  <2>7. QED BY <2>5, <2>6
<1>15. CASE Start
  BY <1>5, <1>15 DEF Start, From
<1>16. CASE init_ggdc
  BY <1>5, <1>16 DEF init_ggdc, Command, From
<1>17. CASE FillLoad
  BY <1>5, <1>17 DEF FillLoad, From
<1>18. CASE send_params_hl_c("vector", "csrw")
  BY <1>5, <1>18 DEF send_params_hl_c
<1>19. CASE Command("csrw", "low", CMD.CSRW)
  BY <1>5, <1>19 DEF Command, From
<1>20. CASE Parameter("low", "high", regs.E)
  BY <1>5, <1>20 DEF Parameter, From
<1>21. CASE Parameter("high", "third", regs.D)
  BY <1>5, <1>21 DEF Parameter, From
<1>22. CASE Parameter("third", "write", regs.C)
  BY <1>5, <1>22 DEF Parameter, From
<1>23. CASE FillWrite
  BY <1>5, <1>23 DEF FillWrite, From
<1>24. CASE Parameter("wlow", "whigh", regs.E)
  BY <1>5, <1>24 DEF Parameter, From
<1>25. QED
  BY <1>5, <1>6, <1>7, <1>8, <1>9, <1>10, <1>11, <1>12, <1>13, <1>14, <1>15,
     <1>16, <1>17, <1>18, <1>19, <1>20, <1>21, <1>22, <1>23, <1>24
     DEF TestNext, fill_gvram, draw_arcs

-----------------------------------------------------------------------------

(* The inductive invariant.                                                *)
TestIInv == TestInv /\ Counted /\ OnTheWay

LEMMA TestIInvInit == TestInit => TestIInv
<1> SUFFICES ASSUME TestInit PROVE TestIInv
  OBVIOUS
<1>1. pc = "start" /\ asked = << >>
  BY DEF TestInit
<1>2. Len(<< >>) = 0
  OBVIOUS
<1>3. Counted
  BY <1>1, <1>2 DEF Counted
<1>4. OnTheWay
  BY <1>1 DEF OnTheWay, Masking, Drawing
<1>5. QED
  BY <1>3, <1>4, TestInvInit DEF TestIInv

LEMMA TestIInvStep == TestIInv /\ [TestNext]_testVars => TestIInv'
<1>1. ASSUME TestIInv, TestNext PROVE TestIInv'
  BY <1>1, TestInvStep, CountedStep, OnTheWayStep DEF TestIInv
<1>2. ASSUME TestIInv, UNCHANGED testVars PROVE TestIInv'
  <2>1. pc' = pc /\ turn' = turn /\ hl' = hl /\ asked' = asked
    BY <1>2 DEF testVars
  <2>2. Len(Fills)' = Len(Fills)
    BY DEF Fills, Cmds, FillOf, Pars
  <2>3. Counted'
    BY <1>2, <2>1, <2>2 DEF TestIInv, Counted
  <2>4. Got' = Got
    BY <2>1, <2>2 DEF Got
  <2>5. Due' = Due
    BY <2>1 DEF Due, Masks, ArcOf, AfterOrigin, Cmds, Pars
  <2>6. Goal' = Goal
    BY <2>1, GoalThen DEF Goal
  <2>7. OnTheWay'
    BY <1>2, <2>1, <2>2, <2>4, <2>5, <2>6 DEF TestIInv, OnTheWay
  <2>8. QED BY <1>2, <2>3, <2>7, TestInvStep DEF TestIInv
<1>3. QED
  BY <1>1, <1>2

LEMMA NothingDrawn ==
  ASSUME NEW s \in Seq(Asks), Len(s) <= Len(Fills)
  PROVE  SubSeq(s, Len(Fills) + 1, Len(s)) = << >>
<1> DEFINE m == Len(Fills)
<1>1. m \in Nat /\ Len(s) <= m /\ Len(s) \in Nat
  BY FillsLength
<1> HIDE DEF m
<1>2. SubSeq(s, m + 1, Len(s)) = << >>
  BY <1>1
<1>3. QED
  BY <1>2 DEF m

LEMMA DrawnInOrder == TestIInv => ArcsAreDrawn
<1> SUFFICES ASSUME TestIInv PROVE ArcsAreDrawn
  OBVIOUS
<1>1. /\ pc \in Opening \cup Filling \cup Masking \cup Drawing \cup {"done"}
      /\ pc \in Filling => turn \in 1 .. Len(fill_table)
      /\ pc \in Drawing => turn \in 1 .. Len(arc_table)
      /\ pc # "start" => Faithful
      /\ pc = "start" => ps.did = << >> /\ asked = << >>
      /\ hl \in Seq(Octet)
      /\ pc = "vector" => Len(hl) \in 1 .. 11
  BY DEF TestIInv, TestInv, Machine, Looping
<1>2. GgdcGot = asked /\ asked \in Seq(Asks)
  <2>1. CASE pc = "start"
    <3>1. GgdcGot = << >>
      BY <1>1, <2>1 DEF GgdcGot
    <3>2. QED BY <1>1, <2>1, <3>1, EmptyIsSeq
  <2>2. CASE pc # "start"
    BY <1>1, <2>2 DEF Faithful
  <2>3. QED BY <2>1, <2>2
<1>3. SUFFICES IsPrefix(Got, Arcs) /\ (pc = "done" => Got = Arcs)
  BY <1>2 DEF ArcsAreDrawn, Got
<1>4. Arcs \in Seq(Asks)
  <2>1. Len(arc_table) \in 0 .. Len(arc_table)
    BY Tables
  <2>2. QED BY <2>1, Drawn
<1>5. CASE pc \in Opening \cup Filling
  <2>1. Len(asked) <= Len(Fills)
    <3>1. /\ Len(fill_table) \in Nat \ {0}
          /\ Len(Fills) = 3 + 19 * Len(fill_table)
      BY Tables, FillsLength
    <3> DEFINE asks == Len(asked)
               fills == Len(fill_table)
    <3>2. CASE pc \in Opening
      <4>1. asks = 0 \/ asks = 1 \/ asks = 2
        BY <3>2 DEF TestIInv, Counted, Opening
      <4>2. fills \in Nat \ {0} /\ Len(Fills) = 3 + 19 * fills
        BY <3>1
      <4> HIDE DEF asks, fills
      <4>3. asks <= Len(Fills)
        BY <4>1, <4>2
      <4>4. QED BY <4>3 DEF asks
    <3>3. CASE pc \in Filling
      <4>1. \E d \in 0 .. 18 : Len(asked) = 3 + 19 * (turn - 1) + d
        <5>1. pc = "vector" =>
                /\ 12 - Len(hl) \in 1 .. 11
                /\ Len(asked) = 3 + 19 * (turn - 1) + (12 - Len(hl))
          <6>1. pc = "vector" => Len(asked) = 3 + 19 * (turn - 1) + 12 - Len(hl)
            BY DEF TestIInv, Counted
          <6>2. turn \in Int
            BY <1>1, <3>3
          <6> DEFINE k == Len(hl)
          <6>3. pc = "vector" => k \in 1 .. 11 /\ asks = 3 + 19 * (turn - 1) + 12 - k
            BY <1>1, <6>1
          <6> HIDE DEF k, asks
          <6>4. pc = "vector" => /\ 12 - k \in 1 .. 11
                                 /\ asks = 3 + 19 * (turn - 1) + (12 - k)
            BY <6>2, <6>3
          <6>5. QED BY <6>4 DEF k, asks
        <5>2. pc = "vector" => 12 - Len(hl) \in 0 .. 18
          BY <5>1
        <5>3. turn \in Int /\ pc \in Filling
          BY <1>1, <3>3
        <5>4. pc = "fill" => Len(asked) = 3 + 19 * (turn - 1) + 0
          BY <5>3 DEF TestIInv, Counted
        <5>5. pc \notin {"fill", "vector"} =>
                \E d \in 12 .. 18 : Len(asked) = 3 + 19 * (turn - 1) + d
          BY <5>3 DEF TestIInv, Counted, Filling
        <5>6. 0 \in 0 .. 18 /\ 12 .. 18 \subseteq 0 .. 18
          OBVIOUS
        <5>7. CASE pc = "fill"
          BY <5>4, <5>6, <5>7
        <5>8. CASE pc = "vector"
          BY <5>1, <5>2, <5>8
        <5>9. CASE pc \notin {"fill", "vector"}
          BY <5>5, <5>6, <5>9
        <5>10. QED BY <5>7, <5>8, <5>9
      <4>2. PICK d \in 0 .. 18 : Len(asked) = 3 + 19 * (turn - 1) + d
        BY <4>1
      <4>3. turn \in 1 .. Len(fill_table)
        BY <1>1, <3>3
      <4>4. QED BY <3>1, <4>2, <4>3
    <3>4. QED BY <1>5, <3>2, <3>3
  <2>2. Got = << >>
    BY <1>2, <2>1, NothingDrawn DEF Got
  <2>3. IsPrefix(<< >>, Arcs)
    <3>1. << >> \in Seq(Asks) /\ << >> \o Arcs = Arcs
      BY <1>4, EmptyIsSeq, ConcatEmpty
    <3>2. IsPrefix(<< >>, << >> \o Arcs)
      BY <1>4, <3>1, FirstPart
    <3>3. QED BY <3>1, <3>2
  <2>4. QED BY <1>5, <2>2, <2>3 DEF Opening, Filling
<1>6. CASE pc \in Masking \cup Drawing \cup {"done"}
  <2>1. /\ Len(Fills) <= Len(asked) /\ Got \o Due = Goal
        /\ pc = "done" => turn = Len(arc_table)
    BY <1>6 DEF TestIInv, OnTheWay
  <2>2. Got \in Seq(Asks)
    <3> DEFINE m == Len(Fills)
    <3>1. m \in Nat /\ m <= Len(asked)
      BY <2>1, FillsLength
    <3> HIDE DEF m
    <3>2. SubSeq(asked, m + 1, Len(asked)) \in Seq(Asks)
      BY <1>2, <3>1
    <3>3. QED BY <3>2 DEF m, Got
  <2>3. Due \in Seq(Asks)
    <3>1. CASE pc \in Masking \cup {"done"}
      <4>1. pc = "done" => Due = << >>
        BY DEF Due
      <4>2. /\ Masks \in Seq(Asks) /\ Pars(<<255, 255>>) \in Seq(Asks)
            /\ Pars(<<255>>) \in Seq(Asks) /\ << >> \in Seq(Asks)
        BY MaskParts, EmptyIsSeq
      <4>3. /\ pc = "textw" => Due = Masks
            /\ pc = "mask1" => Due = Pars(<<255, 255>>)
            /\ pc = "mask2" => Due = Pars(<<255>>)
        BY DueNow
      <4>4. pc \in {"textw", "mask1", "mask2", "done"}
        BY <3>1 DEF Masking
      <4>5. QED BY <4>1, <4>2, <4>3, <4>4, ZenonT(30)
    <3>2. CASE pc \in Drawing
      <4>1. turn \in 1 .. Len(arc_table)
        BY <1>1, <3>2
      <4>2. /\ ArcOf(arc_table[turn]) \in Seq(Asks)
            /\ AfterOrigin(arc_table[turn]) \in Seq(Asks)
            /\ Cmds(<<CMD.VECTE>>) \in Seq(Asks) /\ Pars(hl) \in Seq(Asks)
        BY <1>1, <4>1, ArcParts, OneCommand, ParsAre
      <4>3. /\ Pars(hl) \o AfterOrigin(arc_table[turn]) \in Seq(Asks)
            /\ Pars(hl) \o Cmds(<<CMD.VECTE>>) \in Seq(Asks)
        BY <4>2
      <4>4. QED BY <3>2, <4>2, <4>3, DueNow, ZenonT(30) DEF Drawing
    <3>3. QED BY <1>6, <3>1, <3>2
  <2>4. \E k \in 0 .. Len(arc_table) :
          Goal = DrawnAfter(k) /\ (pc = "done" => k = Len(arc_table))
    <3>1. Len(arc_table) \in Nat \ {0}
      BY Tables
    <3>2. CASE pc \in Masking
      BY <3>1, <3>2 DEF Goal, Masking
    <3>3. CASE pc \notin Masking
      <4>1. turn \in 0 .. Len(arc_table)
        BY <1>1, <1>6, <2>1, <3>1, <3>3
      <4>2. QED BY <2>1, <3>3, <4>1 DEF Goal
    <3>4. QED BY <3>2, <3>3
  <2>5. PICK k \in 0 .. Len(arc_table) :
          Goal = DrawnAfter(k) /\ (pc = "done" => k = Len(arc_table))
    BY <2>4
  <2>6. PICK r \in Seq(Asks) : DrawnAfter(k) \o r = Arcs
    BY DrawnIsPrefix
  <2>7. Arcs = Got \o (Due \o r) /\ Due \o r \in Seq(Asks)
    <3> DEFINE g == Got
               d == Due
    <3>1. g \in Seq(Asks) /\ d \in Seq(Asks) /\ (g \o d) \o r = Arcs
      BY <2>1, <2>2, <2>3, <2>5, <2>6
    <3> HIDE DEF g, d
    <3>2. (g \o d) \o r = g \o (d \o r) /\ d \o r \in Seq(Asks)
      BY <3>1, Regroup, ZenonT(30)
    <3>3. QED BY <3>1, <3>2 DEF g, d
  <2>8. IsPrefix(Got, Arcs)
    <3> DEFINE g == Got
               t == Due \o r
    <3>1. g \in Seq(Asks) /\ t \in Seq(Asks) /\ Arcs = g \o t
      BY <2>2, <2>7
    <3> HIDE DEF g, t
    <3>2. IsPrefix(g, g \o t)
      BY <3>1, FirstPart
    <3>3. QED BY <3>1, <3>2 DEF g
  <2>9. ASSUME pc = "done" PROVE Got = Arcs
    <3>1. Due = << >> /\ Goal = Arcs
      BY <2>5, <2>9, Drawn DEF Due
    <3>2. QED BY <2>1, <2>2, <3>1, ConcatEmpty
  <2>10. QED BY <2>8, <2>9
<1>7. QED
  BY <1>1, <1>5, <1>6

(* The arcs are drawn from their table, whatever the tables are and        *)
(* whatever the parser was left in: no call made on the way spoils the     *)
(* count in C or the pointer in HL.                                        *)
THEOREM ArcsStayDrawn == TestSpec => []ArcsAreDrawn
BY TestIInvInit, TestIInvStep, DrawnInOrder, PTL DEF TestSpec

=============================================================================
