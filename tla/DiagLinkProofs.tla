--------------------------- MODULE DiagLinkProofs ---------------------------
(***************************************************************************)
(* The link of the two diagnostic ROMs is an ordered channel in which no   *)
(* escape sequence swallows a character of the text, for every set of      *)
(* bytes, every text and every bound.                                      *)
(***************************************************************************)
EXTENDS DiagLink, TLAPS

USE NulIsByte, SequenceBytes, SubTextIsPlain

Plain == Byte \ {NUL, ESC}

(* What a command has still to send: text, or the end of the sequence. *)
TextCalls == {Call(b, sub_putc, <<b>>) : b \in Plain}
EscCall == Call(ESC, sub_putc, << >>)
GCall == Call(G, sub_putc_data, << >>)
TCall == Call(T, sub_putc_data, <<Pattern>>)
Fresh == todo \in Seq(TextCalls) \/ todo = <<EscCall, GCall, TCall>>

(* Neither the order nor SequenceIsBacked stands alone.  They hold because *)
(* the place of the sub ROM in a sequence, the register and the calls the  *)
(* main ROM has still to make always fit together, in one of three ways.   *)
WantsG == sub = "esc" \/ (sub = "got" /\ acc = ESC)
WantsT == sub = "escG" \/ (sub = "second" /\ acc = G)
Neutral ==
  \/ sub \in {"reset", "init", "idle", "pattern", "done"}
  \/ sub \in {"got", "work"} /\ acc \in Plain
  \/ sub = "third" /\ acc = T

Register(b) == dr_full /\ main_to_sub_data = b

InStep ==
  \/ /\ WantsG
     /\ \/ ~dr_full /\ todo = <<GCall, TCall>>
        \/ Register(G) /\ todo = <<TCall>>
  \/ /\ WantsT
     /\ \/ ~dr_full /\ todo = <<TCall>>
        \/ Register(T) /\ Fresh
  \/ /\ Neutral
     /\ \/ ~dr_full /\ Fresh
        \/ (\E b \in Plain : Register(b)) /\ Fresh
        \/ Register(ESC) /\ todo = <<GCall, TCall>>

(* The effects under way: what the sub ROM is about to draw, and what the  *)
(* byte in the register will make it draw.                                 *)
Held ==
  CASE sub \in {"third", "pattern"}              -> <<Pattern>>
    [] sub \in {"got", "work"} /\ acc # ESC      -> <<acc>>
    [] OTHER                                     -> << >>
Waiting ==
  CASE ~dr_full \/ WantsG                        -> << >>
    [] dr_full /\ WantsT                         -> <<Pattern>>
    [] dr_full /\ ~WantsG /\ ~WantsT             ->
         IF main_to_sub_data = ESC THEN << >> ELSE <<main_to_sub_data>>

WriteSafe == main = "out" => ~dr_full
InOrder == asked = drawn \o (Held \o Waiting)

IInv == TypeOK /\ WriteSafe /\ InStep /\ InOrder

-----------------------------------------------------------------------------
(* Sequences. *)

LEMMA EmptyIsSeq == ASSUME NEW S PROVE << >> \in Seq(S)
OBVIOUS

LEMMA SingleIsSeq == ASSUME NEW S, NEW e \in S PROVE <<e>> \in Seq(S)
OBVIOUS

LEMMA HeadAndTail ==
  ASSUME NEW S, NEW s \in Seq(S), s # << >>
  PROVE  Head(s) \in S /\ Tail(s) \in Seq(S)
OBVIOUS

LEMMA TupleHeads ==
  ASSUME NEW x, NEW y, NEW z
  PROVE  /\ Head(<<x>>) = x /\ Tail(<<x>>) = << >>
         /\ Head(<<x, y>>) = x /\ Tail(<<x, y>>) = <<y>>
         /\ Head(<<x, y, z>>) = x /\ Tail(<<x, y, z>>) = <<y, z>>
OBVIOUS

LEMMA ConcatEmpty ==
  ASSUME NEW S, NEW s \in Seq(S)
  PROVE  s \o << >> = s /\ << >> \o s = s
OBVIOUS

LEMMA ConcatType ==
  ASSUME NEW S, NEW s \in Seq(S), NEW t \in Seq(S)
  PROVE  s \o t \in Seq(S)
OBVIOUS

LEMMA ConcatAssociative ==
  ASSUME NEW S, NEW s \in Seq(S), NEW t \in Seq(S), NEW u \in Seq(S)
  PROVE  (s \o t) \o u = s \o (t \o u)
OBVIOUS

-----------------------------------------------------------------------------
(* The calls. *)

Calls == [byte : Byte, wait : {sub_putc, sub_putc_data}, asks : Seq(Effect)]

LEMMA CallTypes ==
  /\ TextCalls \subseteq Calls
  /\ EscCall \in Calls /\ GCall \in Calls /\ TCall \in Calls
<1>1. << >> \in Seq(Effect) /\ <<Pattern>> \in Seq(Effect)
  BY EmptyIsSeq, SingleIsSeq DEF Effect
<1>2. ASSUME NEW b \in Plain PROVE Call(b, sub_putc, <<b>>) \in Calls
  <2>1. b \in Effect
    BY DEF Effect, Plain
  <2>2. <<b>> \in Seq(Effect)
    BY <2>1, SingleIsSeq
  <2>3. QED
    BY <2>2 DEF Calls, Call, Plain
<1>3. QED
  BY <1>1, <1>2 DEF TextCalls, EscCall, GCall, TCall, Call, Calls

LEMMA TextCallsOfText ==
  [i \in DOMAIN SubText |-> Call(SubText[i], sub_putc, <<SubText[i]>>)] \in Seq(TextCalls)
<1> DEFINE c == [i \in DOMAIN SubText |-> Call(SubText[i], sub_putc, <<SubText[i]>>)]
<1>1. DOMAIN SubText = 1 .. Len(SubText) /\ Len(SubText) \in Nat
  OBVIOUS
<1>2. ASSUME NEW i \in DOMAIN SubText
      PROVE  Call(SubText[i], sub_putc, <<SubText[i]>>) \in TextCalls
  <2>1. SubText[i] \in Plain
    BY DEF Plain
  <2>2. QED
    BY <2>1 DEF TextCalls
<1>3. c \in [1 .. Len(SubText) -> TextCalls]
  BY <1>1, <1>2
<1> HIDE DEF c
<1>4. c \in Seq(TextCalls)
  BY <1>1, <1>3
<1>5. QED
  BY <1>4 DEF c

(* What comes next when the register is free. *)
LEMMA NextCall ==
  ASSUME TypeOK, InStep, ~dr_full, todo # << >>
  PROVE  \/ WantsG /\ Head(todo) = GCall /\ Tail(todo) = <<TCall>>
         \/ WantsT /\ Head(todo) = TCall /\ Tail(todo) = << >>
         \/ /\ Neutral
            /\ Head(todo) \in TextCalls /\ Tail(todo) \in Seq(TextCalls)
         \/ /\ Neutral
            /\ Head(todo) = EscCall /\ Tail(todo) = <<GCall, TCall>>
<1>1. CASE WantsG
  <2>1. todo = <<GCall, TCall>>
    BY <1>1 DEF InStep, Register, WantsG, WantsT, Neutral, Plain
  <2>2. QED
    BY <1>1, <2>1, TupleHeads
<1>2. CASE WantsT
  <2>1. todo = <<TCall>>
    BY <1>2 DEF InStep, Register, WantsG, WantsT, Neutral, Plain
  <2>2. QED
    BY <1>2, <2>1, TupleHeads
<1>3. CASE Neutral
  <2>1. Fresh
    BY <1>3 DEF InStep, Register, WantsG, WantsT, Neutral, Plain
  <2>2. CASE todo \in Seq(TextCalls)
    BY <1>3, <2>2, HeadAndTail
  <2>3. CASE todo = <<EscCall, GCall, TCall>>
    BY <1>3, <2>3, TupleHeads
  <2>4. QED
    BY <2>1, <2>2, <2>3 DEF Fresh
<1>4. QED
  BY <1>1, <1>2, <1>3 DEF InStep

-----------------------------------------------------------------------------
(* Types.                                                                  *)

LEMMA TypeStep == TypeOK /\ InStep /\ [Next]_vars => TypeOK'
<1> SUFFICES ASSUME TypeOK, InStep, [Next]_vars PROVE TypeOK'
  OBVIOUS
<1> USE DEF TypeOK, BridgeTypeOK, mainVars, subVars, bridge
<1>1. CASE cmd_sub
  <2>1. todo' \in Seq(TextCalls) /\ todo' # << >>
    BY <1>1, TextCallsOfText DEF cmd_sub
  <2>2. todo' \in Seq(Calls)
    BY <2>1, CallTypes
  <2>3. QED
    BY <1>1, <2>1, <2>2 DEF cmd_sub, Calls
<1>2. CASE cmd_gvram
  <2>1. todo' = <<EscCall, GCall, TCall>>
    BY <1>2 DEF cmd_gvram, EscCall, GCall, TCall
  <2>2. todo' \in Seq(Calls) /\ todo' # << >>
    BY <2>1, CallTypes
  <2>3. QED
    BY <1>2, <2>2 DEF cmd_gvram, Calls
<1>3. CASE PutcWait
  BY <1>3 DEF PutcWait
<1>4. CASE PutcOut
  <2>1. todo # << >>
    BY <1>4 DEF PutcOut
  <2>2. Head(todo) \in Calls /\ Tail(todo) \in Seq(Calls)
    BY <2>1, HeadAndTail DEF Calls
  <2>3. asked \o Head(todo).asks \in Seq(Effect)
    BY <2>2, ConcatType DEF Calls
  <2>4. QED
    BY <1>4, <2>2, <2>3 DEF PutcOut, MainIoWrite, Calls
<1>5. CASE SubStart
  BY <1>5 DEF SubStart, SubIoWrite
<1>6. CASE SubReady
  BY <1>6 DEF SubReady, SubIoWrite
<1>7. ASSUME NEW from, NEW to \in {"got", "second", "third"}, SubRead(from, to)
      PROVE  TypeOK'
  BY <1>7 DEF SubRead, SubIoRead, SubIoReadValue
<1>8. CASE idle_loop
  BY <1>7, <1>8 DEF idle_loop
<1>9. CASE SubTake
  BY <1>9 DEF SubTake, SubIoWrite
<1>10. CASE handle_esc
  BY <1>7, <1>10 DEF handle_esc
<1>11. CASE handle_char
  <2>1. (IF sub = "pattern" THEN Pattern ELSE acc) \in Effect
    BY <1>11 DEF handle_char, Effect, InStep, WantsG, WantsT, Neutral, Plain
  <2>2. QED
    BY <1>11, <2>1 DEF handle_char
<1>12. CASE SubRelease
  BY <1>12 DEF SubRelease, SubIoWrite
<1>13. CASE Reset
  BY <1>13, EmptyIsSeq DEF Reset, BridgeReset
<1>14. CASE UNCHANGED vars
  BY <1>14 DEF vars
<1>15. QED
  BY <1>1, <1>2, <1>3, <1>4, <1>5, <1>6, <1>8, <1>9, <1>10, <1>11, <1>12, <1>13, <1>14
  DEF Next, MainStep, SubStep

-----------------------------------------------------------------------------
(* The two programs stay in step. *)

LEMMA OneOfThree ==
  /\ WantsG => ~WantsT /\ ~Neutral
  /\ WantsT => ~Neutral
BY DEF WantsG, WantsT, Neutral, Plain

(* A new command finds the sub ROM outside a sequence or with its last     *)
(* byte in the register.                                                   *)
LEMMA AtPrompt ==
  ASSUME TypeOK, InStep, main = "monitor",
         UNCHANGED <<main_to_sub_data, dr_full, sub, acc>>, Fresh'
  PROVE  InStep'
<1>1. todo = << >>
  BY DEF TypeOK
<1>2. ASSUME NEW x, NEW y PROVE << >> # <<x>> /\ << >> # <<x, y>>
  OBVIOUS
<1>3. \/ WantsT /\ Register(T)
      \/ Neutral /\ (~dr_full \/ \E b \in Plain : Register(b))
  BY <1>1, <1>2 DEF InStep
<1>4. WantsT' = WantsT /\ Neutral' = Neutral /\ Register(T)' = Register(T)
      /\ (\A b \in Plain : Register(b)' = Register(b)) /\ dr_full' = dr_full
  BY DEF WantsT, Neutral, Register
<1>5. CASE WantsT /\ Register(T)
  <2>1. WantsT' /\ Register(T)'
    BY <1>5 DEF WantsT, Register
  <2>2. QED
    BY <2>1 DEF InStep
<1>6. CASE Neutral /\ (~dr_full \/ \E b \in Plain : Register(b))
  <2>1. Neutral' /\ (~dr_full' \/ (\E b \in Plain : Register(b))')
    BY <1>6 DEF Neutral, Register
  <2>2. QED
    BY <2>1 DEF InStep
<1>7. QED
  BY <1>3, <1>5, <1>6

LEMMA OutStep ==
  ASSUME TypeOK, WriteSafe, InStep, PutcOut
  PROVE  InStep'
<1>1. /\ ~dr_full /\ todo # << >> /\ todo' = Tail(todo)
      /\ UNCHANGED <<sub, acc>> /\ dr_full' /\ main_to_sub_data' = Head(todo).byte
  BY DEF TypeOK, WriteSafe, PutcOut, MainIoWrite, subVars
<1>2. CASE WantsG /\ Head(todo) = GCall /\ Tail(todo) = <<TCall>>
  <2>1. WantsG' /\ Register(G)' /\ todo' = <<TCall>>
    BY <1>1, <1>2 DEF WantsG, Register, GCall, Call
  <2>2. QED
    BY <2>1 DEF InStep, TCall
<1>3. CASE WantsT /\ Head(todo) = TCall /\ Tail(todo) = << >>
  <2>1. WantsT' /\ Register(T)' /\ todo' = << >>
    BY <1>1, <1>3 DEF WantsT, Register, TCall, Call
  <2>2. Fresh'
    BY <2>1, EmptyIsSeq DEF Fresh
  <2>3. QED
    BY <2>1, <2>2 DEF InStep
<1>4. CASE Neutral /\ Head(todo) \in TextCalls /\ Tail(todo) \in Seq(TextCalls)
  <2>1. PICK b \in Plain : Head(todo) = Call(b, sub_putc, <<b>>)
    BY <1>4 DEF TextCalls
  <2>2. Neutral' /\ Register(b)' /\ Fresh'
    BY <1>1, <1>4, <2>1 DEF Neutral, Register, Call, Fresh
  <2>3. QED
    BY <2>1, <2>2 DEF InStep, Register
<1>5. CASE Neutral /\ Head(todo) = EscCall /\ Tail(todo) = <<GCall, TCall>>
  <2>1. Neutral' /\ Register(ESC)' /\ todo' = <<GCall, TCall>>
    BY <1>1, <1>5 DEF Neutral, Register, EscCall, Call
  <2>2. QED
    BY <2>1 DEF InStep
<1>6. QED
  BY <1>1, <1>2, <1>3, <1>4, <1>5, NextCall

LEMMA SubSteps ==
  ASSUME TypeOK, InStep, SubStep
  PROVE  InStep'
<1>0. todo' = todo /\ (Fresh => Fresh')
  BY DEF SubStep, SubStart, SubReady, idle_loop, SubTake, handle_esc, SubRead,
         handle_char, SubRelease, mainVars, Fresh
<1> DEFINE Free == ~dr_full /\ Fresh
           Full == dr_full /\ main_to_sub_data \in Plain /\ Fresh
           Began == dr_full /\ main_to_sub_data = ESC /\ todo = <<GCall, TCall>>
<1>1. ASSUME Neutral PROVE Free \/ Full \/ Began
  BY <1>1, OneOfThree DEF InStep, Register
<1>2. ASSUME Neutral, Neutral', UNCHANGED <<dr_full, main_to_sub_data>>
      PROVE  InStep'
  BY <1>0, <1>1, <1>2 DEF InStep, Register
<1>3. CASE SubStart \/ SubReady \/ SubRelease
  BY <1>2, <1>3 DEF SubStart, SubReady, SubRelease, SubIoWrite, Neutral
<1>4. CASE handle_char
  BY <1>2, <1>4, OneOfThree DEF handle_char, InStep, WantsG, WantsT, Neutral, bridge
<1>5. CASE idle_loop
  <2>1. sub = "idle" /\ dr_full /\ dr_full' = FALSE /\ Neutral
    BY <1>5 DEF idle_loop, SubRead, SubIoRead, Neutral
  <2>2. main_to_sub_data # NUL
    BY <1>1, <2>1 DEF Plain
  <2>3. sub' = "got" /\ acc' = main_to_sub_data
    BY <1>5, <2>1, <2>2 DEF idle_loop, SubRead, SubIoReadValue
  <2>4. CASE Full
    <3>1. Neutral' /\ Fresh' /\ ~dr_full'
      BY <1>0, <2>1, <2>3, <2>4 DEF Neutral
    <3>2. QED
      BY <3>1 DEF InStep
  <2>5. CASE Began
    <3>1. WantsG' /\ todo' = <<GCall, TCall>> /\ ~dr_full'
      BY <1>0, <2>1, <2>3, <2>5 DEF WantsG
    <3>2. QED
      BY <3>1 DEF InStep, GCall, TCall
  <2>6. QED
    BY <1>1, <2>1, <2>4, <2>5
<1>6. CASE SubTake
  <2>1. /\ sub = "got" /\ sub' = (IF acc = ESC THEN "esc" ELSE "work")
        /\ UNCHANGED <<acc, dr_full, main_to_sub_data>>
    BY <1>6 DEF SubTake, SubIoWrite
  <2>2. CASE acc = ESC
    <3>1. WantsG /\ WantsG'
      BY <2>1, <2>2 DEF WantsG
    <3>2. \/ ~dr_full' /\ todo' = <<GCall, TCall>>
          \/ dr_full' /\ main_to_sub_data' = G /\ todo' = <<TCall>>
      BY <1>0, <2>1, <3>1, OneOfThree DEF InStep, Register
    <3>3. QED
      BY <3>1, <3>2 DEF InStep, Register, GCall, TCall
  <2>3. CASE acc # ESC
    <3>1. Neutral
      BY <2>1, <2>3 DEF InStep, WantsG, WantsT
    <3>2. Neutral'
      BY <2>1, <2>3, <3>1 DEF Neutral
    <3>3. QED
      BY <1>2, <2>1, <3>1, <3>2
  <2>4. QED
    BY <2>2, <2>3
<1>7. CASE SubRead("esc", "second")
  <2>1. sub = "esc" /\ dr_full /\ dr_full' = FALSE /\ WantsG
    BY <1>7 DEF SubRead, SubIoRead, WantsG
  <2>2. main_to_sub_data = G /\ todo = <<TCall>>
    BY <2>1, OneOfThree DEF InStep, Register
  <2>3. sub' = "second" /\ acc' = G
    BY <1>7, <2>1, <2>2 DEF SubRead, SubIoReadValue
  <2>4. WantsT' /\ ~dr_full' /\ todo' = <<TCall>>
    BY <1>0, <2>1, <2>2, <2>3 DEF WantsT
  <2>5. QED
    BY <2>4 DEF InStep, TCall
<1>8. CASE sub = "second" /\ sub' = (IF acc = G THEN "escG" ELSE "done")
           /\ UNCHANGED <<bridge, mainVars, acc, drawn>>
  <2>1. WantsT
    BY <1>8 DEF InStep, WantsG, Neutral, WantsT
  <2>2. WantsT' /\ UNCHANGED <<dr_full, main_to_sub_data>>
    BY <1>8, <2>1 DEF WantsT, bridge
  <2>3. \/ ~dr_full' /\ todo' = <<TCall>>
        \/ dr_full' /\ main_to_sub_data' = T /\ Fresh'
    BY <1>0, <2>1, <2>2, OneOfThree DEF InStep, Register
  <2>4. QED
    BY <2>2, <2>3 DEF InStep, Register, TCall
<1>9. CASE SubRead("escG", "third")
  <2>1. sub = "escG" /\ dr_full /\ dr_full' = FALSE /\ WantsT
    BY <1>9 DEF SubRead, SubIoRead, WantsT
  <2>2. main_to_sub_data = T /\ Fresh
    BY <2>1, OneOfThree DEF InStep, Register
  <2>3. sub' = "third" /\ acc' = T
    BY <1>9, <2>1, <2>2 DEF SubRead, SubIoReadValue
  <2>4. Neutral' /\ ~dr_full' /\ Fresh'
    BY <1>0, <2>1, <2>2, <2>3 DEF Neutral
  <2>5. QED
    BY <2>4 DEF InStep
<1>10. CASE sub = "third" /\ sub' = (IF acc = T THEN "pattern" ELSE "done")
            /\ UNCHANGED <<bridge, mainVars, acc, drawn>>
  <2>1. Neutral
    BY <1>10 DEF InStep, WantsG, WantsT
  <2>2. Neutral'
    BY <1>10 DEF Neutral
  <2>3. QED
    BY <1>2, <1>10, <2>1, <2>2 DEF bridge
<1>11. QED
  BY <1>3, <1>4, <1>5, <1>6, <1>7, <1>8, <1>9, <1>10 DEF SubStep, handle_esc

LEMMA InStepStep == TypeOK /\ WriteSafe /\ InStep /\ [Next]_vars => InStep'
<1> SUFFICES ASSUME TypeOK, WriteSafe, InStep, [Next]_vars PROVE InStep'
  OBVIOUS
<1>1. CASE cmd_sub
  <2>1. todo' \in Seq(TextCalls)
    BY <1>1, TextCallsOfText DEF cmd_sub
  <2>2. Fresh'
    BY <2>1 DEF Fresh
  <2>3. QED
    BY <1>1, <2>2, AtPrompt DEF cmd_sub, bridge, subVars
<1>2. CASE cmd_gvram
  <2>1. todo' = <<EscCall, GCall, TCall>>
    BY <1>2 DEF cmd_gvram, EscCall, GCall, TCall
  <2>2. Fresh'
    BY <2>1 DEF Fresh, EscCall, GCall, TCall
  <2>3. QED
    BY <1>2, <2>2, AtPrompt DEF cmd_gvram, bridge, subVars
<1>3. ASSUME UNCHANGED <<main_to_sub_data, dr_full, todo, sub, acc>> PROVE InStep'
  <2>1. /\ WantsG' = WantsG /\ WantsT' = WantsT /\ Neutral' = Neutral
        /\ Fresh' = Fresh
    BY <1>3 DEF WantsG, WantsT, Neutral, Fresh
  <2>2. QED
    BY <1>3, <2>1 DEF InStep, Register, GCall, TCall
<1>4. CASE PutcWait
  BY <1>3, <1>4 DEF PutcWait, bridge, subVars
<1>5. CASE PutcOut
  BY <1>5, OutStep
<1>6. CASE SubStep
  BY <1>6, SubSteps
<1>7. CASE Reset
  <2>1. Neutral' /\ ~dr_full' /\ todo' = << >>
    BY <1>7 DEF Reset, BridgeReset, Neutral
  <2>2. Fresh'
    BY <2>1, EmptyIsSeq DEF Fresh
  <2>3. QED
    BY <2>1, <2>2 DEF InStep
<1>8. CASE UNCHANGED vars
  BY <1>3, <1>8 DEF vars
<1>9. QED
  BY <1>1, <1>2, <1>4, <1>5, <1>6, <1>7, <1>8 DEF Next, MainStep

(* Both output routines wait for DR_FULL, and only they raise it. *)
LEMMA WriteSafeStep == TypeOK /\ WriteSafe /\ [Next]_vars => WriteSafe'
<1> SUFFICES ASSUME TypeOK, WriteSafe, [Next]_vars PROVE WriteSafe'
  OBVIOUS
<1>1. CASE PutcWait
  <2>1. main = "poll" /\ todo # << >> /\ todo \in Seq(Calls)
    BY <1>1 DEF PutcWait, TypeOK, Calls
  <2>2. "DR_FULL" \in Head(todo).wait
    <3>1. Head(todo) \in Calls
      BY <2>1, HeadAndTail
    <3>2. Head(todo).wait \in {sub_putc, sub_putc_data}
      BY <3>1 DEF Calls
    <3>3. QED
      BY <3>2 DEF sub_putc, sub_putc_data
  <2>3. ~dr_full
    BY <1>1, <2>2 DEF PutcWait, MainIoRead
  <2>4. QED
    BY <1>1, <2>3 DEF PutcWait, WriteSafe, bridge
<1>2. CASE cmd_sub \/ cmd_gvram \/ PutcOut \/ Reset
  BY <1>2 DEF cmd_sub, cmd_gvram, PutcOut, Reset, WriteSafe
<1>3. CASE SubStep
  BY <1>3 DEF SubStep, SubStart, SubReady, idle_loop, SubTake, handle_esc,
     SubRead, SubIoRead, SubIoWrite, handle_char, SubRelease, WriteSafe,
     mainVars, bridge
<1>4. CASE UNCHANGED vars
  BY <1>4 DEF vars, WriteSafe
<1>5. QED
  BY <1>1, <1>2, <1>3, <1>4 DEF Next, MainStep

-----------------------------------------------------------------------------
(* The order of the effects. *)

LEMMA WhatWaits ==
  ASSUME InStep
  PROVE  /\ ~dr_full \/ WantsG => Waiting = << >>
         /\ WantsT /\ dr_full => Waiting = <<Pattern>> /\ main_to_sub_data = T
         /\ Neutral /\ dr_full /\ main_to_sub_data = ESC => Waiting = << >>
         /\ Neutral /\ dr_full /\ main_to_sub_data # ESC =>
              Waiting = <<main_to_sub_data>> /\ main_to_sub_data \in Plain
<1>1. ~dr_full \/ WantsG => Waiting = << >>
  BY OneOfThree DEF Waiting
<1>2. WantsT /\ dr_full => Waiting = <<Pattern>> /\ main_to_sub_data = T
  BY OneOfThree DEF Waiting, InStep, Register
<1>3. Neutral /\ dr_full =>
        Waiting = IF main_to_sub_data = ESC THEN << >> ELSE <<main_to_sub_data>>
  BY OneOfThree DEF Waiting
<1>4. Neutral /\ dr_full => main_to_sub_data = ESC \/ main_to_sub_data \in Plain
  BY OneOfThree DEF InStep, Register
<1>5. QED
  BY <1>1, <1>2, <1>3, <1>4

LEMMA InFlightTypes ==
  ASSUME TypeOK, InStep
  PROVE  Held \in Seq(Effect) /\ Waiting \in Seq(Effect)
<1>1. << >> \in Seq(Effect) /\ <<Pattern>> \in Seq(Effect)
      /\ \A b \in Plain : <<b>> \in Seq(Effect)
  BY EmptyIsSeq, SingleIsSeq DEF Effect, Plain
<1>2. sub \in {"got", "work"} /\ acc # ESC => acc \in Plain
  BY DEF InStep, WantsG, WantsT, Neutral
<1>3. Held \in Seq(Effect)
  BY <1>1, <1>2 DEF Held
<1>4. Waiting \in Seq(Effect)
  BY <1>1, WhatWaits DEF InStep
<1>5. QED
  BY <1>3, <1>4

(* What the byte of an output call will draw is what the call asks for. *)
LEMMA OutWaits ==
  ASSUME TypeOK, WriteSafe, InStep, PutcOut
  PROVE  Waiting = << >> /\ Waiting' = Head(todo).asks /\ Held' = Held
<1>1. /\ ~dr_full /\ todo # << >>
      /\ UNCHANGED <<sub, acc>> /\ dr_full' /\ main_to_sub_data' = Head(todo).byte
  BY DEF TypeOK, WriteSafe, PutcOut, MainIoWrite, subVars
<1>2. Waiting = << >> /\ InStep'
  BY <1>1, WhatWaits, OutStep
<1>3. Held' = Held
  BY <1>1 DEF Held
<1>4. (WantsG' <=> WantsG) /\ (WantsT' <=> WantsT)
  BY <1>1 DEF WantsG, WantsT
<1>5. CASE WantsG /\ Head(todo) = GCall
  <2>1. Waiting' = << >>
    BY <1>4, <1>5, OneOfThree DEF Waiting
  <2>2. QED
    BY <1>2, <1>3, <1>5, <2>1 DEF GCall, Call
<1>6. CASE WantsT /\ Head(todo) = TCall
  <2>1. Waiting' = <<Pattern>>
    BY <1>1, <1>4, <1>6, OneOfThree DEF Waiting
  <2>2. QED
    BY <1>2, <1>3, <1>6, <2>1 DEF TCall, Call
<1>7. CASE Neutral /\ Head(todo) \in TextCalls
  <2>1. PICK b \in Plain : Head(todo) = Call(b, sub_putc, <<b>>)
    BY <1>7 DEF TextCalls
  <2>2. main_to_sub_data' = b /\ b # ESC /\ Head(todo).asks = <<b>>
    BY <1>1, <2>1 DEF Call, Plain
  <2>3. Waiting' = <<b>>
    BY <1>1, <1>4, <1>7, <2>2, OneOfThree DEF Waiting
  <2>4. QED
    BY <1>2, <1>3, <2>2, <2>3
<1>8. CASE Neutral /\ Head(todo) = EscCall
  <2>1. main_to_sub_data' = ESC /\ Head(todo).asks = << >>
    BY <1>1, <1>8 DEF EscCall, Call
  <2>2. Waiting' = << >>
    BY <1>1, <1>4, <1>8, <2>1, OneOfThree DEF Waiting
  <2>3. QED
    BY <1>2, <1>3, <2>1, <2>2
<1>9. QED
  BY <1>1, <1>5, <1>6, <1>7, <1>8, NextCall

LEMMA OrderStep ==
  TypeOK /\ WriteSafe /\ InStep /\ InOrder /\ [Next]_vars => InOrder'
<1> SUFFICES ASSUME TypeOK, WriteSafe, InStep, InOrder, [Next]_vars PROVE InOrder'
  OBVIOUS
<1>0. /\ asked \in Seq(Effect) /\ drawn \in Seq(Effect)
      /\ Held \in Seq(Effect) /\ Waiting \in Seq(Effect)
  BY InFlightTypes DEF TypeOK
<1>i. InStep'
  BY InStepStep
<1>1. ASSUME Held' = Held, Waiting' = Waiting, UNCHANGED <<asked, drawn>>
      PROVE  InOrder'
  BY <1>1 DEF InOrder
<1>2. ASSUME UNCHANGED <<main_to_sub_data, dr_full, sub, acc>>
      PROVE  Held' = Held /\ Waiting' = Waiting
  BY <1>2 DEF Held, Waiting, WantsG, WantsT
<1>3. CASE cmd_sub \/ cmd_gvram \/ PutcWait
  BY <1>1, <1>2, <1>3 DEF cmd_sub, cmd_gvram, PutcWait, bridge, subVars
<1>4. CASE PutcOut
  <2>1. Waiting = << >> /\ Waiting' = Head(todo).asks /\ Held' = Held
    BY <1>4, OutWaits
  <2>2. asked' = asked \o Waiting' /\ drawn' = drawn
    BY <1>4, <2>1 DEF PutcOut, subVars
  <2>3. todo # << >> /\ todo \in Seq(Calls)
    BY <1>4 DEF PutcOut, TypeOK, Calls
  <2>4. Waiting' \in Seq(Effect)
    <3>1. Head(todo) \in Calls
      BY <2>3, HeadAndTail
    <3>2. QED
      BY <2>1, <3>1 DEF Calls
  <2>5. asked = drawn \o Held
    BY <1>0, <2>1, ConcatEmpty DEF InOrder
  <2>6. (drawn \o Held) \o Waiting' = drawn \o (Held \o Waiting')
    BY <1>0, <2>4, ConcatAssociative, SMTT(30)
  <2>7. QED
    BY <2>1, <2>2, <2>5, <2>6 DEF InOrder
<1>5. CASE SubStart \/ SubReady \/ SubRelease
  <2>1. Held' = Held
    BY <1>5 DEF SubStart, SubReady, SubRelease, Held
  <2>2. (WantsG' <=> WantsG) /\ (WantsT' <=> WantsT)
    BY <1>5 DEF SubStart, SubReady, SubRelease, WantsG, WantsT
  <2>3. UNCHANGED <<dr_full, main_to_sub_data, asked, drawn>>
    BY <1>5 DEF SubStart, SubReady, SubRelease, SubIoWrite, mainVars
  <2>4. QED
    BY <1>1, <2>1, <2>2, <2>3 DEF Waiting
<1>6. ASSUME NEW from \in {"idle", "esc", "escG"},
             NEW to \in {"got", "second", "third"}, SubRead(from, to),
             Held = << >>, Held' = Waiting
      PROVE  InOrder'
  <2>1. Waiting' = << >> /\ UNCHANGED <<asked, drawn>>
    BY <1>6 DEF SubRead, SubIoRead, mainVars, Waiting
  <2>2. QED
    BY <1>0, <1>6, <2>1, ConcatEmpty DEF InOrder
<1>7. CASE idle_loop
  <2>1. SubRead("idle", "got") /\ sub = "idle" /\ dr_full
    BY <1>7 DEF idle_loop, SubRead
  <2>2. Neutral /\ Held = << >>
    BY <2>1 DEF Neutral, Held
  <2>3. main_to_sub_data # NUL
    BY <2>1, <2>2, OneOfThree DEF InStep, Register, Plain
  <2>4. sub' = "got" /\ acc' = main_to_sub_data
    BY <2>1, <2>3 DEF SubRead, SubIoReadValue
  <2>5. Held' = Waiting
    BY <2>1, <2>2, <2>4, WhatWaits DEF Held
  <2>6. QED
    BY <1>6, <2>1, <2>2, <2>5
<1>8. CASE SubTake
  <2>1. /\ sub = "got" /\ sub' = (IF acc = ESC THEN "esc" ELSE "work")
        /\ UNCHANGED <<acc, dr_full, main_to_sub_data, asked, drawn>>
    BY <1>8 DEF SubTake, SubIoWrite, mainVars
  <2>2. Held' = Held
    BY <2>1 DEF Held
  <2>3. (WantsG' <=> WantsG) /\ (WantsT' <=> WantsT)
    BY <2>1 DEF WantsG, WantsT
  <2>4. QED
    BY <1>1, <2>1, <2>2, <2>3 DEF Waiting
<1>9. CASE SubRead("esc", "second")
  <2>1. sub = "esc" /\ dr_full /\ WantsG /\ Held = << >>
    BY <1>9 DEF SubRead, WantsG, Held
  <2>2. main_to_sub_data = G
    BY <2>1, OneOfThree DEF InStep, Register
  <2>3. sub' = "second"
    BY <1>9, <2>1, <2>2 DEF SubRead, SubIoReadValue
  <2>4. Held' = Waiting
    BY <2>1, <2>3, WhatWaits DEF Held
  <2>5. QED
    BY <1>6, <1>9, <2>1, <2>4
<1>10. CASE sub = "second" /\ sub' = (IF acc = G THEN "escG" ELSE "done")
           /\ UNCHANGED <<bridge, mainVars, acc, drawn>>
  <2>1. WantsT
    BY <1>10 DEF InStep, WantsG, Neutral, WantsT
  <2>2. WantsT' /\ ~WantsG /\ ~WantsG' /\ Held = << >> /\ Held' = << >>
    BY <1>10, <2>1 DEF WantsT, WantsG, Held
  <2>3. Waiting' = Waiting
    BY <1>10, <2>1, <2>2 DEF Waiting, bridge
  <2>4. QED
    BY <1>1, <1>10, <2>2, <2>3 DEF mainVars
<1>11. CASE SubRead("escG", "third")
  <2>1. sub = "escG" /\ dr_full /\ WantsT /\ Held = << >>
    BY <1>11 DEF SubRead, WantsT, Held
  <2>2. main_to_sub_data = T /\ Waiting = <<Pattern>>
    BY <2>1, WhatWaits
  <2>3. sub' = "third"
    BY <1>11, <2>1, <2>2 DEF SubRead, SubIoReadValue
  <2>4. Held' = Waiting
    BY <2>2, <2>3 DEF Held
  <2>5. QED
    BY <1>6, <1>11, <2>1, <2>4
<1>12. CASE sub = "third" /\ sub' = (IF acc = T THEN "pattern" ELSE "done")
            /\ UNCHANGED <<bridge, mainVars, acc, drawn>>
  <2>1. sub' = "pattern"
    BY <1>12 DEF InStep, WantsG, WantsT, Neutral
  <2>2. Held' = Held
    BY <1>12, <2>1 DEF Held
  <2>3. (WantsG' <=> WantsG) /\ (WantsT' <=> WantsT)
    BY <1>12, <2>1 DEF WantsG, WantsT
  <2>4. QED
    BY <1>1, <1>12, <2>2, <2>3 DEF Waiting, bridge, mainVars
<1>13. CASE handle_char
  <2> DEFINE e == IF sub = "pattern" THEN Pattern ELSE acc
  <2>1. /\ sub \in {"work", "pattern"} /\ sub' = "done" /\ drawn' = Append(drawn, e)
        /\ UNCHANGED <<acc, dr_full, main_to_sub_data, asked>>
    BY <1>13 DEF handle_char, bridge, mainVars
  <2>2. e \in Effect /\ Held = <<e>>
    BY <2>1 DEF InStep, WantsG, WantsT, Neutral, Held, Effect, Plain
  <2>3. (WantsG' <=> WantsG) /\ (WantsT' <=> WantsT)
    BY <2>1 DEF WantsG, WantsT
  <2>4. Held' = << >> /\ Waiting' = Waiting
    BY <2>1, <2>3 DEF Held, Waiting
  <2> HIDE DEF e
  <2>5. drawn \o (<<e>> \o Waiting) = Append(drawn, e) \o Waiting
    BY <1>0, <2>2
  <2>6. << >> \o Waiting = Waiting
    BY <1>0, ConcatEmpty
  <2>7. QED
    BY <2>1, <2>2, <2>4, <2>5, <2>6 DEF InOrder
<1>14. CASE Reset
  <2>1. /\ sub' = "reset" /\ ~dr_full' /\ asked' = << >> /\ drawn' = << >>
    BY <1>14 DEF Reset, BridgeReset
  <2>2. Held' = << >> /\ Waiting' = << >>
    BY <2>1 DEF Held, Waiting
  <2>3. << >> \o (<< >> \o << >>) = << >>
    BY ConcatEmpty, EmptyIsSeq
  <2>4. QED
    BY <2>1, <2>2, <2>3 DEF InOrder
<1>15. CASE UNCHANGED vars
  BY <1>1, <1>2, <1>15 DEF vars
<1>16. QED
  BY <1>3, <1>4, <1>5, <1>7, <1>8, <1>9, <1>10, <1>11, <1>12, <1>13, <1>14,
     <1>15 DEF Next, MainStep, SubStep, handle_esc

-----------------------------------------------------------------------------

LEMMA Initially == Init => IInv
<1> SUFFICES ASSUME Init PROVE IInv
  OBVIOUS
<1>1. TypeOK
  BY EmptyIsSeq DEF Init, BridgeInit, TypeOK, BridgeTypeOK
<1>2. Neutral /\ ~dr_full /\ Fresh /\ main # "out"
  BY EmptyIsSeq DEF Init, BridgeInit, Neutral, Fresh
<1>3. InStep /\ WriteSafe
  BY <1>2 DEF InStep, WriteSafe
<1>4. Held = << >> /\ Waiting = << >>
  BY DEF Init, BridgeInit, Held, Waiting
<1>5. << >> \o (<< >> \o << >>) = << >>
  BY ConcatEmpty, EmptyIsSeq
<1>6. QED
  BY <1>1, <1>3, <1>4, <1>5 DEF IInv, InOrder, Init

LEMMA Inductive == IInv /\ [Next]_vars => IInv'
BY TypeStep, WriteSafeStep, InStepStep, OrderStep DEF IInv

(* Every variable keeps its type, for every text and every set of bytes. *)
THEOREM TypeCorrect == Spec => []TypeOK
<1>1. IInv => TypeOK
  BY DEF IInv
<1>2. QED
  BY <1>1, Initially, Inductive, PTL DEF Spec

(* handle_esc never waits, with SUB_BUSY up, for a byte nobody will send:  *)
(* it is in the register or cmd_gvram has it still to write.               *)
THEOREM SequenceStaysBacked == Spec => []SequenceIsBacked
<1>1. IInv => SequenceIsBacked
  <2>1. ASSUME NEW x, NEW y PROVE << >> # <<x>> /\ << >> # <<x, y>>
    OBVIOUS
  <2>2. QED
    BY <2>1 DEF IInv, InStep, WantsG, WantsT, Neutral, Register, SequenceIsBacked
<1>2. QED
  BY <1>1, Initially, Inductive, PTL DEF Spec

-----------------------------------------------------------------------------
(* The refinement of the ordered channel, safety part. *)

LEMMA ConcatLength ==
  ASSUME NEW S, NEW s \in Seq(S), NEW t \in Seq(S), NEW u \in Seq(S)
  PROVE  Len(s \o (t \o u)) = Len(s) + Len(t) + Len(u)
OBVIOUS

LEMMA ChannelStep == IInv /\ [Next]_vars => [Channel!Next]_(Channel!chan)
<1> SUFFICES ASSUME IInv, [Next]_vars
             PROVE  Channel!Next \/ UNCHANGED <<asked, drawn>>
  BY DEF Channel!chan
<1>0. TypeOK /\ WriteSafe /\ InStep /\ InOrder
      /\ asked \in Seq(Effect) /\ drawn \in Seq(Effect)
      /\ Held \in Seq(Effect) /\ Waiting \in Seq(Effect)
  BY InFlightTypes DEF IInv, TypeOK
<1>1. CASE cmd_sub \/ cmd_gvram \/ PutcWait
  BY <1>1 DEF cmd_sub, cmd_gvram, PutcWait, subVars
<1>2. CASE PutcOut
  <2>1. Waiting = << >> /\ asked' = asked \o Head(todo).asks /\ drawn' = drawn
    BY <1>0, <1>2, OutWaits DEF PutcOut, subVars
  <2>2. Len(Held) <= 1 /\ Len(Waiting) = 0
    BY <2>1 DEF Held
  <2>3. Len(asked) - Len(drawn) < 2
    <3>1. Len(asked) = Len(drawn) + Len(Held) + Len(Waiting)
      BY <1>0, ConcatLength DEF InOrder
    <3>2. QED
      BY <1>0, <2>2, <3>1
  <2>4. Head(todo).asks = << >> \/ \E e \in Effect : Head(todo).asks = <<e>>
    <3>1. \/ Head(todo) \in {EscCall, GCall, TCall}
          \/ Head(todo) \in TextCalls
      BY <1>0, <1>2, NextCall DEF PutcOut, WriteSafe, TypeOK
    <3>2. CASE Head(todo) \in {EscCall, GCall, TCall}
      BY <3>2 DEF EscCall, GCall, TCall, Call, Effect
    <3>3. CASE Head(todo) \in TextCalls
      <4>1. PICK b \in Plain : Head(todo) = Call(b, sub_putc, <<b>>)
        BY <3>3 DEF TextCalls
      <4>2. b \in Effect /\ Head(todo).asks = <<b>>
        BY <4>1 DEF Call, Effect, Plain
      <4>3. QED
        BY <4>2
    <3>4. QED
      BY <3>1, <3>2, <3>3
  <2>5. CASE Head(todo).asks = << >>
    BY <1>0, <2>1, <2>5, ConcatEmpty
  <2>6. ASSUME NEW e \in Effect, Head(todo).asks = <<e>>
        PROVE  Channel!Next
    <3>1. asked \o <<e>> = Append(asked, e)
      BY <1>0, <2>6
    <3>2. asked' = Append(asked, e)
      BY <2>1, <2>6, <3>1
    <3>3. Channel!Put(e)
      BY <2>1, <2>3, <3>2 DEF Channel!Put
    <3>4. QED
      BY <3>3 DEF Channel!Next
  <2>7. QED
    BY <2>4, <2>5, <2>6
<1>3. CASE SubStart \/ SubReady \/ idle_loop \/ SubTake \/ handle_esc \/ SubRelease
  BY <1>3 DEF SubStart, SubReady, idle_loop, SubTake, handle_esc, SubRead,
     SubRelease, mainVars
<1>4. CASE handle_char
  <2> DEFINE e == IF sub = "pattern" THEN Pattern ELSE acc
  <2>1. /\ sub \in {"work", "pattern"} /\ drawn' = Append(drawn, e)
        /\ asked' = asked
    BY <1>4 DEF handle_char, mainVars
  <2>2. e \in Effect /\ Held = <<e>>
    BY <1>0, <2>1 DEF InStep, WantsG, WantsT, Neutral, Held, Effect, Plain
  <2> HIDE DEF e
  <2>3. asked = drawn \o (<<e>> \o Waiting)
    BY <1>0, <2>2 DEF InOrder
  <2>4. Len(drawn) < Len(asked) /\ asked[Len(drawn) + 1] = e
    BY <1>0, <2>2, <2>3
  <2>5. Channel!Get
    BY <2>1, <2>4 DEF Channel!Get
  <2>6. QED
    BY <2>5 DEF Channel!Next
<1>5. CASE Reset
  BY <1>5 DEF Reset, Channel!Next, Channel!Reset
<1>6. CASE UNCHANGED vars
  BY <1>6 DEF vars
<1>7. QED
  BY <1>1, <1>2, <1>3, <1>4, <1>5, <1>6 DEF Next, MainStep, SubStep

(* sub_putc, sub_putc_data, the bridge and the diagnostic sub ROM together *)
(* implement an ordered channel of effects with at most two under way: a   *)
(* text character is never taken for a part of a sequence.                 *)
THEOREM RefinesChannel == Spec => Channel!Safe
<1>1. Init => Channel!Init
  BY DEF Init, Channel!Init
<1>2. QED
  BY <1>1, Initially, Inductive, ChannelStep, PTL DEF Spec, Channel!Safe

=============================================================================
