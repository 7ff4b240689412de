------------------------------ MODULE Keyboard ------------------------------
(***************************************************************************)
(* The keyboard device (keyboard.cpp): host key codes become bytes in a    *)
(* ring that gives up its oldest byte when it is full.  The three code     *)
(* tables are parameters: the device only tells a byte from "no byte",     *)
(* which the tables write as 0.                                            *)
(***************************************************************************)
EXTENDS Naturals

CONSTANTS
  FIFO_SIZE,                  \* 16
  Code,                       \* host key codes
  Data,                       \* bytes
  Fixed(_),                   \* codes with one byte: LINE FEED, CAN, ... DEL
  kana_from_vk(_, _),         \* code, shift
  ascii_from_vk(_, _, _),     \* code, shift, caps
  ctrl_from_vk(_)             \* code

CAPS_CODE == 20
EISU_CODES == {240, 29}
KANA_CODES == {241, 21}
SPECIAL_CODES == 248 .. 252   \* S1 to S5
CTRL_AT == 192                \* the code whose control byte is 0

ASSUME FifoSizeIsPos == FIFO_SIZE \in Nat \ {0}
ASSUME DataHasZero == 0 \in Data
ASSUME TablesAreBytes ==
  \A c \in Code, s \in BOOLEAN, k \in BOOLEAN :
    {Fixed(c), kana_from_vk(c, s), ascii_from_vk(c, s, k), ctrl_from_vk(c)}
      \subseteq Data

VARIABLES fifo, fifo_rpos, fifo_wpos, fifo_count, kana, caps

ring == <<fifo, fifo_rpos, fifo_wpos, fifo_count>>
keyboard == <<fifo, fifo_rpos, fifo_wpos, fifo_count, kana, caps>>

Index == 0 .. (FIFO_SIZE - 1)

KeyboardTypeOK ==
  /\ fifo \in [Index -> Data]
  /\ fifo_rpos \in Index
  /\ fifo_wpos \in Index
  /\ fifo_count \in 0 .. FIFO_SIZE
  /\ kana \in BOOLEAN /\ caps \in BOOLEAN

KeyboardInit ==
  /\ fifo = [i \in Index |-> 0]
  /\ fifo_rpos = 0 /\ fifo_wpos = 0 /\ fifo_count = 0
  /\ kana = FALSE /\ caps = FALSE

KeyboardReset ==
  /\ fifo' = [i \in Index |-> 0]
  /\ fifo_rpos' = 0 /\ fifo_wpos' = 0 /\ fifo_count' = 0
  /\ kana' = FALSE /\ caps' = FALSE

has_data == fifo_count # 0

PushUncapped(data) ==
  /\ fifo' = [fifo EXCEPT ![fifo_wpos] = data]
  /\ fifo_wpos' = (fifo_wpos + 1) % FIFO_SIZE
  /\ fifo_count' = fifo_count + 1
  /\ UNCHANGED fifo_rpos

PushNoDrop(data) ==
  /\ fifo' = [fifo EXCEPT ![fifo_wpos] = data]
  /\ fifo_wpos' = (fifo_wpos + 1) % FIFO_SIZE
  /\ fifo_count' = IF fifo_count >= FIFO_SIZE THEN fifo_count
                                              ELSE fifo_count + 1
  /\ UNCHANGED fifo_rpos

(* A full ring first gives up its oldest byte. *)
push_fifo(data) ==
  /\ fifo' = [fifo EXCEPT ![fifo_wpos] = data]
  /\ fifo_wpos' = (fifo_wpos + 1) % FIFO_SIZE
  /\ IF fifo_count >= FIFO_SIZE
       THEN fifo_rpos' = (fifo_rpos + 1) % FIFO_SIZE /\ UNCHANGED fifo_count
       ELSE fifo_count' = fifo_count + 1 /\ UNCHANGED fifo_rpos

ReadSlot == fifo[fifo_rpos]

ReadForgetsCount ==
  /\ fifo_count # 0
  /\ fifo_rpos' = (fifo_rpos + 1) % FIFO_SIZE
  /\ UNCHANGED <<fifo, fifo_wpos, fifo_count>>

(* read_key with something to read: the byte is ReadSlot. *)
read_key ==
  /\ fifo_count # 0
  /\ fifo_rpos' = (fifo_rpos + 1) % FIFO_SIZE
  /\ fifo_count' = fifo_count - 1
  /\ UNCHANGED <<fifo, fifo_wpos>>

-----------------------------------------------------------------------------
(* key_down.  Modifier keys change a mode and auto-repeat of one is        *)
(* ignored; the other keys push a byte or nothing.                         *)

ModeCodes == {CAPS_CODE} \cup EISU_CODES \cup KANA_CODES

(* The byte of a key as the set that holds it: the fixed ones, then the    *)
(* control table, the kana table in kana mode, and the ASCII table.  A 0   *)
(* in a table means none, except for CTRL and @.                           *)
Bytes(code, shift, ctrl) ==
  LET fixed == Fixed(code)
      control == ctrl_from_vk(code)
      jis == kana_from_vk(code, shift)
      ascii == ascii_from_vk(code, shift, caps)
  IN  IF code \in SPECIAL_CODES THEN {}
      ELSE IF fixed # 0 THEN {fixed}
      ELSE IF ctrl /\ (control # 0 \/ code = CTRL_AT) THEN {control}
      ELSE IF kana /\ jis # 0 THEN {jis}
      ELSE {ascii} \ {0}

ModeKeyClears(code) ==
  /\ kana' = (code \in KANA_CODES \/ (code \notin EISU_CODES /\ kana))
  /\ caps' = IF code = CAPS_CODE THEN ~caps ELSE caps
  /\ fifo_count' = 0 /\ fifo_wpos' = fifo_rpos
  /\ UNCHANGED <<fifo, fifo_rpos>>

ModeKey(code) ==
  /\ kana' = (code \in KANA_CODES \/ (code \notin EISU_CODES /\ kana))
  /\ caps' = IF code = CAPS_CODE THEN ~caps ELSE caps
  /\ UNCHANGED ring

key_down(code, shift, ctrl, repeat) ==
  \/ code \in ModeCodes /\ ~repeat /\ ModeKey(code)
  \/ /\ code \notin ModeCodes
     /\ \E data \in Bytes(code, shift, ctrl) : push_fifo(data)
     /\ UNCHANGED <<kana, caps>>

=============================================================================
