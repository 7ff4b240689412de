------------------------- MODULE ConsoleInputProofs -------------------------
(***************************************************************************)
(* The keyboard ring, for every size and every set of code tables.         *)
(***************************************************************************)
EXTENDS ConsoleInput, SequenceTheorems, TLAPS

USE FifoSizeIsPos, DataHasZero

-----------------------------------------------------------------------------
(* Arithmetic modulo the size, over the range the indices use. *)

LEMMA ModSmall == ASSUME NEW a \in 0 .. (FIFO_SIZE - 1)
                  PROVE  a % FIFO_SIZE = a
OBVIOUS

LEMMA ModWrap == ASSUME NEW a \in FIFO_SIZE .. (2 * FIFO_SIZE - 1)
                 PROVE  a % FIFO_SIZE = a - FIFO_SIZE
OBVIOUS

LEMMA ModType == ASSUME NEW a \in Nat PROVE a % FIFO_SIZE \in Index
BY DEF Index

(* One step round the ring. *)
LEMMA StepRound ==
  ASSUME NEW r \in Index
  PROVE  /\ (r + 1) % FIFO_SIZE \in Index
         /\ (r + 1) % FIFO_SIZE = IF r + 1 = FIFO_SIZE THEN 0 ELSE r + 1
<1>1. CASE r + 1 = FIFO_SIZE
  BY <1>1, ModWrap, ModType DEF Index
<1>2. CASE r + 1 # FIFO_SIZE
  BY <1>2, ModSmall, ModType DEF Index
<1>3. QED BY <1>1, <1>2

(* From r, stepping first or counting one further is the same place. *)
LEMMA StepThenCount ==
  ASSUME NEW r \in Index, NEW k \in 0 .. FIFO_SIZE
  PROVE  (((r + 1) % FIFO_SIZE) + k) % FIFO_SIZE = (r + k + 1) % FIFO_SIZE
<1>1. CASE r + 1 = FIFO_SIZE
  <2>1. (((r + 1) % FIFO_SIZE) + k) = k
    BY <1>1, StepRound DEF Index
  <2>2. r + k + 1 = FIFO_SIZE + k
    BY <1>1 DEF Index
  <2>3. k % FIFO_SIZE = (FIFO_SIZE + k) % FIFO_SIZE
    OBVIOUS
  <2>4. QED BY <2>1, <2>2, <2>3
<1>2. CASE r + 1 # FIFO_SIZE
  <2>1. ((r + 1) % FIFO_SIZE) + k = r + k + 1
    BY <1>2, StepRound DEF Index
  <2>2. QED BY <2>1
<1>3. QED BY <1>1, <1>2

(* And the same in the other order. *)
LEMMA CountThenStep ==
  ASSUME NEW r \in Index, NEW k \in 0 .. FIFO_SIZE
  PROVE  (((r + k) % FIFO_SIZE) + 1) % FIFO_SIZE = (r + k + 1) % FIFO_SIZE
<1>1. CASE r + k < FIFO_SIZE
  <2>1. (r + k) % FIFO_SIZE = r + k
    BY <1>1, ModSmall DEF Index
  <2>2. QED BY <2>1
<1>2. CASE r + k >= FIFO_SIZE
  <2>1. (r + k) % FIFO_SIZE = r + k - FIFO_SIZE
    BY <1>2, ModWrap DEF Index
  <2>2. r + k - FIFO_SIZE + 1 \in Nat
    BY <1>2 DEF Index
  <2>3. (r + k - FIFO_SIZE + 1) % FIFO_SIZE = (r + k + 1) % FIFO_SIZE
    <3>1. CASE r + k + 1 < 2 * FIFO_SIZE
      BY <1>2, <3>1, ModSmall, ModWrap DEF Index
    <3>2. CASE r + k + 1 = 2 * FIFO_SIZE
      <4>1. r + k - FIFO_SIZE + 1 = FIFO_SIZE /\ FIFO_SIZE % FIFO_SIZE = 0
        BY <3>2, ModWrap DEF Index
      <4>2. (2 * FIFO_SIZE) % FIFO_SIZE = 0
        OBVIOUS
      <4>3. QED BY <3>2, <4>1, <4>2
    <3>3. QED BY <3>1, <3>2 DEF Index
  <2>4. QED BY <2>1, <2>3
<1>3. QED BY <1>1, <1>2 DEF Index

(* Fewer than FIFO_SIZE places from r are all different from the next. *)
LEMMA PlacesDiffer ==
  ASSUME NEW r \in Index, NEW k \in 0 .. (FIFO_SIZE - 1), NEW j \in 0 .. (k - 1)
  PROVE  (r + j) % FIFO_SIZE # (r + k) % FIFO_SIZE
<1>1. CASE r + k < FIFO_SIZE
  BY <1>1, ModSmall DEF Index
<1>2. CASE r + j >= FIFO_SIZE
  BY <1>2, ModWrap DEF Index
<1>3. CASE r + j < FIFO_SIZE /\ r + k >= FIFO_SIZE
  BY <1>3, ModSmall, ModWrap DEF Index
<1>4. QED BY <1>1, <1>2, <1>3 DEF Index

-----------------------------------------------------------------------------
(* The device operations.  Push and read keep the ring consistent and are  *)
(* the queue's Put and Take.                                               *)

RingInv == KeyboardTypeOK /\ RingConsistent

LEMMA PlaceInRing ==
  ASSUME NEW r \in Index, NEW n \in 0 .. FIFO_SIZE
  PROVE  \A i \in 1 .. n : (r + i - 1) % FIFO_SIZE \in Index
<1> SUFFICES ASSUME NEW i \in 1 .. n PROVE (r + i - 1) % FIFO_SIZE \in Index
  OBVIOUS
<1>1. r + i - 1 \in Nat
  BY DEF Index
<1>2. QED BY <1>1, ModType

LEMMA FunctionIsSeq ==
  ASSUME NEW n \in 0 .. FIFO_SIZE, NEW c \in [1 .. n -> Data]
  PROVE  c \in Seq(Data) /\ Len(c) = n
OBVIOUS

LEMMA ContentsType ==
  ASSUME RingInv
  PROVE  /\ Contents \in Seq(Data)
         /\ Len(Contents) = fifo_count
         /\ \A i \in 1 .. fifo_count :
              Contents[i] = fifo[(fifo_rpos + i - 1) % FIFO_SIZE]
<1>1. /\ fifo \in [Index -> Data] /\ fifo_rpos \in Index
      /\ fifo_count \in 0 .. FIFO_SIZE
  BY DEF RingInv, KeyboardTypeOK
<1>2. \A i \in 1 .. fifo_count : (fifo_rpos + i - 1) % FIFO_SIZE \in Index
  BY <1>1, PlaceInRing
<1>3. Contents \in [1 .. fifo_count -> Data]
  BY <1>1, <1>2 DEF Contents
<1>4. Contents \in Seq(Data) /\ Len(Contents) = fifo_count
  BY <1>1, <1>3, FunctionIsSeq
<1>5. QED BY <1>4 DEF Contents

LEMMA ContentsTypeNext ==
  ASSUME RingInv'
  PROVE  /\ Contents' \in Seq(Data)
         /\ Len(Contents') = fifo_count'
         /\ \A i \in 1 .. fifo_count' :
              Contents'[i] = fifo'[(fifo_rpos' + i - 1) % FIFO_SIZE]
<1>1. /\ fifo' \in [Index -> Data] /\ fifo_rpos' \in Index
      /\ fifo_count' \in 0 .. FIFO_SIZE
  BY DEF RingInv, KeyboardTypeOK
<1>2. \A i \in 1 .. fifo_count' : (fifo_rpos' + i - 1) % FIFO_SIZE \in Index
  BY <1>1, PlaceInRing
<1>3. Contents' \in [1 .. fifo_count' -> Data]
  BY <1>1, <1>2 DEF Contents
<1>4. Contents' \in Seq(Data) /\ Len(Contents') = fifo_count'
  BY <1>1, <1>3, FunctionIsSeq
<1>5. QED BY <1>4 DEF Contents

LEMMA PushStep ==
  ASSUME RingInv, NEW data \in Data, push_fifo(data), UNCHANGED <<kana, caps>>
  PROVE  RingInv' /\ fifo_count' # 0 /\ Queue!Put(data)
<1>0. /\ fifo \in [Index -> Data] /\ fifo_rpos \in Index /\ fifo_wpos \in Index
      /\ fifo_count \in 0 .. FIFO_SIZE
      /\ fifo_wpos = (fifo_rpos + fifo_count) % FIFO_SIZE
      /\ kana \in BOOLEAN /\ caps \in BOOLEAN
  BY DEF RingInv, KeyboardTypeOK, RingConsistent
<1>1. /\ fifo' = [fifo EXCEPT ![fifo_wpos] = data]
      /\ fifo_wpos' = (fifo_wpos + 1) % FIFO_SIZE
  BY DEF push_fifo
<1>2. fifo_wpos' = (fifo_rpos + fifo_count + 1) % FIFO_SIZE
  BY <1>0, <1>1, CountThenStep
<1>3. fifo' \in [Index -> Data] /\ fifo_wpos' \in Index
  BY <1>0, <1>1, StepRound
<1>4. fifo'[fifo_wpos] = data /\ \A k \in Index \ {fifo_wpos} : fifo'[k] = fifo[k]
  BY <1>0, <1>1
<1>5. CASE fifo_count < FIFO_SIZE
  <2>1. fifo_count' = fifo_count + 1 /\ fifo_rpos' = fifo_rpos
    BY <1>0, <1>5 DEF push_fifo
  <2>2. RingInv'
    BY <1>0, <1>2, <1>3, <1>5, <2>1 DEF RingInv, KeyboardTypeOK, RingConsistent
  <2>3. \A i \in 1 .. fifo_count :
          fifo'[(fifo_rpos + i - 1) % FIFO_SIZE] = fifo[(fifo_rpos + i - 1) % FIFO_SIZE]
    <3> SUFFICES ASSUME NEW i \in 1 .. fifo_count
                 PROVE  fifo'[(fifo_rpos + i - 1) % FIFO_SIZE]
                          = fifo[(fifo_rpos + i - 1) % FIFO_SIZE]
      OBVIOUS
    <3>1. (fifo_rpos + (i - 1)) % FIFO_SIZE # fifo_wpos
      BY <1>0, <1>5, PlacesDiffer
    <3>2. fifo_rpos + i - 1 = fifo_rpos + (i - 1) /\ fifo_rpos + (i - 1) \in Nat
      BY <1>0 DEF Index
    <3>3. QED BY <1>4, <3>1, <3>2, ModType
  <2>4. Contents' = Append(Contents, data)
    <3>1. /\ Contents' \in Seq(Data) /\ Len(Contents') = fifo_count + 1
          /\ \A i \in 1 .. (fifo_count + 1) :
               Contents'[i] = fifo'[(fifo_rpos + i - 1) % FIFO_SIZE]
      BY <2>1, <2>2, ContentsTypeNext
    <3>2. \A i \in 1 .. fifo_count : Contents'[i] = Contents[i]
      BY <1>0, <2>3, <3>1, ContentsType
    <3>3. Contents'[fifo_count + 1] = data
      <4>1. fifo_rpos + (fifo_count + 1) - 1 = fifo_rpos + fifo_count
        BY <1>0 DEF Index
      <4>2. QED BY <1>0, <1>4, <3>1, <4>1
    <3>4. Contents \in Seq(Data) /\ Len(Contents) = fifo_count
      BY ContentsType
    <3>5. QED BY <3>1, <3>2, <3>3, <3>4
  <2>5. QED
    BY <1>0, <1>5, <2>1, <2>2, <2>4, ContentsType DEF Queue!Put
<1>6. CASE fifo_count = FIFO_SIZE
  <2>1. fifo_count' = FIFO_SIZE /\ fifo_rpos' = (fifo_rpos + 1) % FIFO_SIZE
    BY <1>0, <1>6 DEF push_fifo
  <2>2. fifo_rpos' \in Index
    BY <1>0, <2>1, StepRound
  <2>3. fifo_wpos' = (fifo_rpos' + fifo_count') % FIFO_SIZE
    BY <1>0, <1>2, <1>6, <2>1, StepThenCount
  <2>4. RingInv'
    BY <1>0, <1>3, <1>6, <2>1, <2>2, <2>3 DEF RingInv, KeyboardTypeOK, RingConsistent
  <2>5. fifo_wpos = fifo_rpos
    <3>1. (fifo_rpos + FIFO_SIZE) % FIFO_SIZE = fifo_rpos
      BY <1>0, ModWrap DEF Index
    <3>2. QED BY <1>0, <1>6, <3>1
  <2>6. \A i \in 1 .. (FIFO_SIZE - 1) :
          fifo'[(fifo_rpos' + i - 1) % FIFO_SIZE] = fifo[(fifo_rpos + i) % FIFO_SIZE]
    <3> SUFFICES ASSUME NEW i \in 1 .. (FIFO_SIZE - 1)
                 PROVE  fifo'[(fifo_rpos' + i - 1) % FIFO_SIZE]
                          = fifo[(fifo_rpos + i) % FIFO_SIZE]
      OBVIOUS
    <3>0. i - 1 \in 0 .. FIFO_SIZE /\ i \in 0 .. (FIFO_SIZE - 1) /\ 0 \in 0 .. (i - 1)
      OBVIOUS
    <3>1. (fifo_rpos' + (i - 1)) % FIFO_SIZE = (fifo_rpos + (i - 1) + 1) % FIFO_SIZE
      BY <1>0, <2>1, <3>0, StepThenCount
    <3>2. /\ fifo_rpos' + i - 1 = fifo_rpos' + (i - 1)
          /\ fifo_rpos + (i - 1) + 1 = fifo_rpos + i
          /\ fifo_rpos + i \in Nat
      BY <1>0, <2>2 DEF Index
    <3>3. (fifo_rpos + 0) % FIFO_SIZE # (fifo_rpos + i) % FIFO_SIZE
      BY <1>0, <3>0, PlacesDiffer
    <3>4. fifo_rpos + 0 = fifo_rpos /\ fifo_rpos % FIFO_SIZE = fifo_rpos
      BY <1>0, ModSmall DEF Index
    <3>5. QED BY <1>4, <2>5, <3>1, <3>2, <3>3, <3>4, ModType
  <2>7. Contents' = Append(Tail(Contents), data)
    <3>1. /\ Contents' \in Seq(Data) /\ Len(Contents') = FIFO_SIZE
          /\ \A i \in 1 .. FIFO_SIZE :
               Contents'[i] = fifo'[(fifo_rpos' + i - 1) % FIFO_SIZE]
      BY <2>1, <2>4, ContentsTypeNext
    <3>2. /\ Contents \in Seq(Data) /\ Len(Contents) = FIFO_SIZE
          /\ \A i \in 1 .. FIFO_SIZE :
               Contents[i] = fifo[(fifo_rpos + i - 1) % FIFO_SIZE]
      BY <1>6, ContentsType
    <3>3. \A i \in 1 .. (FIFO_SIZE - 1) : Contents'[i] = Contents[i + 1]
      <4> SUFFICES ASSUME NEW i \in 1 .. (FIFO_SIZE - 1)
                   PROVE  Contents'[i] = Contents[i + 1]
        OBVIOUS
      <4>1. fifo_rpos + (i + 1) - 1 = fifo_rpos + i
        BY <1>0 DEF Index
      <4>2. QED BY <2>6, <3>1, <3>2, <4>1
    <3>4. Contents'[FIFO_SIZE] = data
      <4>0. FIFO_SIZE - 1 \in 0 .. FIFO_SIZE
        OBVIOUS
      <4>1. (fifo_rpos' + (FIFO_SIZE - 1)) % FIFO_SIZE
              = (fifo_rpos + (FIFO_SIZE - 1) + 1) % FIFO_SIZE
        BY <1>0, <2>1, <4>0, StepThenCount
      <4>2. /\ fifo_rpos' + FIFO_SIZE - 1 = fifo_rpos' + (FIFO_SIZE - 1)
            /\ fifo_rpos + (FIFO_SIZE - 1) + 1 = fifo_rpos + FIFO_SIZE
        BY <1>0, <2>2 DEF Index
      <4>3. (fifo_rpos + FIFO_SIZE) % FIFO_SIZE = fifo_wpos
        BY <1>0, <1>6
      <4>4. QED BY <1>4, <3>1, <4>1, <4>2, <4>3
    <3>5. QED BY <3>1, <3>2, <3>3, <3>4
  <2>8. QED
    BY <1>6, <2>1, <2>4, <2>7, ContentsType DEF Queue!Put
<1>7. QED BY <1>0, <1>5, <1>6

LEMMA ReadStep ==
  ASSUME RingInv, read_key, UNCHANGED <<kana, caps>>
  PROVE  RingInv' /\ Queue!Take
<1>0. /\ fifo \in [Index -> Data] /\ fifo_rpos \in Index /\ fifo_wpos \in Index
      /\ fifo_count \in 1 .. FIFO_SIZE
      /\ fifo_wpos = (fifo_rpos + fifo_count) % FIFO_SIZE
      /\ kana \in BOOLEAN /\ caps \in BOOLEAN
  BY DEF RingInv, KeyboardTypeOK, RingConsistent, read_key
<1>1. /\ fifo' = fifo /\ fifo_wpos' = fifo_wpos
      /\ fifo_rpos' = (fifo_rpos + 1) % FIFO_SIZE
      /\ fifo_count' = fifo_count - 1
  BY DEF read_key
<1>2. fifo_rpos' \in Index
  BY <1>0, <1>1, StepRound
<1>3. RingInv'
  <2>1. (fifo_rpos' + (fifo_count - 1)) % FIFO_SIZE
          = (fifo_rpos + (fifo_count - 1) + 1) % FIFO_SIZE
    <3>1. fifo_count - 1 \in 0 .. FIFO_SIZE
      BY <1>0
    <3>2. QED BY <1>0, <1>1, <3>1, StepThenCount
  <2>2. fifo_rpos + (fifo_count - 1) + 1 = fifo_rpos + fifo_count
    BY <1>0 DEF Index
  <2>3. QED
    BY <1>0, <1>1, <1>2, <2>1, <2>2 DEF RingInv, KeyboardTypeOK, RingConsistent
<1>4. /\ Contents' \in Seq(Data) /\ Len(Contents') = fifo_count - 1
      /\ \A i \in 1 .. (fifo_count - 1) :
           Contents'[i] = fifo[(fifo_rpos' + i - 1) % FIFO_SIZE]
  BY <1>1, <1>3, ContentsTypeNext
<1>5. /\ Contents \in Seq(Data) /\ Len(Contents) = fifo_count
      /\ \A i \in 1 .. fifo_count :
           Contents[i] = fifo[(fifo_rpos + i - 1) % FIFO_SIZE]
  BY ContentsType
<1>6. \A i \in 1 .. (fifo_count - 1) : Contents'[i] = Contents[i + 1]
  <2> SUFFICES ASSUME NEW i \in 1 .. (fifo_count - 1)
               PROVE  Contents'[i] = Contents[i + 1]
    OBVIOUS
  <2>0. i - 1 \in 0 .. FIFO_SIZE
    BY <1>0
  <2>1. (fifo_rpos' + (i - 1)) % FIFO_SIZE = (fifo_rpos + (i - 1) + 1) % FIFO_SIZE
    BY <1>0, <1>1, <2>0, StepThenCount
  <2>2. /\ fifo_rpos' + i - 1 = fifo_rpos' + (i - 1)
        /\ fifo_rpos + (i - 1) + 1 = fifo_rpos + (i + 1) - 1
        /\ i + 1 \in 1 .. fifo_count
    BY <1>0, <1>2 DEF Index
  <2>3. QED BY <1>4, <1>5, <2>1, <2>2
<1>7. Contents # << >> /\ Contents' = Tail(Contents)
  <2>1. Contents # << >> /\ Len(Tail(Contents)) = fifo_count - 1
        /\ Tail(Contents) \in Seq(Data)
    BY <1>0, <1>5
  <2>2. \A i \in 1 .. (fifo_count - 1) : Tail(Contents)[i] = Contents[i + 1]
    BY <1>0, <1>5
  <2>3. QED BY <1>0, <1>4, <1>6, <2>1, <2>2, SMTT(30)
<1>8. Contents' = SubSeq(Contents, 1 + 1, Len(Contents))
  BY <1>5, <1>7, TailIsSubSeq
<1>9. 1 <= Len(Contents)
  BY <1>0, <1>5
<1>10. QED BY <1>3, <1>8, <1>9 DEF Queue!Take

LEMMA EmptyRing ==
  ASSUME KeyboardInit
  PROVE  RingInv /\ Contents = << >>
<1>1. 0 \in Index /\ (0 + 0) % FIFO_SIZE = 0 /\ 0 \in 0 .. FIFO_SIZE
  <2>1. 0 \in 0 .. (FIFO_SIZE - 1) /\ 0 + 0 = 0
    OBVIOUS
  <2>2. QED BY <2>1, ModSmall DEF Index
<1>2. RingInv
  BY <1>1 DEF KeyboardInit, RingInv, KeyboardTypeOK, RingConsistent
<1>3. fifo_count = 0
  BY DEF KeyboardInit
<1>4. QED BY <1>2, <1>3, ContentsType

-----------------------------------------------------------------------------
(* The whole system.                                                       *)

IInv == TypeOK /\ RingConsistent /\ ReadyStays

LEMMA BytesType ==
  ASSUME TypeOK, NEW code \in Code, NEW shift \in BOOLEAN, NEW ctrl \in BOOLEAN
  PROVE  Bytes(code, shift, ctrl) \subseteq Data
<1>1. {Fixed(code), kana_from_vk(code, shift), ascii_from_vk(code, shift, caps),
       ctrl_from_vk(code)} \subseteq Data
  BY TablesAreBytes DEF TypeOK, KeyboardTypeOK
<1>2. QED BY <1>1 DEF Bytes

(* A step of the system keeps the invariant, and is a step of the queue or *)
(* leaves it alone.                                                        *)
LEMMA Step ==
  ASSUME IInv, [Next]_vars
  PROVE  IInv' /\ [Queue!Next]_Contents
<1> USE DEF IInv, TypeOK, ReadyStays
<1>0. RingInv
  BY DEF RingInv
<1>1. ASSUME NEW code \in Code, NEW shift \in BOOLEAN, NEW ctrl \in BOOLEAN,
             NEW repeat \in BOOLEAN, Press(code, shift, ctrl, repeat)
      PROVE  IInv' /\ [Queue!Next]_Contents
  <2>0. conin' = conin /\ key_down(code, shift, ctrl, repeat)
    BY <1>1 DEF Press
  <2>1. CASE code \in ModeCodes /\ ~repeat /\ ModeKey(code)
    <3>1. UNCHANGED ring /\ kana' \in BOOLEAN /\ caps' \in BOOLEAN
      BY <2>1 DEF ModeKey, KeyboardTypeOK
    <3>2. IInv'
      BY <2>0, <3>1 DEF ring, KeyboardTypeOK, RingConsistent, has_data
    <3>3. UNCHANGED Contents
      BY <3>1 DEF ring, Contents
    <3>4. QED BY <3>2, <3>3
  <2>2. CASE /\ \E data \in Bytes(code, shift, ctrl) : push_fifo(data)
             /\ UNCHANGED <<kana, caps>>
    <3>1. PICK data \in Data : push_fifo(data)
      BY <2>2, BytesType
    <3>2. RingInv' /\ fifo_count' # 0 /\ Queue!Put(data)
      BY <1>0, <2>2, <3>1, PushStep
    <3>3. IInv'
      BY <2>0, <3>2 DEF RingInv, has_data
    <3>4. QED BY <3>2, <3>3 DEF Queue!Next
  <2>3. QED BY <2>0, <2>1, <2>2 DEF key_down
<1>2. CASE BIOS_CONIN \/ CONIN_WAIT
  <2>1. UNCHANGED keyboard /\ conin' \in {"wait", "read"}
        /\ (conin' = "read" => has_data)
    BY <1>2 DEF BIOS_CONIN, CONIN_WAIT, StatusReady
  <2>2. UNCHANGED Contents
    BY <2>1 DEF keyboard, Contents
  <2>3. IInv'
    BY <2>1 DEF keyboard, KeyboardTypeOK, RingConsistent, has_data
  <2>4. QED BY <2>2, <2>3
<1>3. CASE CONIN_READ
  <2>1. has_data /\ read_key /\ conin' = "run" /\ UNCHANGED <<kana, caps>>
    BY <1>3 DEF CONIN_READ
  <2>2. RingInv' /\ Queue!Take
    BY <1>0, <2>1, ReadStep
  <2>3. IInv'
    BY <2>1, <2>2 DEF RingInv
  <2>4. QED BY <2>2, <2>3 DEF Queue!Next
<1>4. CASE Reset
  <2>1. /\ fifo' = [i \in Index |-> 0]
        /\ fifo_rpos' = 0 /\ fifo_wpos' = 0 /\ fifo_count' = 0
        /\ kana' = FALSE /\ caps' = FALSE /\ conin' = "run"
    BY <1>4 DEF Reset, KeyboardReset
  <2>2. 0 \in Index /\ (0 + 0) % FIFO_SIZE = 0 /\ 0 \in 0 .. FIFO_SIZE
    <3>1. 0 \in 0 .. (FIFO_SIZE - 1) /\ 0 + 0 = 0
      OBVIOUS
    <3>2. QED BY <3>1, ModSmall DEF Index
  <2>3. IInv' /\ RingInv'
    BY <2>1, <2>2 DEF KeyboardTypeOK, RingConsistent, RingInv
  <2>4. Contents' \in Seq(Data) /\ Len(Contents') = 0
    BY <2>1, <2>3, ContentsTypeNext
  <2>5. Queue!Clear
    BY <2>4 DEF Queue!Clear
  <2>6. QED BY <2>3, <2>5 DEF Queue!Next
<1>5. CASE UNCHANGED vars
  BY <1>5 DEF vars, KeyboardTypeOK, RingConsistent, has_data, Contents
<1>6. QED
  BY <1>1, <1>2, <1>3, <1>4, <1>5 DEF Next

LEMMA InitInv == Init => IInv /\ Queue!Init
BY EmptyRing DEF Init, IInv, RingInv, TypeOK, ReadyStays, Queue!Init

(* Every value of the state variables has its type. *)
THEOREM TypeCorrect == Spec => []TypeOK
<1>1. IInv => TypeOK
  BY DEF IInv
<1>2. QED BY <1>1, InitInv, Step, PTL DEF Spec

(* push_fifo never overwrites a byte that is still to be read. *)
THEOREM RingStaysConsistent == Spec => []RingConsistent
<1>1. IInv => RingConsistent
  BY DEF IInv
<1>2. QED BY <1>1, InitInv, Step, PTL DEF Spec

(* What the status register announced is there when the data register is   *)
(* read, whatever was typed in between.                                    *)
THEOREM AnnouncedByteStays == Spec => []ReadyStays
<1>1. IInv => ReadyStays
  BY DEF IInv
<1>2. QED BY <1>1, InitInv, Step, PTL DEF Spec

(* The keyboard is a queue of FIFO_SIZE bytes that drops the oldest.       *)
THEOREM RefinesQueue == Spec => ImplementsQueue
BY InitInv, Step, PTL DEF Spec, ImplementsQueue, Queue!Spec

=============================================================================
