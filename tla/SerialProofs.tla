---------------------------- MODULE SerialProofs ----------------------------
(***************************************************************************)
(* The serial backend, for every size of the ring, every set of port types *)
(* and every number of bytes.                                              *)
(***************************************************************************)
EXTENDS Serial, TLAPS

USE SizeIsPos, KindsOfTypes, MaxBytesIsNat, NoTypeIsNone

(* A sequence of bytes the SIO has sent among its first n, each after all  *)
(* that stand before it.                                                   *)
Ordered(s, n) == s \in Seq(1 .. n) /\ Increasing(s)

(* InOrder says nothing of the ring while a COM port is open, nor of the   *)
(* ring in the file, yet a load brings one and a save keeps the other: the *)
(* invariant orders all three, each below what had been sent by then.      *)
AllOrdered ==
  /\ Ordered(out, tx)
  /\ Ordered(Pending, tx)
  /\ Ordered(PendingIn(saved.ring), saved.tx)

IInv == TypeOK /\ BackendMatches /\ AllOrdered /\ InOrder

-----------------------------------------------------------------------------
(* The ring.  Indices stay below 2 * N before they are reduced, so each    *)
(* remainder is one of two cases.                                          *)

AnyRing(S) == [buf : [Index -> S], r : Index, w : Index]
Count(rg) == IF rg.w >= rg.r THEN rg.w - rg.r ELSE rg.w + N - rg.r
Place(r, i) == IF r + i - 1 < N THEN r + i - 1 ELSE r + i - 1 - N

LEMMA ModSmall == ASSUME NEW a \in 0 .. (N - 1) PROVE a % N = a
OBVIOUS

LEMMA ModWrap == ASSUME NEW a \in N .. (2 * N - 1) PROVE a % N = a - N
OBVIOUS

LEMMA StepRound ==
  ASSUME NEW i \in Index
  PROVE  /\ (i + 1) % N = IF i + 1 = N THEN 0 ELSE i + 1
         /\ (i + 1) % N \in Index
<1>1. CASE i + 1 = N
  BY <1>1, ModWrap DEF Index
<1>2. CASE i + 1 # N
  BY <1>2, ModSmall DEF Index
<1>3. QED
  BY <1>1, <1>2

LEMMA PlaceIs ==
  ASSUME NEW r \in Index, NEW i \in 1 .. N
  PROVE  (r + i - 1) % N = Place(r, i) /\ Place(r, i) \in Index
<1>1. CASE r + i - 1 < N
  BY <1>1, ModSmall DEF Index, Place
<1>2. CASE r + i - 1 >= N
  BY <1>2, ModWrap DEF Index, Place
<1>3. QED
  BY <1>1, <1>2 DEF Index

(* Stepping first, without passing the end, or counting further: the same. *)
LEMMA PlaceShift ==
  ASSUME NEW r \in Index, NEW n \in Nat, r + n < N, NEW i \in 1 .. N
  PROVE  Place(r + n, i) = Place(r, i + n)
<1>1. r \in Nat /\ (r + n) + i - 1 = r + (i + n) - 1
  BY DEF Index
<1>2. QED
  BY <1>1 DEF Place

LEMMA CountIs ==
  ASSUME NEW S, NEW rg \in AnyRing(S)
  PROVE  (rg.w + N - rg.r) % N = Count(rg) /\ Count(rg) \in 0 .. (N - 1)
<1>0. rg.w \in 0 .. (N - 1) /\ rg.r \in 0 .. (N - 1)
  BY DEF AnyRing, Index
<1>1. CASE rg.w >= rg.r
  BY <1>0, <1>1, ModWrap DEF Count
<1>2. CASE rg.w < rg.r
  BY <1>0, <1>2, ModSmall DEF Count
<1>3. QED
  BY <1>0, <1>1, <1>2

LEMMA FunctionIsSeq ==
  ASSUME NEW S, NEW n \in Nat, NEW c \in [1 .. n -> S]
  PROVE  c \in Seq(S) /\ Len(c) = n
OBVIOUS

LEMMA PendingIs ==
  ASSUME NEW S, NEW rg \in AnyRing(S)
  PROVE  /\ PendingIn(rg) \in Seq(S) /\ Len(PendingIn(rg)) = Count(rg)
         /\ \A i \in 1 .. Count(rg) : PendingIn(rg)[i] = rg.buf[Place(rg.r, i)]
<1>0. rg.buf \in [Index -> S] /\ rg.r \in Index /\ Count(rg) \in 0 .. (N - 1)
  BY CountIs DEF AnyRing
<1>1. \A i \in 1 .. Count(rg) :
        (rg.r + i - 1) % N = Place(rg.r, i) /\ Place(rg.r, i) \in Index
  BY <1>0, PlaceIs
<1>2. PendingIn(rg) = [i \in 1 .. Count(rg) |-> rg.buf[(rg.r + i - 1) % N]]
  BY CountIs DEF PendingIn
<1>3. PendingIn(rg) \in [1 .. Count(rg) -> S]
  BY <1>0, <1>1, <1>2
<1>4. PendingIn(rg) \in Seq(S) /\ Len(PendingIn(rg)) = Count(rg)
  BY <1>0, <1>3, FunctionIsSeq
<1>5. QED
  BY <1>1, <1>2, <1>4

LEMMA SameSeq ==
  ASSUME NEW S, NEW s \in Seq(S), NEW t \in Seq(S), Len(s) = Len(t),
         \A i \in 1 .. Len(s) : s[i] = t[i]
  PROVE  s = t
OBVIOUS

LEMMA EmptyPending ==
  ASSUME NEW S, NEW rg \in AnyRing(S), rg.r = rg.w
  PROVE  PendingIn(rg) = << >>
<1>1. rg.r \in 0 .. (N - 1)
  BY DEF AnyRing, Index
<1>2. Count(rg) = 0
  BY <1>1 DEF Count
<1>3. QED
  BY <1>2, PendingIs

(* What enqueue_socket_send makes of a ring. *)
Enqueued(rg, b) ==
  [buf |-> [rg.buf EXCEPT ![rg.w] = b],
   w |-> (rg.w + 1) % N,
   r |-> IF (rg.w + 1) % N = rg.r THEN (rg.r + 1) % N ELSE rg.r]

LEMMA EnqueuePuts ==
  ASSUME NEW S, NEW rg \in AnyRing(S), NEW b \in S
  PROVE  /\ Enqueued(rg, b) \in AnyRing(S)
         /\ PendingIn(Enqueued(rg, b)) =
              IF Len(PendingIn(rg)) < N - 1
                THEN Append(PendingIn(rg), b)
                ELSE Append(Tail(PendingIn(rg)), b)
<1> DEFINE e == Enqueued(rg, b)
           p == PendingIn(rg)
           q == PendingIn(e)
<1>0. /\ rg.buf \in [Index -> S] /\ rg.r \in 0 .. (N - 1) /\ rg.w \in 0 .. (N - 1)
      /\ rg.r \in Index /\ rg.w \in Index
  BY DEF AnyRing, Index
<1>1. /\ e.buf = [rg.buf EXCEPT ![rg.w] = b]
      /\ e.w = IF rg.w + 1 = N THEN 0 ELSE rg.w + 1
      /\ e.r = IF e.w = rg.r THEN (rg.r + 1) % N ELSE rg.r
  BY <1>0, StepRound DEF Enqueued
<1>2. e.r = IF e.w = rg.r THEN (IF rg.r + 1 = N THEN 0 ELSE rg.r + 1) ELSE rg.r
  BY <1>0, <1>1, StepRound
<1>3. e \in AnyRing(S)
  <2>1. e.buf \in [Index -> S] /\ e.w \in Index /\ e.r \in Index
    BY <1>0, <1>1, <1>2 DEF Index
  <2>2. e = [buf |-> e.buf, w |-> e.w, r |-> e.r]
    BY DEF Enqueued
  <2>3. QED
    BY <2>1, <2>2 DEF AnyRing
<1> HIDE DEF e
<1>4. /\ p \in Seq(S) /\ Len(p) = Count(rg) /\ Count(rg) \in 0 .. (N - 1)
      /\ \A i \in 1 .. Count(rg) : p[i] = rg.buf[Place(rg.r, i)]
  BY PendingIs, CountIs
<1>5. /\ q \in Seq(S) /\ Len(q) = Count(e)
      /\ \A i \in 1 .. Count(e) : q[i] = e.buf[Place(e.r, i)]
  BY <1>3, PendingIs
<1> HIDE DEF p, q
<1>6. CASE Count(rg) < N - 1
  <2>1. e.w # rg.r /\ e.r = rg.r /\ Count(e) = Count(rg) + 1
    BY <1>0, <1>1, <1>2, <1>6 DEF Count
  <2>2. \A i \in 1 .. Count(rg) : q[i] = p[i]
    <3> SUFFICES ASSUME NEW i \in 1 .. Count(rg) PROVE q[i] = p[i]
      OBVIOUS
    <3>1. Place(rg.r, i) \in Index /\ Place(rg.r, i) # rg.w
      BY <1>0, <1>4, <1>6, SMTT(30) DEF Place, Count, Index
    <3>2. e.buf[Place(rg.r, i)] = rg.buf[Place(rg.r, i)]
      BY <1>0, <1>1, <3>1
    <3>3. QED
      BY <1>4, <1>5, <2>1, <3>2
  <2>3. q[Count(rg) + 1] = b
    <3>1. Place(rg.r, Count(rg) + 1) = rg.w
      BY <1>0, <1>4, SMTT(30) DEF Place, Count
    <3>2. QED
      BY <1>0, <1>1, <1>4, <1>5, <2>1, <3>1
  <2>4. q = Append(p, b)
    <3>1. Append(p, b) \in Seq(S) /\ Len(Append(p, b)) = Count(rg) + 1
      BY <1>4
    <3>2. \A i \in 1 .. (Count(rg) + 1) : Append(p, b)[i] = q[i]
      BY <1>4, <2>2, <2>3
    <3>3. QED
      BY <1>5, <2>1, <3>1, <3>2, SameSeq
  <2>5. QED
    BY <1>3, <1>4, <1>6, <2>4 DEF e, p, q
<1>7. CASE Count(rg) = N - 1
  <2>1. e.w = rg.r /\ Count(e) = N - 1
    BY <1>0, <1>1, <1>2, <1>7 DEF Count
  <2>2. /\ e.r = IF rg.r + 1 = N THEN 0 ELSE rg.r + 1
        /\ rg.w = IF rg.r = 0 THEN N - 1 ELSE rg.r - 1
    BY <1>0, <1>1, <1>2, <2>1
  <2>3. \A i \in 1 .. (N - 2) : q[i] = p[i + 1]
    <3> SUFFICES ASSUME NEW i \in 1 .. (N - 2) PROVE q[i] = p[i + 1]
      OBVIOUS
    <3>1. /\ Place(e.r, i) = Place(rg.r, i + 1)
          /\ Place(rg.r, i + 1) \in Index /\ Place(rg.r, i + 1) # rg.w
      <4>1. CASE rg.r + 1 = N
        BY <1>0, <2>2, <4>1 DEF Place, Index
      <4>2. CASE rg.r + 1 # N
        <5>1. e.r = rg.r + 1 /\ rg.r + 1 < N /\ i \in 1 .. N
          BY <1>0, <2>2, <4>2
        <5>2. Place(rg.r + 1, i) = Place(rg.r, i + 1)
          BY <1>0, <5>1, PlaceShift
        <5>3. Place(rg.r, i + 1) \in Index /\ Place(rg.r, i + 1) # rg.w
          BY <1>0, <2>2 DEF Place, Index
        <5>4. QED
          BY <5>1, <5>2, <5>3
      <4>3. QED
        BY <4>1, <4>2
    <3>2. e.buf[Place(e.r, i)] = rg.buf[Place(rg.r, i + 1)]
      BY <1>0, <1>1, <3>1
    <3>3. QED
      BY <1>4, <1>5, <1>7, <2>1, <3>2
  <2>4. q[N - 1] = b
    <3>1. Place(e.r, N - 1) = rg.w
      <4>1. CASE rg.r + 1 = N
        BY <1>0, <2>2, <4>1 DEF Place
      <4>2. CASE rg.r + 1 # N
        BY <1>0, <2>2, <4>2 DEF Place
      <4>3. QED
        BY <4>1, <4>2
    <3>2. QED
      BY <1>0, <1>1, <1>5, <2>1, <3>1
  <2>5. q = Append(Tail(p), b)
    <3>1. /\ Tail(p) \in Seq(S) /\ Len(Tail(p)) = N - 2
          /\ \A i \in 1 .. (N - 2) : Tail(p)[i] = p[i + 1]
      BY <1>4, <1>7
    <3>2. Append(Tail(p), b) \in Seq(S) /\ Len(Append(Tail(p), b)) = N - 1
      BY <3>1
    <3>3. \A i \in 1 .. (N - 1) : Append(Tail(p), b)[i] = q[i]
      BY <2>3, <2>4, <3>1
    <3>4. QED
      BY <1>5, <2>1, <3>2, <3>3, SameSeq
  <2>6. QED
    BY <1>3, <1>4, <1>7, <2>5 DEF e, p, q
<1>8. QED
  BY <1>4, <1>6, <1>7

(* What a send leaves, when it takes n bytes of the piece in front. *)
Sent(rg, n) == [rg EXCEPT !.r = (@ + n) % N]
Piece(rg) == IF rg.w >= rg.r THEN rg.w - rg.r ELSE N - rg.r

LEMMA SendTakes ==
  ASSUME NEW S, NEW rg \in AnyRing(S), NEW n \in 1 .. Piece(rg)
  PROVE  /\ Sent(rg, n) \in AnyRing(S)
         /\ n \in 1 .. (N - 1) /\ n <= Len(PendingIn(rg))
         /\ PendingIn(Sent(rg, n))
              = SubSeq(PendingIn(rg), n + 1, Len(PendingIn(rg)))
<1> DEFINE e == Sent(rg, n)
           p == PendingIn(rg)
           q == PendingIn(e)
<1>0. /\ rg.buf \in [Index -> S] /\ rg.r \in 0 .. (N - 1) /\ rg.w \in 0 .. (N - 1)
      /\ Piece(rg) \in 0 .. N /\ n \in Nat
  BY DEF AnyRing, Index, Piece
<1>1. (rg.r + n) % N = IF rg.r + n = N THEN 0 ELSE rg.r + n
  <2>1. CASE rg.r + n = N
    BY <1>0, <2>1, ModWrap
  <2>2. CASE rg.r + n < N
    BY <1>0, <2>2, ModSmall
  <2>3. QED
    BY <1>0, <2>1, <2>2 DEF Piece
<1>2. /\ e.buf = rg.buf /\ e.w = rg.w
      /\ e.r = IF rg.r + n = N THEN 0 ELSE rg.r + n
  BY <1>1 DEF Sent, AnyRing
<1>3. e \in AnyRing(S)
  <2>1. e.r \in Index
    BY <1>0, <1>2 DEF Index, Piece
  <2>2. (rg.r + n) % N \in Index
    BY <1>1, <1>2, <2>1
  <2>3. QED
    BY <2>2 DEF Sent, AnyRing
<1>4. /\ p \in Seq(S) /\ Len(p) = Count(rg) /\ Count(rg) \in 0 .. (N - 1)
      /\ \A i \in 1 .. Count(rg) : p[i] = rg.buf[Place(rg.r, i)]
  BY PendingIs, CountIs
<1> HIDE DEF e
<1>5. /\ q \in Seq(S) /\ Len(q) = Count(e)
      /\ \A i \in 1 .. Count(e) : q[i] = e.buf[Place(e.r, i)]
  BY <1>3, PendingIs
<1> HIDE DEF p, q
<1>6. Count(e) = Count(rg) - n /\ n <= Count(rg)
  BY <1>0, <1>2 DEF Count, Piece
<1>7. \A i \in 1 .. Count(e) : q[i] = p[i + n]
  <2> SUFFICES ASSUME NEW i \in 1 .. Count(e) PROVE q[i] = p[i + n]
    OBVIOUS
  <2>1. i + n \in 1 .. Count(rg)
    BY <1>0, <1>4, <1>6
  <2>2. Place(e.r, i) = Place(rg.r, i + n)
    <3>1. CASE rg.r + n = N
      BY <1>0, <1>2, <1>4, <2>1, <3>1 DEF Place
    <3>2. CASE rg.r + n # N
      <4>1. e.r = rg.r + n /\ rg.r + n < N /\ i \in 1 .. N
        BY <1>0, <1>2, <1>4, <1>6, <3>2 DEF Piece
      <4>2. Place(rg.r + n, i) = Place(rg.r, i + n)
        BY <1>0, <4>1, PlaceShift DEF Index
      <4>3. QED
        BY <4>1, <4>2
    <3>3. QED
      BY <3>1, <3>2
  <2>3. QED
    BY <1>2, <1>4, <1>5, <2>1, <2>2
<1>8. q = SubSeq(p, n + 1, Len(p))
  <2>1. /\ SubSeq(p, n + 1, Len(p)) \in Seq(S)
        /\ Len(SubSeq(p, n + 1, Len(p))) = Len(p) - n
        /\ \A i \in 1 .. (Len(p) - n) : SubSeq(p, n + 1, Len(p))[i] = p[n + 1 + i - 1]
    BY <1>0, <1>4, <1>6
  <2>2. \A i \in 1 .. (Len(p) - n) : SubSeq(p, n + 1, Len(p))[i] = q[i]
    <3> SUFFICES ASSUME NEW i \in 1 .. (Len(p) - n)
                 PROVE  SubSeq(p, n + 1, Len(p))[i] = q[i]
      OBVIOUS
    <3>1. n + 1 + i - 1 = i + n
      BY <1>0
    <3>2. QED
      BY <1>4, <1>6, <1>7, <2>1, <3>1
  <2>3. QED
    BY <1>4, <1>5, <1>6, <2>1, <2>2, SameSeq
<1>9. QED
  BY <1>0, <1>3, <1>4, <1>6, <1>8 DEF e, p, q

-----------------------------------------------------------------------------
(* Increasing sequences. *)

LEMMA Widen ==
  ASSUME NEW n \in Nat, NEW m \in Nat, n <= m, NEW s \in Seq(1 .. n)
  PROVE  s \in Seq(1 .. m)
<1>1. s \in [1 .. Len(s) -> 1 .. n] /\ Len(s) \in Nat
  OBVIOUS
<1>2. s \in [1 .. Len(s) -> 1 .. m]
  BY <1>1
<1>3. QED
  BY <1>1, <1>2

LEMMA EmptyIsOrdered == ASSUME NEW n \in Nat PROVE Ordered(<< >>, n)
BY DEF Ordered, Increasing

LEMMA IncreasingGrows ==
  ASSUME NEW n \in Nat, NEW s \in Seq(1 .. n), Increasing(s)
  PROVE  Increasing(Append(s, n + 1))
<1> DEFINE a == Append(s, n + 1)
<1>1. /\ Len(a) = Len(s) + 1 /\ Len(s) \in Nat /\ a[Len(s) + 1] = n + 1
      /\ \A i \in 1 .. Len(s) : a[i] = s[i] /\ s[i] \in 1 .. n
  OBVIOUS
<1> HIDE DEF a
<1> SUFFICES ASSUME NEW i \in 1 .. Len(a), NEW j \in 1 .. i - 1 PROVE a[j] < a[i]
  BY DEF Increasing, a
<1>2. CASE i = Len(s) + 1
  <2>1. j \in 1 .. Len(s)
    BY <1>1, <1>2
  <2>2. a[j] = s[j] /\ s[j] \in 1 .. n
    BY <1>1, <2>1
  <2>3. QED
    BY <1>1, <1>2, <2>2
<1>3. CASE i # Len(s) + 1
  BY <1>1, <1>3, SMTT(30) DEF Increasing
<1>4. QED
  BY <1>2, <1>3

(* What is left of an increasing sequence after taking some elements out. *)
LEMMA Thinned ==
  ASSUME NEW s \in Seq(Nat), Increasing(s), NEW t \in Seq(Nat),
         NEW f \in [1 .. Len(t) -> 1 .. Len(s)],
         \A i \in 1 .. Len(t) : t[i] = s[f[i]],
         \A i \in 1 .. Len(t) : \A j \in 1 .. i - 1 : f[j] < f[i]
  PROVE  Increasing(t)
<1> SUFFICES ASSUME NEW i \in 1 .. Len(t), NEW j \in 1 .. i - 1 PROVE t[j] < t[i]
  BY DEF Increasing
<1>1. j \in 1 .. Len(t) /\ f[j] < f[i] /\ f[i] \in 1 .. Len(s) /\ f[j] \in 1 .. f[i] - 1
  OBVIOUS
<1>2. s[f[j]] < s[f[i]]
  BY <1>1 DEF Increasing
<1>3. QED
  BY <1>1, <1>2

LEMMA ConcatIs ==
  ASSUME NEW S, NEW a \in Seq(S), NEW b \in Seq(S)
  PROVE  /\ a \o b \in Seq(S) /\ Len(a \o b) = Len(a) + Len(b)
         /\ Len(a) \in Nat /\ Len(b) \in Nat
         /\ \A i \in 1 .. Len(a) + Len(b) :
              (a \o b)[i] = IF i <= Len(a) THEN a[i] ELSE b[i - Len(a)]
OBVIOUS

LEMMA TailIs ==
  ASSUME NEW S, NEW b \in Seq(S), b # << >>
  PROVE  /\ Tail(b) \in Seq(S) /\ Len(Tail(b)) = Len(b) - 1 /\ Len(b) >= 1
         /\ \A i \in 1 .. Len(b) - 1 : Tail(b)[i] = b[i + 1]
OBVIOUS

LEMMA SubSeqIs ==
  ASSUME NEW S, NEW b \in Seq(S), NEW k \in 0 .. Len(b)
  PROVE  /\ SubSeq(b, 1, k) \in Seq(S) /\ Len(SubSeq(b, 1, k)) = k
         /\ \A i \in 1 .. k : SubSeq(b, 1, k)[i] = b[i]
         /\ SubSeq(b, k + 1, Len(b)) \in Seq(S)
         /\ Len(SubSeq(b, k + 1, Len(b))) = Len(b) - k
         /\ \A i \in 1 .. Len(b) - k : SubSeq(b, k + 1, Len(b))[i] = b[i + k]
<1>1. Len(b) \in Nat
  OBVIOUS
<1>2. /\ SubSeq(b, 1, k) \in Seq(S) /\ Len(SubSeq(b, 1, k)) = k
      /\ \A i \in 1 .. k : SubSeq(b, 1, k)[i] = b[i]
  BY <1>1
<1>3. /\ SubSeq(b, k + 1, Len(b)) \in Seq(S)
      /\ Len(SubSeq(b, k + 1, Len(b))) = Len(b) - k
      /\ \A i \in 1 .. Len(b) - k : SubSeq(b, k + 1, Len(b))[i] = b[(k + 1) + i - 1]
  BY <1>1
<1>4. \A i \in 1 .. Len(b) - k : (k + 1) + i - 1 = i + k
  BY <1>1
<1>5. QED
  BY <1>2, <1>3, <1>4

(* The oldest byte of the ring gone. *)
LEMMA HeadDropped ==
  ASSUME NEW a \in Seq(Nat), NEW b \in Seq(Nat), b # << >>, Increasing(a \o b)
  PROVE  Increasing(a \o Tail(b))
<1> DEFINE s == a \o b
           t == a \o Tail(b)
           f == [i \in 1 .. Len(t) |-> IF i <= Len(a) THEN i ELSE i + 1]
<1>1. Tail(b) \in Seq(Nat) /\ Len(Tail(b)) = Len(b) - 1 /\ Len(b) >= 1
      /\ \A i \in 1 .. Len(b) - 1 : Tail(b)[i] = b[i + 1]
  BY TailIs
<1>2. /\ s \in Seq(Nat) /\ t \in Seq(Nat) /\ Len(a) \in Nat /\ Len(b) \in Nat
      /\ Len(s) = Len(a) + Len(b) /\ Len(t) = Len(a) + Len(b) - 1
      /\ \A i \in 1 .. Len(s) : s[i] = IF i <= Len(a) THEN a[i] ELSE b[i - Len(a)]
      /\ \A i \in 1 .. Len(t) : t[i] = IF i <= Len(a) THEN a[i] ELSE Tail(b)[i - Len(a)]
  BY <1>1, ConcatIs
<1> HIDE DEF s, t
<1>3. /\ Len(a) \in Nat /\ Len(b) \in Nat /\ Len(t) \in Nat
      /\ Len(s) = Len(t) + 1 /\ Len(t) = Len(a) + Len(b) - 1
  BY <1>1, <1>2
<1>4. f \in [1 .. Len(t) -> 1 .. Len(s)]
  <2>1. \A i \in 1 .. Len(t) : (IF i <= Len(a) THEN i ELSE i + 1) \in 1 .. Len(s)
    BY <1>3
  <2>2. QED
    BY <2>1
<1>5. \A i \in 1 .. Len(t) : t[i] = s[f[i]]
  <2> SUFFICES ASSUME NEW i \in 1 .. Len(t) PROVE t[i] = s[f[i]]
    OBVIOUS
  <2>1. CASE i <= Len(a)
    <3>1. f[i] = i /\ i \in 1 .. Len(s)
      BY <1>2, <2>1
    <3>2. QED
      BY <1>2, <2>1, <3>1
  <2>2. CASE i > Len(a)
    <3>1. f[i] = i + 1 /\ i + 1 \in 1 .. Len(s) /\ i - Len(a) \in 1 .. Len(b) - 1
          /\ (i + 1) - Len(a) = (i - Len(a)) + 1
      BY <1>2, <2>2
    <3>2. QED
      BY <1>1, <1>2, <2>2, <3>1, SMTT(30)
  <2>3. QED
    BY <1>2, <2>1, <2>2
<1>6. \A i \in 1 .. Len(t) : \A j \in 1 .. i - 1 : f[j] < f[i]
  <2> SUFFICES ASSUME NEW i \in 1 .. Len(t), NEW j \in 1 .. i - 1
               PROVE  f[j] < f[i]
    OBVIOUS
  <2>1. Len(t) \in Nat /\ j \in 1 .. Len(t) /\ j < i
    BY <1>3
  <2>2. QED
    BY <1>3, <2>1
<1> HIDE DEF f
<1>7. Increasing(t)
  BY <1>2, <1>4, <1>5, <1>6, Thinned DEF s
<1>8. QED
  BY <1>7 DEF t

(* The first k of the ring handed on. *)
LEMMA FrontMoved ==
  ASSUME NEW S, NEW a \in Seq(S), NEW b \in Seq(S), NEW k \in 0 .. Len(b)
  PROVE  (a \o SubSeq(b, 1, k)) \o SubSeq(b, k + 1, Len(b)) = a \o b
<1> DEFINE x == SubSeq(b, 1, k)
           y == SubSeq(b, k + 1, Len(b))
<1>1. /\ x \in Seq(S) /\ Len(x) = k /\ y \in Seq(S) /\ Len(y) = Len(b) - k
      /\ Len(b) \in Nat /\ Len(a) \in Nat
      /\ (\A i \in 1 .. k : x[i] = b[i])
      /\ (\A i \in 1 .. Len(b) - k : y[i] = b[i + k])
  BY SubSeqIs
<1> HIDE DEF x, y
<1>2. x \o y \in Seq(S) /\ Len(x \o y) = Len(b)
  <2>1. x \o y \in Seq(S) /\ Len(x \o y) = Len(x) + Len(y)
    BY <1>1, ConcatIs
  <2>2. k + (Len(b) - k) = Len(b)
    BY <1>1
  <2>3. QED
    BY <1>1, <2>1, <2>2
<1>3. \A i \in 1 .. Len(b) : (x \o y)[i] = b[i]
  <2> SUFFICES ASSUME NEW i \in 1 .. Len(b) PROVE (x \o y)[i] = b[i]
    OBVIOUS
  <2>1. CASE i <= k
    BY <1>1, <2>1
  <2>2. CASE i > k
    <3>1. i - k \in 1 .. Len(b) - k /\ (i - k) + k = i
      BY <1>1, <2>2
    <3>2. (x \o y)[i] = y[i - k]
      BY <1>1, <2>2
    <3>3. QED
      BY <1>1, <3>1, <3>2
  <2>3. QED
    BY <1>1, <2>1, <2>2
<1>4. x \o y = b
  BY <1>2, <1>3, SameSeq
<1>5. (a \o x) \o y = a \o (x \o y)
  BY <1>1, SMTT(30)
<1>6. QED
  BY <1>4, <1>5 DEF x, y

LEMMA Prefix ==
  ASSUME NEW s \in Seq(Nat), NEW t \in Seq(Nat), Increasing(s \o t)
  PROVE  Increasing(s) /\ Increasing(t)
<1> DEFINE c == s \o t
           f == [i \in 1 .. Len(s) |-> i]
           g == [i \in 1 .. Len(t) |-> Len(s) + i]
<1>1. /\ c \in Seq(Nat) /\ Len(c) = Len(s) + Len(t) /\ Len(s) \in Nat /\ Len(t) \in Nat
      /\ \A i \in 1 .. Len(s) + Len(t) :
           c[i] = IF i <= Len(s) THEN s[i] ELSE t[i - Len(s)]
  BY ConcatIs
<1>2. Increasing(c)
  OBVIOUS
<1> HIDE DEF c
<1>3. Increasing(s)
  <2>1. /\ f \in [1 .. Len(s) -> 1 .. Len(c)]
        /\ \A i \in 1 .. Len(s) : s[i] = c[f[i]]
        /\ \A i \in 1 .. Len(s) : \A j \in 1 .. i - 1 : f[j] < f[i]
    BY <1>1
  <2> HIDE DEF f
  <2>2. QED
    BY <1>1, <1>2, <2>1, Thinned
<1>4. Increasing(t)
  <2>1. g \in [1 .. Len(t) -> 1 .. Len(c)]
    BY <1>1
  <2>2. \A i \in 1 .. Len(t) : t[i] = c[g[i]]
    <3> SUFFICES ASSUME NEW i \in 1 .. Len(t) PROVE t[i] = c[g[i]]
      OBVIOUS
    <3>1. g[i] = Len(s) + i /\ (Len(s) + i) - Len(s) = i /\ ~(Len(s) + i <= Len(s))
          /\ Len(s) + i \in 1 .. Len(s) + Len(t)
      BY <1>1
    <3>2. QED
      BY <1>1, <3>1
  <2>3. \A i \in 1 .. Len(t) : \A j \in 1 .. i - 1 : g[j] < g[i]
    BY <1>1
  <2> HIDE DEF g
  <2>4. QED
    BY <1>1, <1>2, <2>1, <2>2, <2>3, Thinned
<1>5. QED
  BY <1>3, <1>4

-----------------------------------------------------------------------------
(* What the calls do to the ring and to its contents. *)

LEMMA NaturalSeq ==
  ASSUME NEW n \in Nat, NEW s \in Seq(1 .. n) PROVE s \in Seq(Nat)
<1>1. s \in [1 .. Len(s) -> 1 .. n] /\ Len(s) \in Nat
  OBVIOUS
<1>2. s \in [1 .. Len(s) -> Nat]
  BY <1>1
<1>3. QED
  BY <1>1, <1>2

LEMMA RingTypes ==
  ASSUME TypeOK
  PROVE  /\ Ring = AnyRing(0 .. MaxBytes) /\ ring \in AnyRing(0 .. MaxBytes)
         /\ tx \in Nat /\ tx <= MaxBytes
         /\ saved.ring \in Ring /\ saved.tx \in Nat /\ saved.tx <= MaxBytes
         /\ Len(Pending) = Count(ring) /\ Count(ring) \in 0 .. (N - 1)
<1>1. Ring = AnyRing(0 .. MaxBytes) /\ ring \in AnyRing(0 .. MaxBytes)
  BY DEF TypeOK, Ring, AnyRing
<1>2. Len(Pending) = Count(ring) /\ Count(ring) \in 0 .. (N - 1)
  BY <1>1, PendingIs, CountIs DEF Pending
<1>3. QED
  BY <1>1, <1>2 DEF TypeOK

(* A byte written: the newest, behind what the socket still has to take. *)
LEMMA WriteStep ==
  ASSUME IInv, write_signal, mode = "SOCKET"
  PROVE  /\ ring' \in Ring /\ tx' \in 0 .. MaxBytes /\ tx' = tx + 1
         /\ Queue!Put(tx')
         /\ Ordered(Pending', tx') /\ Increasing(out \o Pending')
<1>0. /\ TypeOK /\ Ordered(out, tx) /\ Ordered(Pending, tx)
      /\ Increasing(out \o Pending)
  BY DEF IInv, AllOrdered, InOrder
<1>1. tx' = tx + 1 /\ tx + 1 \in 0 .. MaxBytes /\ ring' = Enqueued(ring, tx + 1)
  BY <1>0, RingTypes DEF write_signal, enqueue_socket_send, Enqueued
<1> DEFINE q == IF Len(Pending) < N - 1 THEN Pending ELSE Tail(Pending)
<1>2. ring' \in Ring /\ Pending' = Append(q, tx + 1)
  BY <1>0, <1>1, RingTypes, EnqueuePuts DEF Pending
<1>3. q \in Seq(1 .. tx) /\ Increasing(out \o q)
  <2>1. CASE Len(Pending) < N - 1
    BY <1>0, <2>1 DEF Ordered
  <2>2. CASE ~(Len(Pending) < N - 1)
    <3>1. Pending # << >>
      BY <1>0, <2>2, RingTypes
    <3>2. Tail(Pending) \in Seq(1 .. tx)
      BY <1>0, <3>1, TailIs DEF Ordered
    <3>3. Increasing(out \o Tail(Pending))
      BY <1>0, <3>1, HeadDropped, NaturalSeq, RingTypes DEF Ordered
    <3>4. QED
      BY <2>2, <3>2, <3>3
  <2>3. QED
    BY <2>1, <2>2
<1>4. Queue!Put(tx')
  BY <1>1, <1>2 DEF Queue!Put
<1> HIDE DEF q
<1>5. out \o q \in Seq(1 .. tx) /\ out \in Seq(1 .. tx)
  BY <1>0, <1>3, ConcatIs DEF Ordered
<1>6. Increasing(Append(out \o q, tx + 1))
  BY <1>0, <1>3, <1>5, IncreasingGrows, RingTypes
<1>7. Append(out \o q, tx + 1) = out \o Append(q, tx + 1)
  BY <1>3, <1>5, SMTT(30)
<1>8. Increasing(out \o Pending')
  BY <1>2, <1>6, <1>7
<1>9. Pending' \in Seq(1 .. (tx + 1))
  <2>1. q \in Seq(1 .. (tx + 1)) /\ tx + 1 \in 1 .. (tx + 1)
    BY <1>0, <1>3, Widen, RingTypes
  <2>2. QED
    BY <1>2, <2>1
<1>10. Increasing(Pending')
  BY <1>0, <1>1, <1>5, <1>8, <1>9, Prefix, NaturalSeq, RingTypes
<1>11. QED
  BY <1>1, <1>2, <1>4, <1>8, <1>9, <1>10 DEF Ordered

(* What is taken from the ring, by the socket or by the front end. *)
LEMMA TakeStep ==
  ASSUME IInv, mode = "SOCKET", HandOn, tx' = tx
  PROVE  /\ ring' \in Ring
         /\ Queue!Take
         /\ out' = out \o SubSeq(Pending, 1, Len(Pending) - Len(Pending'))
         /\ Ordered(out', tx) /\ Ordered(Pending', tx)
         /\ Increasing(out' \o Pending')
<1>0. /\ TypeOK /\ Ordered(out, tx) /\ Ordered(Pending, tx)
      /\ Increasing(out \o Pending)
  BY DEF IInv, AllOrdered, InOrder
<1>1. PICK n \in 1 .. Piece(ring) :
        out' = out \o SubSeq(Pending, 1, n) /\ ring' = Sent(ring, n)
  BY DEF HandOn, available, Piece, Sent
<1>2. /\ ring' \in Ring /\ n \in 1 .. (N - 1) /\ n <= Len(Pending)
      /\ Pending' = SubSeq(Pending, n + 1, Len(Pending))
  BY <1>0, <1>1, RingTypes, SendTakes DEF Pending
<1>3. n \in 0 .. Len(Pending) /\ Len(Pending) \in Nat
  BY <1>0, <1>2, RingTypes
<1>4. /\ SubSeq(Pending, 1, n) \in Seq(1 .. tx)
      /\ Pending' \in Seq(1 .. tx) /\ Len(Pending') = Len(Pending) - n
  BY <1>0, <1>2, <1>3, SubSeqIs DEF Ordered
<1>5. out' \in Seq(1 .. tx)
  BY <1>0, <1>1, <1>4, ConcatIs DEF Ordered
<1>6. out' \o Pending' = out \o Pending
  BY <1>0, <1>1, <1>2, <1>3, FrontMoved DEF Ordered
<1>7. Increasing(out' \o Pending') /\ Increasing(out') /\ Increasing(Pending')
  BY <1>0, <1>4, <1>5, <1>6, Prefix, NaturalSeq, RingTypes
<1>8. Len(Pending) - Len(Pending') = n
  BY <1>3, <1>4
<1>9. Queue!Take
  BY <1>2 DEF Queue!Take
<1>10. QED
  BY <1>1, <1>2, <1>4, <1>5, <1>7, <1>8, <1>9 DEF Ordered

(* Each of the two that take is at work in socket mode only.               *)
LEMMA SendStep ==
  ASSUME IInv, FlushSend \/ inc_socket_send_buffer_ptr
  PROVE  /\ mode = "SOCKET" /\ HandOn
         /\ UNCHANGED <<link, pc, back, tx, saved>>
BY DEF IInv, BackendMatches, active, FlushSend, inc_socket_send_buffer_ptr


LEMMA EmptiedStep ==
  ASSUME TypeOK, Emptied
  PROVE  ring' \in Ring /\ Pending' = << >>
<1>1. ring' \in AnyRing(0 .. MaxBytes) /\ ring'.r = ring'.w
  <2>1. ring \in AnyRing(0 .. MaxBytes) /\ 0 \in Index
    BY RingTypes DEF Index
  <2>2. ring' = [ring EXCEPT !.r = 0, !.w = 0]
    BY DEF Emptied
  <2>3. QED
    BY <2>1, <2>2 DEF AnyRing
<1>2. QED
  BY <1>1, EmptyPending, RingTypes DEF Pending

-----------------------------------------------------------------------------
(* The invariant. *)

LEMMA TypeStep == IInv /\ [Next]_vars => TypeOK'
<1> SUFFICES ASSUME IInv, [Next]_vars PROVE TypeOK'
  OBVIOUS
<1> USE DEF TypeOK, link, backend
<1>0. TypeOK /\ tx \in Nat /\ tx <= MaxBytes
  BY RingTypes DEF IInv
<1>1. CASE write_signal
  <2>1. CASE mode = "SOCKET"
    BY <1>0, <1>1, <2>1, WriteStep DEF write_signal, Flush
  <2>2. CASE mode # "SOCKET"
    <3>1. tx' \in 0 .. MaxBytes /\ tx' \in Bytes
      BY <1>0, <1>1 DEF write_signal, Bytes
    <3>2. Append(out, tx') \in Seq(Bytes) /\ out \in Seq(Bytes)
      BY <1>0, <3>1
    <3>3. QED
      BY <1>0, <1>1, <2>2, <3>1, <3>2 DEF write_signal
  <2>3. QED
    BY <2>1, <2>2
<1>2. CASE FlushSend \/ inc_socket_send_buffer_ptr
  <2>1. ring' \in Ring /\ out' \in Seq(1 .. tx)
    BY <1>2, SendStep, TakeStep DEF Ordered
  <2>2. out' \in Seq(Bytes)
    BY <1>0, <2>1, Widen DEF Bytes
  <2>3. QED
    BY <1>0, <1>2, <2>1, <2>2, SendStep
<1>3. CASE FlushStop \/ Dies
  BY <1>0, <1>3 DEF FlushStop, Dies
<1>4. CASE Poll
  BY <1>0, <1>4 DEF Poll, Flush
<1>5. CASE Recv
  BY <1>0, <1>5 DEF Recv, Flush
<1>6. ASSUME NEW t \in Type, configure_from_config(t) PROVE TypeOK'
  <2>1. ring' \in Ring
    BY <1>0, <1>6, EmptiedStep DEF configure_from_config, NewRing
  <2>2. QED
    BY <1>0, <1>6, <2>1 DEF configure_from_config, CloseClient, StillListening
<1>7. CASE reset
  BY <1>0, <1>7, EmptiedStep DEF reset
<1>8. CASE Save
  BY <1>0, <1>8 DEF Save
<1>9. CASE Load
  <2>1. << >> \in Seq(Bytes)
    OBVIOUS
  <2>2. QED
    BY <1>0, <1>9, <2>1 DEF Load
<1>10. CASE UNCHANGED vars
  BY <1>0, <1>10 DEF vars
<1>11. QED
  BY <1>1, <1>2, <1>3, <1>4, <1>5, <1>6, <1>7, <1>8, <1>9, <1>10 DEF Next

LEMMA BackendStep == TypeOK /\ BackendMatches /\ [Next]_vars => BackendMatches'
<1> SUFFICES ASSUME TypeOK, BackendMatches, [Next]_vars PROVE BackendMatches'
  OBVIOUS
<1> USE DEF BackendMatches, active
<1>1. CASE \/ write_signal \/ FlushSend \/ inc_socket_send_buffer_ptr
           \/ reset \/ Save \/ Load
  BY <1>1 DEF write_signal, FlushSend, inc_socket_send_buffer_ptr, reset, Save, Load,
              link, backend
<1>2. CASE FlushStop \/ Dies
  BY <1>2 DEF FlushStop, Dies, backend
<1>3. CASE Poll
  BY <1>3 DEF Poll, backend
<1>4. CASE Recv
  BY <1>4 DEF Recv, backend
<1>5. ASSUME NEW t \in Type, configure_from_config(t) PROVE BackendMatches'
  <2>1. client' = "none" /\ StillListening = FALSE
    BY <1>5 DEF configure_from_config, CloseClient, StillListening
  <2>2. t # NoType /\ Kind[t] \in {"off", "com", "tcp"}
    OBVIOUS
  <2>3. CASE Kind[t] = "off" /\ mode' = "NONE" /\ configured_type' = t
             /\ listening' = FALSE /\ com_handle' = FALSE
    BY <2>1, <2>2, <2>3 DEF ModeOf
  <2>4. CASE mode' = "NONE" /\ configured_type' = NoType
             /\ listening' = FALSE /\ com_handle' = FALSE
    BY <2>1, <2>4
  <2>5. CASE Kind[t] = "com" /\ mode' = "COM" /\ configured_type' = t
             /\ listening' = FALSE /\ com_handle' = TRUE
    BY <2>1, <2>2, <2>5 DEF ModeOf
  <2>6. CASE Kind[t] = "tcp" /\ mode' = "SOCKET" /\ configured_type' = t
             /\ listening' = TRUE /\ com_handle' = FALSE
    BY <2>1, <2>2, <2>6 DEF ModeOf
  <2>7. QED
    BY <1>5, <2>1, <2>3, <2>4, <2>5, <2>6 DEF configure_from_config
<1>6. CASE UNCHANGED vars
  BY <1>6 DEF vars
<1>7. QED
  BY <1>1, <1>2, <1>3, <1>4, <1>5, <1>6 DEF Next

LEMMA OrderStep == IInv /\ [Next]_vars => AllOrdered' /\ InOrder'
<1> SUFFICES ASSUME IInv, [Next]_vars PROVE AllOrdered' /\ InOrder'
  OBVIOUS
<1>0. /\ TypeOK /\ tx \in Nat /\ saved.tx \in Nat
      /\ Ordered(out, tx) /\ Ordered(Pending, tx)
      /\ Ordered(PendingIn(saved.ring), saved.tx)
      /\ (mode = "SOCKET" => Increasing(out \o Pending))
  BY RingTypes DEF IInv, AllOrdered, InOrder
<1>1. ASSUME Ordered(out', tx'), Ordered(Pending', tx'), saved' = saved,
             mode' = "SOCKET" => Increasing(out' \o Pending')
      PROVE  AllOrdered' /\ InOrder'
  BY <1>0, <1>1 DEF AllOrdered, InOrder, Ordered
<1>2. ASSUME UNCHANGED <<out, ring, tx>>, saved' = saved,
             mode' = "SOCKET" => mode = "SOCKET"
      PROVE  AllOrdered' /\ InOrder'
  BY <1>0, <1>1, <1>2 DEF Pending
<1>3. ASSUME Pending' = << >>, UNCHANGED <<out, tx, saved>>
      PROVE  AllOrdered' /\ InOrder'
  <2>1. Ordered(Pending', tx')
    BY <1>0, <1>3, EmptyIsOrdered
  <2>2. out \o << >> = out
    BY <1>0 DEF Ordered
  <2>3. QED
    BY <1>0, <1>1, <1>3, <2>1, <2>2 DEF Ordered
<1>4. CASE write_signal
  <2>1. CASE mode = "SOCKET"
    <3>1. /\ out' = out /\ saved' = saved /\ tx' = tx + 1
          /\ Ordered(Pending', tx') /\ Increasing(out \o Pending')
      BY <1>4, <2>1, WriteStep DEF write_signal
    <3>2. Ordered(out, tx + 1)
      BY <1>0, Widen DEF Ordered
    <3>3. QED
      BY <1>1, <3>1, <3>2
  <2>2. CASE mode # "SOCKET"
    <3>1. /\ UNCHANGED <<mode, ring, saved>> /\ tx' = tx + 1 /\ Pending' = Pending
          /\ out' = out \/ out' = Append(out, tx + 1)
      BY <1>4, <2>2 DEF write_signal, link, backend, Pending
    <3>2. Ordered(out, tx + 1) /\ Ordered(Pending, tx + 1)
      BY <1>0, Widen DEF Ordered
    <3>3. Ordered(Append(out, tx + 1), tx + 1)
      BY <1>0, <3>2, IncreasingGrows DEF Ordered
    <3>4. QED
      BY <1>1, <2>2, <3>1, <3>2, <3>3
  <2>3. QED
    BY <2>1, <2>2
<1>5. CASE FlushSend \/ inc_socket_send_buffer_ptr
  BY <1>1, <1>5, SendStep, TakeStep
<1>6. CASE FlushStop \/ Dies \/ Poll \/ Recv
  BY <1>2, <1>6 DEF FlushStop, Dies, Poll, Recv, backend
<1>7. ASSUME NEW t \in Type, configure_from_config(t)
      PROVE  AllOrdered' /\ InOrder'
  <2>1. CASE Emptied
    BY <1>0, <1>3, <1>7, <2>1, EmptiedStep DEF configure_from_config
  <2>2. CASE UNCHANGED ring /\ mode' # "SOCKET"
    BY <1>2, <1>7, <2>2 DEF configure_from_config
  <2>3. QED
    BY <1>7, <2>1, <2>2 DEF configure_from_config, NewRing
<1>8. CASE reset
  BY <1>0, <1>3, <1>8, EmptiedStep DEF reset
<1>9. CASE Save
  <2>1. UNCHANGED <<mode, out, ring, tx>> /\ saved' = [ring |-> ring, tx |-> tx]
    BY <1>9 DEF Save, link, backend
  <2>2. /\ Pending' = Pending /\ PendingIn(saved'.ring) = Pending /\ saved'.tx = tx
    BY <2>1 DEF Pending
  <2>3. QED
    BY <1>0, <2>1, <2>2 DEF AllOrdered, InOrder, Ordered
<1>10. CASE Load
  <2>1. /\ Pending' = PendingIn(saved.ring) /\ tx' = saved.tx /\ out' = << >>
        /\ saved' = saved
    BY <1>10 DEF Load, Pending
  <2>2. << >> \o Pending' = Pending'
    BY <1>0, <2>1 DEF Ordered
  <2>3. QED
    BY <1>0, <1>1, <2>1, <2>2, EmptyIsOrdered DEF Ordered
<1>11. CASE UNCHANGED vars
  BY <1>2, <1>11 DEF vars
<1>12. QED
  BY <1>4, <1>5, <1>6, <1>7, <1>8, <1>9, <1>10, <1>11 DEF Next

LEMMA Inductive == IInv /\ [Next]_vars => IInv'
BY TypeStep, BackendStep, OrderStep DEF IInv

LEMMA EmptyAtFirst == Init => TypeOK /\ Pending = << >> /\ PendingIn(saved.ring) = << >>
<1> SUFFICES ASSUME Init
             PROVE  TypeOK /\ Pending = << >> /\ PendingIn(saved.ring) = << >>
  OBVIOUS
<1>1. ring \in Ring /\ ring.r = ring.w /\ saved = [ring |-> ring, tx |-> 0]
  BY DEF Init, Ring, Index
<1>2. << >> \in Seq(Bytes)
  OBVIOUS
<1>3. TypeOK
  <2>1. saved \in [ring : Ring, tx : 0 .. MaxBytes] /\ 0 \in 0 .. MaxBytes
    BY <1>1
  <2>2. QED
    BY <1>1, <1>2, <2>1 DEF Init, TypeOK
<1>4. PendingIn(ring) = << >>
  BY <1>1, EmptyPending DEF Ring, AnyRing
<1>5. QED
  BY <1>1, <1>3, <1>4 DEF Pending

LEMMA Initially == Init => IInv
<1> SUFFICES ASSUME Init PROVE IInv
  OBVIOUS
<1>1. TypeOK /\ Pending = << >> /\ PendingIn(saved.ring) = << >>
  BY EmptyAtFirst
<1>2. tx = 0 /\ saved.tx = 0 /\ out = << >> /\ mode = "NONE"
  BY DEF Init
<1>3. AllOrdered /\ InOrder
  BY <1>1, <1>2, EmptyIsOrdered DEF AllOrdered, InOrder, Ordered
<1>4. BackendMatches
  BY DEF Init, BackendMatches, active
<1>5. QED
  BY <1>1, <1>3, <1>4 DEF IInv

(* The indices stay in the buffer, whatever the host takes at a time. *)
THEOREM TypeCorrect == Spec => []TypeOK
<1>1. IInv => TypeOK
  BY DEF IInv
<1>2. QED
  BY <1>1, Initially, Inductive, PTL DEF Spec

(* The remembered type is the type of the backend there is, and no socket  *)
(* and no handle of an earlier one is left open, whatever the host refuses *)
(* and however a connection ends.                                          *)
THEOREM BackendIsConfigured == Spec => []BackendMatches
<1>1. IInv => BackendMatches
  BY DEF IInv
<1>2. QED
  BY <1>1, Initially, Inductive, PTL DEF Spec

(* No listener gets a byte twice or out of order, over partial sends, an   *)
(* overflowing ring, lost clients, changed ports and loaded states.        *)
THEOREM BytesInOrder == Spec => []InOrder
<1>1. IInv => InOrder
  BY DEF IInv
<1>2. QED
  BY <1>1, Initially, Inductive, PTL DEF Spec

-----------------------------------------------------------------------------
(* The ring is a queue of N - 1 bytes, step by step. *)

QueueStep ==
  \/ Queue!Put(tx') /\ tx' = tx + 1 /\ out' = out
  \/ Queue!Take /\ out' = out \o SubSeq(Pending, 1, Len(Pending) - Len(Pending'))
  \/ Queue!Clear /\ UNCHANGED <<tx, out>>
  \/ Pending' = PendingIn(saved.ring) /\ tx' = saved.tx /\ out' = << >>
  \/ Pending' = Pending /\ (mode = "SOCKET" => UNCHANGED <<tx, out>>)

LEMMA QueueSteps == IInv /\ Next => QueueStep
<1> SUFFICES ASSUME IInv, Next PROVE QueueStep
  OBVIOUS
<1>0. TypeOK
  BY DEF IInv
<1>1. CASE write_signal
  <2>1. CASE mode = "SOCKET"
    BY <1>1, <2>1, WriteStep DEF write_signal, QueueStep
  <2>2. CASE mode # "SOCKET"
    BY <1>1, <2>2 DEF write_signal, Pending, QueueStep
  <2>3. QED
    BY <2>1, <2>2
<1>2. CASE FlushSend \/ inc_socket_send_buffer_ptr
  BY <1>2, SendStep, TakeStep DEF QueueStep
<1>3. CASE FlushStop \/ Dies \/ Poll \/ Recv \/ Save
  BY <1>3 DEF FlushStop, Dies, Poll, Recv, Save, Pending, QueueStep
<1>4. ASSUME NEW t \in Type, configure_from_config(t) PROVE QueueStep
  <2>1. CASE Emptied
    BY <1>0, <1>4, <2>1, EmptiedStep
       DEF configure_from_config, Queue!Clear, QueueStep
  <2>2. CASE UNCHANGED ring
    BY <1>4, <2>2 DEF configure_from_config, Pending, QueueStep
  <2>3. QED
    BY <1>4, <2>1, <2>2 DEF configure_from_config, NewRing
<1>5. CASE reset
  BY <1>0, <1>5, EmptiedStep DEF reset, Queue!Clear, QueueStep
<1>6. CASE Load
  BY <1>6 DEF Load, Pending, QueueStep
<1>7. QED
  BY <1>1, <1>2, <1>3, <1>4, <1>5, <1>6 DEF Next

(* Each call is a Put, a Take or a Clear of a queue that drops its oldest, *)
(* a load of the saved one, or leaves it alone.                            *)
THEOREM RefinesQueue == Spec => ImplementsQueue
<1>1. Init => Queue!Init
  BY EmptyAtFirst DEF Queue!Init
<1>2. IInv /\ [Next]_vars => [QueueStep]_vars
  BY QueueSteps
<1>3. QED
  BY <1>1, <1>2, Initially, Inductive, PTL DEF Spec, ImplementsQueue, QueueStep

=============================================================================
