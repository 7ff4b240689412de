------------------------------- MODULE Serial -------------------------------
(***************************************************************************)
(* The host side of SIO channel A (serial.cpp): a TCP server for one       *)
(* client, or a COM port.  Bytes for the client wait in a ring; it is      *)
(* flushed after every byte and on every poll.  One thread runs all of it, *)
(* so a call ends before the next begins; pc says where the thread is when *)
(* a call is cut at the socket functions, whose outcomes are the host's    *)
(* and the client's.  The front end may take bytes from the ring as well,  *)
(* through the machine's own interface.                                    *)
(***************************************************************************)
EXTENDS Naturals, Sequences

CONSTANTS
  N,          \* sizeof(socket_send_buffer); 1024
  Type,       \* values of config.serial_type
  Kind,       \* Kind[t]: "off", "com" or "tcp", as kSerialSpecs says
  MaxBytes    \* bound: bytes the SIO sends

ASSUME SizeIsPos == N \in Nat /\ N > 1
ASSUME KindsOfTypes == Kind \in [Type -> {"off", "com", "tcp"}]
ASSUME MaxBytesIsNat == MaxBytes \in Nat

NoType == "-1"
ASSUME NoTypeIsNone == NoType \notin Type

VARIABLES
  mode, configured_type,
  listening,  \* is listen_socket open?
  com_handle, \* is it open?
  client,     \* at active_socket: "none", "live", or "dead" once the host has
              \* found the connection broken
  ring,       \* buf: socket_send_buffer, r: socket_send_r, w: socket_send_w
  pc,         \* "idle", or the next thing the call does
  back,       \* where a flush goes on
  tx,         \* history: bytes the SIO has sent; the n-th one is n
  out,        \* history: what reached clients and the COM port, in order,
              \* since the machine has been set back
  saved       \* the file: the ring, and how far the SIO was

vars == <<mode, configured_type, listening, com_handle, client, ring,
          pc, back, tx, out, saved>>
backend == <<mode, configured_type, listening, com_handle>>
link == <<backend, client>>

active == client # "none"

Index == 0 .. (N - 1)
Bytes == 1 .. MaxBytes

-----------------------------------------------------------------------------
(* The ring.                                                               *)

EnqueueNoDrop(b) ==
  ring' = [buf |-> [ring.buf EXCEPT ![ring.w] = b],
           w |-> (ring.w + 1) % N, r |-> ring.r]

(* One slot stays free, or full and empty would look alike. *)
enqueue_socket_send(b) ==
  LET next_w == (ring.w + 1) % N
  IN  ring' = [buf |-> [ring.buf EXCEPT ![ring.w] = b],
               w |-> next_w,
               r |-> IF next_w = ring.r THEN (ring.r + 1) % N ELSE ring.r]

Empty == ring.r = ring.w
Emptied == ring' = [ring EXCEPT !.r = 0, !.w = 0]

(* The part that lies in one piece. *)
available == IF ring.w >= ring.r THEN ring.w - ring.r ELSE N - ring.r

PendingIn(rg) ==
  [i \in 1 .. ((rg.w + N - rg.r) % N) |-> rg.buf[(rg.r + i - 1) % N]]
Pending == PendingIn(ring)

-----------------------------------------------------------------------------
(* Calls.                                                                  *)

Flush(where) == pc' = "flush" /\ back' = where

(* SIG_SERIAL_SIOA_TX: the SIO has sent a byte.  A COM port that does not  *)
(* take it in time loses it.                                               *)
write_signal ==
  /\ pc = "idle" /\ tx < MaxBytes
  /\ tx' = tx + 1
  /\ \/ mode = "SOCKET" /\ enqueue_socket_send(tx') /\ Flush("idle")
        /\ UNCHANGED out
     \/ mode = "COM" /\ out' \in {Append(out, tx'), out} /\ UNCHANGED <<ring, pc, back>>
     \/ mode = "NONE" /\ UNCHANGED <<ring, pc, back, out>>
  /\ UNCHANGED <<link, saved>>

HandOnPastEnd ==
  \E sent \in 1 .. available :
    /\ out' = out \o SubSeq(Pending, 1, sent)
    /\ ring' = [ring EXCEPT !.r = @ + sent]

(* Part of the piece is taken from the front of the ring.                  *)
HandOn ==
  \E sent \in 1 .. available :
    /\ out' = out \o SubSeq(Pending, 1, sent)
    /\ ring' = [ring EXCEPT !.r = (@ + sent) % N]

(* flush_socket_send, one send of its loop that the host takes.            *)
FlushSend ==
  /\ pc = "flush" /\ client = "live" /\ ~Empty
  /\ HandOn
  /\ UNCHANGED <<link, pc, back, tx, saved>>

(* The end of its loop: nothing to send, nobody to send to, the host has   *)
(* no room, or it says that the connection is broken.                      *)
FlushStop ==
  /\ pc = "flush" /\ pc' = back
  /\ \/ (Empty \/ client # "dead") /\ UNCHANGED client
     \/ active /\ ~Empty /\ client' = "none"
  /\ UNCHANGED <<backend, ring, back, tx, out, saved>>

(* get_socket_send_buffer and inc_socket_send_buffer_ptr: what the front   *)
(* end has sent itself.                                                    *)
inc_socket_send_buffer_ptr ==
  /\ pc = "idle" /\ mode = "SOCKET" /\ ~Empty
  /\ HandOn
  /\ UNCHANGED <<link, pc, back, tx, saved>>

(* The connection breaks.                                                  *)
Dies ==
  /\ client = "live" /\ client' = "dead"
  /\ UNCHANGED <<backend, ring, pc, back, tx, out, saved>>

(* The timer.  A client that waits is accepted, and gets what has piled    *)
(* up.                                                                     *)
Poll ==
  /\ pc = "idle" /\ mode = "SOCKET"
  /\ \/ ~active /\ listening /\ client' = "live" /\ Flush("recv")
     \/ active /\ pc' = "recv" /\ UNCHANGED <<client, back>>
  /\ UNCHANGED <<backend, ring, tx, out, saved>>

RecvNoFlush ==
  /\ pc = "recv" /\ pc' = "idle"
  /\ UNCHANGED client \/ client' = "none"
  /\ UNCHANGED <<backend, ring, back, tx, out, saved>>

(* recv: bytes for the SIO, nothing, an error that is passed over, or the  *)
(* end of the connection; then a flush, which looks at the connection      *)
(* again.                                                                  *)
Recv ==
  /\ pc = "recv"
  /\ IF active
       THEN (UNCHANGED client \/ client' = "none") /\ Flush("idle")
       ELSE pc' = "idle" /\ UNCHANGED <<client, back>>
  /\ UNCHANGED <<backend, ring, tx, out, saved>>

OldRing == UNCHANGED ring

(* configure_socket starts with an empty ring. *)
NewRing == Emptied

ModeNoneFirst == UNCHANGED client

(* close_backend: only in socket mode does it look after the sockets.      *)
CloseClient == client' = IF mode = "SOCKET" THEN "none" ELSE client
StillListening == listening /\ mode # "SOCKET"

(* close_backend, then the new one, which the host may refuse: then the    *)
(* type is forgotten, or it would not be tried again.                      *)
configure_from_config(t) ==
  /\ pc = "idle" /\ t # configured_type
  /\ CloseClient
  /\ \/ /\ Kind[t] = "off"
        /\ mode' = "NONE" /\ configured_type' = t
        /\ listening' = StillListening /\ com_handle' = FALSE /\ UNCHANGED ring
     \/ /\ Kind[t] # "off"
        /\ mode' = "NONE" /\ configured_type' = NoType
        /\ listening' = (StillListening /\ Kind[t] = "com")
        /\ com_handle' = FALSE /\ UNCHANGED ring
     \/ /\ Kind[t] = "com"
        /\ mode' = "COM" /\ configured_type' = t
        /\ listening' = StillListening /\ com_handle' = TRUE /\ UNCHANGED ring
     \/ /\ Kind[t] = "tcp"
        /\ mode' = "SOCKET" /\ configured_type' = t
        /\ listening' = TRUE /\ com_handle' = FALSE /\ NewRing
  /\ UNCHANGED <<pc, back, tx, out, saved>>

(* The reset button leaves the connection alone. *)
reset ==
  /\ pc = "idle"
  /\ Emptied
  /\ UNCHANGED <<link, pc, back, tx, out, saved>>

(* process_state.  The machine and with it the SIO is set back; the         *)
(* connection, the port type and what listeners have got are not.          *)
Save ==
  /\ pc = "idle"
  /\ saved' = [ring |-> ring, tx |-> tx]
  /\ UNCHANGED <<link, ring, pc, back, tx, out>>

Load ==
  /\ pc = "idle"
  /\ ring' = saved.ring
  /\ tx' = saved.tx /\ out' = << >>
  /\ UNCHANGED <<link, pc, back, saved>>

Init ==
  /\ mode = "NONE" /\ configured_type = NoType
  /\ listening = FALSE /\ com_handle = FALSE /\ client = "none"
  /\ ring = [buf |-> [i \in Index |-> 0], r |-> 0, w |-> 0]
  /\ pc = "idle" /\ back = "idle"
  /\ tx = 0 /\ out = << >>
  /\ saved = [ring |-> ring, tx |-> 0]

Next ==
  \/ write_signal \/ FlushSend \/ FlushStop \/ Poll \/ Recv
  \/ inc_socket_send_buffer_ptr \/ Dies
  \/ (\E t \in Type : configure_from_config(t))
  \/ reset
  \/ Save \/ Load

(* The timer runs as long as the machine does, and serves the client that  *)
(* is there; a call ends; and a client that stays connected reads, so that *)
(* again and again the host has room.                                      *)
Fairness ==
  /\ WF_vars(active /\ Poll) /\ WF_vars(Recv) /\ WF_vars(FlushStop)
  /\ SF_vars(FlushSend)

Spec == Init /\ [][Next]_vars /\ Fairness

-----------------------------------------------------------------------------
(* Properties.                                                             *)

Ring == [buf : [Index -> 0 .. MaxBytes], r : Index, w : Index]

(* The ring's indices stay in the buffer, whatever the host takes at a     *)
(* time (lines 296-304, 326).                                              *)
TypeOK ==
  /\ mode \in {"NONE", "SOCKET", "COM"}
  /\ configured_type \in Type \union {NoType}
  /\ listening \in BOOLEAN /\ com_handle \in BOOLEAN
  /\ client \in {"none", "live", "dead"}
  /\ ring \in Ring /\ saved \in [ring : Ring, tx : 0 .. MaxBytes]
  /\ pc \in {"idle", "flush", "recv"} /\ back \in {"idle", "recv"}
  /\ tx \in 0 .. MaxBytes /\ out \in Seq(Bytes)

ModeOf(t) ==
  CASE Kind[t] = "off" -> "NONE" [] Kind[t] = "com" -> "COM" [] Kind[t] = "tcp" -> "SOCKET"

(* The type that configure_from_config remembers, and returns early for,   *)
(* is the type of the backend there is; a refused one is not remembered.   *)
(* And only what this backend uses is open: no socket and no handle of an  *)
(* earlier one is left behind, with a client that nobody serves and a port *)
(* that cannot be bound again, although close_backend closes the sockets   *)
(* only in socket mode.                                                    *)
BackendMatches ==
  /\ mode = IF configured_type = NoType THEN "NONE" ELSE ModeOf(configured_type)
  /\ listening <=> mode = "SOCKET"
  /\ com_handle <=> mode = "COM"
  /\ active => mode = "SOCKET"

Increasing(s) == \A i \in 1 .. Len(s) : \A j \in 1 .. i - 1 : s[j] < s[i]

(* No byte reaches a listener twice or out of order, over partial sends,   *)
(* overflows, lost clients, and a change of the backend in between: bytes  *)
(* left from a socket never follow what a COM port was sent later.  After  *)
(* a load this holds for what is sent from then on, whatever was saved and *)
(* however much had been sent since.                                       *)
InOrder ==
  /\ Increasing(out)
  /\ mode = "SOCKET" => Increasing(out \o Pending)

(* The ring with its two indices is a queue of N - 1 bytes: a byte from    *)
(* the SIO goes in and pushes out the oldest only when the queue is full,  *)
(* and what a send takes from the front is what the host took.             *)
Queue == INSTANCE DropOldest
  WITH q <- Pending, Item <- Bytes, Capacity <- N - 1, MaxTake <- N - 1
ImplementsQueue ==
  Queue!Init /\
  [][ \/ Queue!Put(tx') /\ tx' = tx + 1 /\ out' = out
      \/ Queue!Take /\ out' = out \o SubSeq(Pending, 1, Len(Pending) - Len(Pending'))
      \/ Queue!Clear /\ UNCHANGED <<tx, out>>
      \/ Pending' = PendingIn(saved.ring) /\ tx' = saved.tx /\ out' = << >>
      \/ Pending' = Pending /\ (mode = "SOCKET" => UNCHANGED <<tx, out>>) ]_vars

(* Bytes that found no room when they were written go out later without    *)
(* another write to push them, unless the machine is set back again and    *)
(* again: the poll flushes too, and it does for bytes a load has brought   *)
(* back.  And if the connection is broken and recv passes over the error,  *)
(* the same bytes get the client dropped, so that another is accepted.     *)
LeftoversGoOut ==
  []<><<Load>>_vars \/ (active /\ ~Empty ~> Empty \/ ~active)

=============================================================================
