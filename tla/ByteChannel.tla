---------------------------- MODULE ByteChannel ----------------------------
(***************************************************************************)
(* What the console link promises its user: a reliable ordered channel of  *)
(* small capacity.  sent is what the main program has put on the wire      *)
(* since power-on or the last reset, got what the sub CPU has acted on.    *)
(***************************************************************************)
EXTENDS Naturals, Sequences

CONSTANTS
  Payload,    \* the bytes that carry something to display
  Capacity    \* how many may be under way at once

VARIABLES sent, got

chan == <<sent, got>>

Init == sent = << >> /\ got = << >>

Put(b) ==
  /\ Len(sent) - Len(got) < Capacity
  /\ sent' = Append(sent, b)
  /\ UNCHANGED got

Get ==
  /\ Len(got) < Len(sent)
  /\ got' = Append(got, sent[Len(got) + 1])
  /\ UNCHANGED sent

Reset == sent' = << >> /\ got' = << >>

Next == (\E b \in Payload : Put(b)) \/ Get \/ Reset

Safe == Init /\ [][Next]_chan

(* A byte under way is taken unless a reset empties the channel. *)
Fair == Safe /\ WF_chan(Get)

=============================================================================
