------------------------------ MODULE Channel ------------------------------
(***************************************************************************)
(* One direction of a connection, as both ends think of it: packets arrive *)
(* whole and in the order they were sent in; the last ones may be lost,    *)
(* when the connection ends.  Wire implements it with bytes.               *)
(***************************************************************************)
EXTENDS Naturals, Sequences

CONSTANT Packets

VARIABLES
  sent,     \* the packets sent so far
  received  \* those that have arrived

channel == <<sent, received>>

Init == sent = << >> /\ received = << >>

Send(p) ==
  /\ sent' = Append(sent, p)
  /\ UNCHANGED received

InFlight == Len(sent) - Len(received)
Arriving == sent[Len(received) + 1]

Receive ==
  /\ InFlight > 0
  /\ received' = Append(received, Arriving)
  /\ UNCHANGED sent

Next == Receive \/ \E p \in Packets : Send(p)

Spec == Init /\ [][Next]_channel
=============================================================================
