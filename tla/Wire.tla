-------------------------------- MODULE Wire --------------------------------
(***************************************************************************)
(* Packet framing over one direction of a TCP connection                   *)
(* (server/mysql_proto.hpp).  send_raw puts a header of four bytes, the    *)
(* length in three of them and a sequence number, in front of a payload,   *)
(* and hands both to send(), which may take any part of what it is given.  *)
(* recv_packet asks recv() for the header and then for as many bytes as it *)
(* says, and recv() returns any part of those that have arrived.  Either   *)
(* throws when the connection is gone, and its end closes the socket.      *)
(***************************************************************************)
EXTENDS Naturals, Sequences

CONSTANTS
  Base,       \* values of a byte: 256
  Payloads,   \* what is sent: sequences of bytes
  MaxPackets  \* bound: packets sent in a run

Bytes == 0 .. Base - 1

ASSUME BaseAssumption == Base \in Nat \ {0, 1}
\* make_text_row builds longer ones for rows of 16 MB, whose length the three
\* bytes then cut off
ASSUME PayloadsAssumption ==
  Payloads \subseteq {p \in Seq(Bytes) : Len(p) < Base * Base * Base}
ASSUME MaxPacketsAssumption == MaxPackets \in Nat

VARIABLES
  sent,      \* the packets send_raw was called for
  start,     \* ghost: where each of them begins on the wire
  done,      \* how many bytes of the last one send() has taken
  wire,      \* every byte send() has taken
  hdr,       \* recv_packet's header, as far as it has been read
  payload,   \* recv_packet's payload, as far as it has been read
  taken,     \* how many bytes recv() has returned
  received,  \* the packets recv_packet has returned
  open,      \* the ends whose socket is open
  broken     \* the connection is lost

sender == <<sent, start, done, wire>>
receiver == <<hdr, payload, taken, received>>
sockets == <<open, broken>>
vars == <<sender, receiver, sockets>>

Packets == [seq : Bytes, payload : Payloads]
Ends == {"sender", "receiver"}

Header(p) ==
  LET len == Len(p.payload)
  IN <<len % Base, (len \div Base) % Base, (len \div (Base * Base)) % Base, p.seq>>
Frame(p) == Header(p) \o p.payload

Length == hdr[1] + Base * hdr[2] + Base * Base * hdr[3]

\* the frame send_raw was last called for, and whether it has returned
Sending == IF sent = << >> THEN << >> ELSE Frame(sent[Len(sent)])
Returned == done = Len(Sending)

Init ==
  /\ sent = << >> /\ start = << >> /\ done = 0 /\ wire = << >>
  /\ hdr = << >> /\ payload = << >> /\ taken = 0 /\ received = << >>
  /\ open = Ends /\ broken = FALSE

\* send_raw is called
SendRaw(p) ==
  /\ "sender" \in open
  /\ Returned
  /\ Len(sent) < MaxPackets
  /\ sent' = Append(sent, p)
  /\ start' = Append(start, Len(wire))
  /\ done' = 0
  /\ UNCHANGED <<wire, receiver, sockets>>

\* Mutant of Rest: a part send() has not taken is given up.
RestOnce ==
  SubSeq(Sending, IF done \in 1 .. 3 THEN 5 ELSE done + 1, Len(Sending))

\* what is left of the header, or of the payload, for the next send()
Rest ==
  IF Returned THEN << >>
  ELSE SubSeq(Sending, done + 1, IF done < 4 THEN 4 ELSE Len(Sending))

\* send() takes n bytes, also when they will never arrive
SendBytes(n) ==
  /\ "sender" \in open
  /\ n \in 1 .. Len(Rest)
  /\ wire' = wire \o SubSeq(Rest, 1, n)
  /\ done' = done + n
  /\ UNCHANGED <<sent, start, receiver, sockets>>

\* send() fails and send_raw throws
SendFails ==
  /\ "sender" \in open
  /\ ~Returned
  /\ broken \/ "receiver" \notin open
  /\ open' = open \ {"sender"}
  /\ UNCHANGED <<sender, receiver, broken>>

Arrived == Len(wire) - taken

\* Mutant of Missing: recv_packet asks for one byte more than the length.
MissingOneMore ==
  IF Len(hdr) < 4 THEN 4 - Len(hdr) ELSE (Length + 1) - Len(payload)

\* what is left of the header, or of the payload, for the next recv()
Missing == IF Len(hdr) < 4 THEN 4 - Len(hdr) ELSE Length - Len(payload)

\* recv() returns n bytes
RecvBytes(n) ==
  /\ "receiver" \in open
  /\ ~broken
  /\ n \in 1 .. Missing /\ n <= Arrived
  /\ LET bytes == SubSeq(wire, taken + 1, taken + n)
     IN IF Len(hdr) < 4
        THEN hdr' = hdr \o bytes /\ UNCHANGED payload
        ELSE payload' = payload \o bytes /\ UNCHANGED hdr
  /\ taken' = taken + n
  /\ UNCHANGED <<sender, received, sockets>>

\* recv_packet returns
RecvPacket ==
  /\ "receiver" \in open
  /\ Len(hdr) = 4 /\ Missing = 0
  /\ received' = Append(received, [seq |-> hdr[4], payload |-> payload])
  /\ hdr' = << >> /\ payload' = << >>
  /\ UNCHANGED <<sender, taken, sockets>>

\* recv() returns 0 after the last byte of a socket that was closed, or an
\* error
AtEnd == broken \/ ("sender" \notin open /\ Arrived = 0)

\* Mutant of RecvFails: the end of the stream ends the payload too.
RecvShort ==
  /\ "receiver" \in open
  /\ Missing > 0 /\ AtEnd
  /\ open' = open \ {"receiver"}
  /\ received' = IF Len(hdr) < 4 THEN received
                 ELSE Append(received, [seq |-> hdr[4], payload |-> payload])
  /\ UNCHANGED <<sender, hdr, payload, taken, broken>>

\* recv_packet throws
RecvFails ==
  /\ "receiver" \in open
  /\ Missing > 0 /\ AtEnd
  /\ open' = open \ {"receiver"}
  /\ UNCHANGED <<sender, receiver, broken>>

\* an end closes its socket, or its process ends, even within a frame
Close(end) ==
  /\ end \in open
  /\ open' = open \ {end}
  /\ UNCHANGED <<sender, receiver, broken>>

\* the connection is lost, with the bytes on their way
Break ==
  /\ ~broken
  /\ broken' = TRUE
  /\ UNCHANGED <<sender, receiver, open>>

Sends == SendFails \/ \E n \in 1 .. Len(Rest) : SendBytes(n)
Recvs == RecvPacket \/ RecvFails \/ \E n \in 1 .. Missing : RecvBytes(n)

Next ==
  \/ \E p \in Packets : SendRaw(p)
  \/ Sends \/ Recvs
  \/ \E end \in Ends : Close(end)
  \/ Break

\* The loops of send_raw and recv_packet go on as long as send() and recv()
\* return.
Spec == Init /\ [][Next]_vars /\ WF_vars(Sends) /\ WF_vars(Recvs)

----------------------------------------------------------------------------
(* Properties *)

TypeOK ==
  /\ sent \in Seq(Packets) /\ start \in Seq(Nat) /\ Len(start) = Len(sent)
  /\ done \in 0 .. Len(Sending) /\ wire \in Seq(Bytes)
  /\ hdr \in Seq(Bytes) /\ payload \in Seq(Bytes) /\ taken \in Nat
  /\ received \in Seq(Packets)
  /\ open \subseteq Ends /\ broken \in BOOLEAN

\* t goes on where s ends
Begins(s, t) == Len(s) <= Len(t) /\ \A i \in 1 .. Len(s) : s[i] = t[i]

\* The frames lie on the wire one behind the other: the last one up to done,
\* the others whole.
FramesOnWire ==
  /\ Len(wire) = IF sent = << >> THEN 0 ELSE start[Len(sent)] + done
  /\ \A k \in 1 .. Len(sent) :
       /\ start[k] = IF k = 1 THEN 0 ELSE start[k - 1] + Len(Frame(sent[k - 1]))
       /\ k < Len(sent) => start[k] + Len(Frame(sent[k])) <= Len(wire)
       /\ \A i \in 1 .. Len(Frame(sent[k])) :
            start[k] + i <= Len(wire) => wire[start[k] + i] = Frame(sent[k])[i]

\* The receiver has read a part of one frame, from its first byte on; it never
\* takes a byte of one packet for a byte of another.
InFrame ==
  /\ Len(hdr) <= 4
  /\ Len(hdr) < 4 => payload = << >>
  /\ Begins(received, sent)
  /\ IF Len(received) < Len(sent)
     THEN LET k == Len(received) + 1
              got == hdr \o payload
          IN /\ taken = start[k] + Len(got)
             /\ taken <= Len(wire)
             /\ Begins(got, Frame(sent[k]))
     ELSE hdr = << >> /\ payload = << >> /\ taken = Len(wire) /\ Returned

\* However send() and recv() cut the bytes, sender and receiver agree on where
\* a packet begins.
Framed == TypeOK /\ FramesOnWire /\ InFrame

\* Every packet that is returned is one that was sent, whole and in order:
\* the bytes implement a channel of packets.
C == INSTANCE Channel
IsChannel == C!Spec

\* What was sent arrives, unless the connection or an end is lost; also what
\* was sent before the sender closes its socket.
AllArrives ==
  \A k \in 1 .. MaxPackets :
    Len(sent) >= k ~> \/ Len(received) >= k
                      \/ broken \/ "receiver" \notin open
                      \/ "sender" \notin open /\ ~Returned
=============================================================================
