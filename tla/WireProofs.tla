----------------------------- MODULE WireProofs -----------------------------
(***************************************************************************)
(* Sender and receiver of a connection agree on where packets begin, for   *)
(* every size of a byte and every payload whose length fits the header.    *)
(* The bytes therefore implement the channel of packets.                   *)
(*                                                                         *)
(* Framed is inductive as it stands.  A step of the receiver is the hard   *)
(* one: it asks for as many bytes as the header says, and stays within its *)
(* frame because the three digits of a length give the length back.        *)
(***************************************************************************)
EXTENDS Wire, SequenceTheorems, TLAPS

----------------------------------------------------------------------------
(* The header *)

\* The quotient of a division is determined by its remainder being small.
LEMMA Quotient ==
  ASSUME NEW b \in Nat \ {0}, NEW q \in Nat, NEW r \in 0 .. b - 1,
         NEW s \in Nat, NEW t \in 0 .. b - 1, b * q + r = b * s + t
  PROVE  q = s /\ r = t
<1>1. ~(q > s)
  <2> SUFFICES ASSUME q >= s + 1  PROVE FALSE  OBVIOUS
  <2>1. b * q >= b * (s + 1)  OBVIOUS
  <2> QED  BY <2>1
<1>2. ~(q < s)
  <2> SUFFICES ASSUME s >= q + 1  PROVE FALSE  OBVIOUS
  <2>1. b * s >= b * (q + 1)  OBVIOUS
  <2> QED  BY <2>1
<1> QED  BY <1>1, <1>2

LEMMA Division ==
  ASSUME NEW n \in Nat, NEW b \in Nat \ {0}
  PROVE  /\ n % b \in 0 .. b - 1 /\ n \div b \in Nat
         /\ n = b * (n \div b) + (n % b)
  OBVIOUS

\* The three digits of a number that has no more give the number back.
LEMMA Digits ==
  ASSUME NEW b \in Nat \ {0}, NEW n \in Nat, n < b * b * b
  PROVE  n = (n % b) + b * ((n \div b) % b) + b * b * ((n \div (b * b)) % b)
<1> DEFINE q == n \div b
           s == q \div b
           u == n \div (b * b)
<1>1. /\ n % b \in 0 .. b - 1 /\ q \in Nat /\ n = b * q + (n % b)
  BY Division
<1>2. /\ q % b \in 0 .. b - 1 /\ s \in Nat /\ q = b * s + (q % b)
  BY <1>1, Division
<1>3. b * b \in Nat \ {0}
  OBVIOUS
<1>4. /\ n % (b * b) \in 0 .. b * b - 1 /\ u \in Nat
      /\ n = (b * b) * u + (n % (b * b))
  BY <1>3, Division
<1> HIDE DEF q, s, u
<1>5. n = (b * b) * s + (b * (q % b) + (n % b))
  BY <1>1, <1>2
<1>6. b * (q % b) + (n % b) \in 0 .. b * b - 1
  <2>1. b * (q % b) <= b * (b - 1)  BY <1>2
  <2>2. b * (q % b) \in Nat  BY <1>2
  <2> QED  BY <1>1, <2>1, <2>2
<1>7. u = s
  BY <1>2, <1>3, <1>4, <1>5, <1>6, Quotient
<1>8. s < b
  <2> SUFFICES ASSUME s >= b  PROVE FALSE  BY <1>2
  <2>1. b * b * s >= b * b * b  BY <1>2
  <2>2. b * b * s <= n  BY <1>5, <1>6, <1>2
  <2> QED  BY <2>1, <2>2, <1>2
<1>9. s % b = s
  BY <1>2, <1>8
<1>10. n = (n % b) + b * (q % b) + b * b * (u % b)
  <2> DEFINE r == n % b
             t == q % b
  <2>1. r \in Nat /\ t \in Nat /\ s \in Nat  BY <1>1, <1>2
  <2>2. n = (b * b) * s + (b * t + r)  BY <1>5
  <2>3. u % b = s  BY <1>7, <1>9
  <2> HIDE DEF r, t
  <2>4. n = r + b * t + b * b * s  BY <2>1, <2>2
  <2> QED  BY <2>3, <2>4 DEF r, t
<1> QED  BY <1>10 DEF q, u

----------------------------------------------------------------------------
(* Frames *)

LEMMA Concatenation ==
  ASSUME NEW S, NEW s \in Seq(S), NEW t \in Seq(S)
  PROVE  /\ s \o t \in Seq(S)
         /\ Len(s \o t) = Len(s) + Len(t)
         /\ \A i \in 1 .. Len(s) : (s \o t)[i] = s[i]
         /\ \A i \in 1 .. Len(t) : (s \o t)[Len(s) + i] = t[i]
  OBVIOUS

LEMMA Part ==
  ASSUME NEW S, NEW s \in Seq(S), NEW m \in Nat, NEW n \in Nat,
         m + n <= Len(s)
  PROVE  /\ SubSeq(s, m + 1, m + n) \in Seq(S)
         /\ Len(SubSeq(s, m + 1, m + n)) = n
         /\ \A i \in 1 .. n : SubSeq(s, m + 1, m + n)[i] = s[m + i]
  OBVIOUS

\* A frame is four bytes and the payload behind them.
LEMMA FrameFacts ==
  ASSUME NEW p \in Packets
  PROVE  /\ p.payload \in Seq(Bytes) /\ Len(p.payload) \in Nat
         /\ Frame(p) \in Seq(Bytes) /\ Len(Frame(p)) = 4 + Len(p.payload)
         /\ \A i \in 1 .. 4 : Frame(p)[i] = Header(p)[i]
         /\ \A i \in 1 .. Len(p.payload) : Frame(p)[4 + i] = p.payload[i]
         /\ Header(p)[4] = p.seq
         /\ Len(p.payload) =
              Header(p)[1] + Base * Header(p)[2] + Base * Base * Header(p)[3]
<1> DEFINE len == Len(p.payload)
<1>1. p.payload \in Seq(Bytes) /\ len \in Nat /\ len < Base * Base * Base
  BY PayloadsAssumption DEF Packets
<1>2. Base \in Nat \ {0}  BY BaseAssumption
<1>3. Header(p) = <<len % Base, (len \div Base) % Base,
                    (len \div (Base * Base)) % Base, p.seq>>
  BY DEF Header
<1>4. Header(p) \in Seq(Bytes) /\ Len(Header(p)) = 4
  <2>1. \A n \in Nat : n % Base \in Bytes  BY <1>2, Division DEF Bytes
  <2>2. Base * Base \in Nat \ {0}  BY <1>2
  <2>3. len \div Base \in Nat /\ len \div (Base * Base) \in Nat
    BY <1>1, <1>2, <2>2, Division
  <2>4. p.seq \in Bytes  BY DEF Packets
  <2> QED  BY <1>1, <1>3, <2>1, <2>3, <2>4
<1>5. /\ Frame(p) \in Seq(Bytes) /\ Len(Frame(p)) = 4 + len
      /\ \A i \in 1 .. 4 : Frame(p)[i] = Header(p)[i]
      /\ \A i \in 1 .. len : Frame(p)[4 + i] = p.payload[i]
  <2>1. Header(p) \in Seq(Bytes) /\ p.payload \in Seq(Bytes)  BY <1>1, <1>4
  <2>2. Frame(p) \in Seq(Bytes)  BY <2>1 DEF Frame
  <2>3. Len(Frame(p)) = Len(Header(p)) + len  BY <2>1 DEF Frame
  <2>4. \A i \in 1 .. Len(Header(p)) : Frame(p)[i] = Header(p)[i]
    BY <2>1 DEF Frame
  <2>5. \A i \in 1 .. len : Frame(p)[Len(Header(p)) + i] = p.payload[i]
    BY <2>1 DEF Frame
  <2>6. Len(Header(p)) = 4  BY <1>4
  <2> QED  BY <2>2, <2>3, <2>4, <2>5, <2>6
<1>6. len = Header(p)[1] + Base * Header(p)[2] + Base * Base * Header(p)[3]
  <2>1. len = (len % Base) + Base * ((len \div Base) % Base)
              + Base * Base * ((len \div (Base * Base)) % Base)
    BY <1>1, <1>2, Digits
  <2> QED  BY <1>3, <2>1
<1>7. Header(p)[4] = p.seq  BY <1>3
<1> QED  BY <1>1, <1>5, <1>6, <1>7

----------------------------------------------------------------------------
(* Steps of the sender *)

\* The frame that is being sent, and the ones before it.
LEMMA SendingFacts ==
  ASSUME Framed
  PROVE  /\ sent \in Seq(Packets) /\ start \in Seq(Nat)
         /\ Len(sent) \in Nat /\ Len(start) = Len(sent)
         /\ wire \in Seq(Bytes) /\ Len(wire) \in Nat
         /\ done \in Nat
         /\ sent = << >> => Sending = << >> /\ done = 0 /\ Len(wire) = 0
         /\ sent # << >> =>
              /\ Len(sent) \in 1 .. Len(sent) /\ sent[Len(sent)] \in Packets
              /\ Sending = Frame(sent[Len(sent)])
              /\ Len(Sending) \in Nat /\ Len(Sending) >= 4
              /\ done <= Len(Sending)
              /\ start[Len(sent)] \in Nat
              /\ Len(wire) = start[Len(sent)] + done
<1> USE DEF Framed, TypeOK
<1>1. /\ sent \in Seq(Packets) /\ start \in Seq(Nat)
      /\ Len(sent) \in Nat /\ Len(start) = Len(sent)
      /\ wire \in Seq(Bytes) /\ Len(wire) \in Nat
  OBVIOUS
<1>2. CASE sent = << >>
  <2>1. Sending = << >>  BY <1>2 DEF Sending
  <2>2. done = 0  BY <2>1
  <2>3. Len(wire) = 0  BY <1>2 DEF FramesOnWire
  <2> QED  BY <1>1, <1>2, <2>1, <2>2, <2>3
<1>3. CASE sent # << >>
  <2>1. Len(sent) \in 1 .. Len(sent) /\ sent[Len(sent)] \in Packets
    BY <1>1, <1>3
  <2>2. Sending = Frame(sent[Len(sent)])  BY <1>3 DEF Sending
  <2>3. Len(Sending) \in Nat /\ Len(Sending) >= 4
    <3> DEFINE p == sent[Len(sent)]
    <3>1. Len(Frame(p)) = 4 + Len(p.payload) /\ Len(p.payload) \in Nat
      BY <2>1, FrameFacts
    <3> HIDE DEF p
    <3>2. Len(Frame(p)) \in Nat /\ Len(Frame(p)) >= 4  BY <3>1
    <3> QED  BY <2>2, <3>2 DEF p
  <2>4. done \in Nat /\ done <= Len(Sending)  BY <2>3
  <2>5. start[Len(sent)] \in Nat  BY <1>1, <2>1
  <2>6. Len(wire) = start[Len(sent)] + done  BY <1>3 DEF FramesOnWire
  <2> QED  BY <1>1, <1>3, <2>1, <2>2, <2>3, <2>4, <2>5, <2>6
<1> QED  BY <1>2, <1>3

\* A call of send_raw begins a frame where the last one ends.
LEMMA SendRawStep ==
  ASSUME Framed, NEW p \in Packets, SendRaw(p)
  PROVE  Framed'
<1> DEFINE n == Len(sent)
<1>1. /\ sent' = Append(sent, p) /\ start' = Append(start, Len(wire))
      /\ done' = 0 /\ wire' = wire /\ Returned
      /\ hdr' = hdr /\ payload' = payload /\ taken' = taken
      /\ received' = received /\ open' = open /\ broken' = broken
  BY DEF SendRaw, receiver, sockets
<1>2. /\ sent \in Seq(Packets) /\ start \in Seq(Nat) /\ n \in Nat
      /\ Len(start) = n /\ wire \in Seq(Bytes) /\ Len(wire) \in Nat
  BY SendingFacts
<1>3. /\ sent' \in Seq(Packets) /\ Len(sent') = n + 1 /\ sent' # << >>
      /\ sent'[n + 1] = p
      /\ \A k \in 1 .. n : sent'[k] = sent[k]
  BY <1>1, <1>2
<1>4. /\ start' \in Seq(Nat) /\ Len(start') = n + 1
      /\ start'[n + 1] = Len(wire)
      /\ \A k \in 1 .. n : start'[k] = start[k]
  BY <1>1, <1>2
<1>5. /\ n = 0 => Len(wire) = 0
      /\ n > 0 => Len(wire) = start[n] + Len(Frame(sent[n]))
  <2>1. CASE sent = << >>  BY <2>1, SendingFacts
  <2>2. CASE sent # << >>
    BY <1>1, <1>2, <2>2, SendingFacts DEF Returned
  <2> QED  BY <2>1, <2>2
<1>6. TypeOK'
  <2>1. Sending' = Frame(p)  BY <1>3 DEF Sending
  <2>2. done' \in 0 .. Len(Sending')  BY <1>1, <2>1, FrameFacts
  <2> QED  BY <1>1, <1>3, <1>4, <2>2 DEF Framed, TypeOK
<1>7. FramesOnWire'
  <2>1. Len(wire') = start'[Len(sent')] + done'  BY <1>1, <1>2, <1>3, <1>4
  <2>2. ASSUME NEW k \in 1 .. n
        PROVE  /\ start'[k] = IF k = 1 THEN 0
                              ELSE start'[k - 1] + Len(Frame(sent'[k - 1]))
               /\ start'[k] + Len(Frame(sent'[k])) <= Len(wire)
               /\ \A i \in 1 .. Len(Frame(sent'[k])) :
                    start'[k] + i <= Len(wire) =>
                      wire[start'[k] + i] = Frame(sent'[k])[i]
    <3>1. /\ sent'[k] = sent[k] /\ start'[k] = start[k]
          /\ k # 1 => sent'[k - 1] = sent[k - 1] /\ start'[k - 1] = start[k - 1]
      BY <1>2, <1>3, <1>4
    <3>2. /\ start[k] = IF k = 1 THEN 0
                        ELSE start[k - 1] + Len(Frame(sent[k - 1]))
          /\ k < n => start[k] + Len(Frame(sent[k])) <= Len(wire)
          /\ \A i \in 1 .. Len(Frame(sent[k])) :
               start[k] + i <= Len(wire) => wire[start[k] + i] = Frame(sent[k])[i]
      BY DEF Framed, FramesOnWire
    <3>3. k = n => start[k] + Len(Frame(sent[k])) <= Len(wire)
      BY <1>2, <1>5
    <3>4. k < n \/ k = n  BY <1>2
    <3> QED  BY <3>1, <3>2, <3>3, <3>4
  <2>3. start'[n + 1] = IF n + 1 = 1 THEN 0 ELSE start'[n] + Len(Frame(sent'[n]))
    BY <1>2, <1>3, <1>4, <1>5
  <2>4. ASSUME NEW i \in 1 .. Len(Frame(sent'[n + 1]))
        PROVE  ~(start'[n + 1] + i <= Len(wire))
    BY <1>2, <1>4
  <2>5. \A k \in 1 .. n + 1 : k \in 1 .. n \/ k = n + 1  BY <1>2
  <2>6. ASSUME NEW k \in 1 .. n + 1
        PROVE  /\ start'[k] = IF k = 1 THEN 0
                              ELSE start'[k - 1] + Len(Frame(sent'[k - 1]))
               /\ k < n + 1 => start'[k] + Len(Frame(sent'[k])) <= Len(wire)
               /\ \A i \in 1 .. Len(Frame(sent'[k])) :
                    start'[k] + i <= Len(wire) =>
                      wire[start'[k] + i] = Frame(sent'[k])[i]
    <3>1. CASE k \in 1 .. n  BY <2>2, <3>1
    <3>2. CASE k = n + 1
      <4>1. k - 1 = n /\ ~(k < n + 1)  BY <1>2, <3>2
      <4> QED  BY <2>3, <2>4, <3>2, <4>1
    <3> QED  BY <2>5, <3>1, <3>2
  <2>7. wire' = wire /\ Len(sent') = n + 1 /\ sent' # << >>  BY <1>1, <1>3
  <2> HIDE DEF n
  <2> QED  BY <2>1, <2>6, <2>7 DEF FramesOnWire
<1>8. InFrame'
  <2>1. /\ Len(hdr) <= 4 /\ (Len(hdr) < 4 => payload = << >>)
        /\ received \in Seq(Packets) /\ Len(received) \in Nat
        /\ Len(received) <= n
        /\ \A i \in 1 .. Len(received) : received[i] = sent[i]
    BY DEF Framed, InFrame, Begins, TypeOK
  <2>2. Len(received) <= Len(sent') /\ Begins(received, sent')
    BY <1>2, <1>3, <2>1 DEF Begins
  <2> DEFINE k == Len(received) + 1
             got == hdr \o payload
  <2>3. CASE Len(received) < n
    <3>1. k \in 1 .. n  BY <1>2, <2>1, <2>3
    <3>2. sent'[k] = sent[k] /\ start'[k] = start[k]  BY <1>3, <1>4, <3>1
    <3>3. /\ taken = start[k] + Len(got) /\ taken <= Len(wire)
          /\ Begins(got, Frame(sent[k]))
      BY <2>3 DEF Framed, InFrame
    <3>4. Len(received) < Len(sent')  BY <1>2, <1>3, <2>1, <2>3
    <3> QED  BY <1>1, <2>1, <2>2, <3>2, <3>3, <3>4 DEF InFrame
  <2>4. CASE ~(Len(received) < n)
    <3>1. /\ hdr = << >> /\ payload = << >> /\ taken = Len(wire)
      BY <2>4 DEF Framed, InFrame
    <3>2. k = n + 1 /\ Len(received) < Len(sent')  BY <1>2, <1>3, <2>1, <2>4
    <3>3. Len(got) = 0  BY <3>1
    <3>4. taken = start'[k] + Len(got)  BY <1>2, <1>4, <3>1, <3>2, <3>3
    <3>5. Begins(got, Frame(sent'[k]))
      <4>1. Len(Frame(p)) \in Nat  BY FrameFacts
      <4> QED  BY <1>3, <3>2, <3>3, <4>1 DEF Begins
    <3> QED  BY <1>1, <1>2, <2>1, <2>2, <3>1, <3>2, <3>4, <3>5 DEF InFrame
  <2> QED  BY <2>3, <2>4
<1> QED  BY <1>6, <1>7, <1>8 DEF Framed

\* What send() is given are the next bytes of the frame.
LEMMA RestFacts ==
  ASSUME Framed, NEW n \in 1 .. Len(Rest)
  PROVE  /\ sent # << >> /\ n \in Nat /\ n >= 1
         /\ done + n <= Len(Sending)
         /\ SubSeq(Rest, 1, n) \in Seq(Bytes)
         /\ Len(SubSeq(Rest, 1, n)) = n
         /\ \A i \in 1 .. n : SubSeq(Rest, 1, n)[i] = Sending[done + i]
<1>1. ~Returned
  <2> SUFFICES ASSUME Returned  PROVE FALSE  OBVIOUS
  <2>1. Rest = << >>  BY DEF Rest
  <2> QED  BY <2>1
<1>2. sent # << >>
  <2> SUFFICES ASSUME sent = << >>  PROVE FALSE  OBVIOUS
  <2> QED  BY <1>1, SendingFacts DEF Returned
<1>3. /\ sent[Len(sent)] \in Packets /\ Sending = Frame(sent[Len(sent)])
      /\ Len(Sending) \in Nat /\ Len(Sending) >= 4
      /\ done \in Nat /\ done <= Len(Sending)
  BY <1>2, SendingFacts
<1>4. Sending \in Seq(Bytes)  BY <1>3, FrameFacts
<1> DEFINE e == IF done < 4 THEN 4 ELSE Len(Sending)
<1>5. e \in Nat /\ e <= Len(Sending) /\ done <= e  BY <1>3
<1>6. Rest = SubSeq(Sending, done + 1, e)  BY <1>1 DEF Rest
<1> HIDE DEF e
<1>7. /\ Rest \in Seq(Bytes) /\ Len(Rest) = e - done
      /\ \A i \in 1 .. e - done : Rest[i] = Sending[done + i]
  <2>1. e = done + (e - done) /\ e - done \in Nat  BY <1>3, <1>5
  <2>2. /\ SubSeq(Sending, done + 1, done + (e - done)) \in Seq(Bytes)
        /\ Len(SubSeq(Sending, done + 1, done + (e - done))) = e - done
        /\ \A i \in 1 .. e - done :
             SubSeq(Sending, done + 1, done + (e - done))[i] = Sending[done + i]
    BY <1>3, <1>4, <1>5, <2>1, Part
  <2> QED  BY <1>6, <2>1, <2>2
<1>8. n \in Nat /\ n >= 1 /\ n <= e - done /\ n <= Len(Rest)
  BY <1>3, <1>5, <1>7
<1>9. /\ SubSeq(Rest, 1, n) \in Seq(Bytes) /\ Len(SubSeq(Rest, 1, n)) = n
      /\ \A i \in 1 .. n : SubSeq(Rest, 1, n)[i] = Rest[i]
  BY <1>7, <1>8
<1> QED  BY <1>2, <1>3, <1>5, <1>7, <1>8, <1>9

\* What send() takes is what the wire has then more of the last frame.
LEMMA SendBytesStep ==
  ASSUME Framed, NEW n \in 1 .. Len(Rest), SendBytes(n)
  PROVE  Framed'
<1> DEFINE m == Len(sent)
           part == SubSeq(Rest, 1, n)
<1>1. /\ wire' = wire \o part /\ done' = done + n
      /\ sent' = sent /\ start' = start
      /\ hdr' = hdr /\ payload' = payload /\ taken' = taken
      /\ received' = received /\ open' = open /\ broken' = broken
  BY DEF SendBytes, receiver, sockets
<1>2. /\ sent # << >> /\ n \in Nat /\ n >= 1
      /\ done + n <= Len(Sending)
      /\ part \in Seq(Bytes) /\ Len(part) = n
      /\ \A i \in 1 .. n : part[i] = Sending[done + i]
  BY RestFacts
<1>3. /\ m \in 1 .. m /\ m \in Nat /\ sent[m] \in Packets
      /\ Sending = Frame(sent[m]) /\ Len(Sending) \in Nat
      /\ done \in Nat /\ start[m] \in Nat
      /\ wire \in Seq(Bytes) /\ Len(wire) \in Nat
      /\ Len(wire) = start[m] + done
  BY <1>2, SendingFacts
<1> HIDE DEF part, m
<1>a. wire \in Seq(Bytes) /\ part \in Seq(Bytes)  BY <1>2, <1>3
<1>4. wire \o part \in Seq(Bytes)  BY <1>a
<1>5. Len(wire \o part) = Len(wire) + Len(part)  BY <1>a
<1>6. \A i \in 1 .. Len(wire) : (wire \o part)[i] = wire[i]  BY <1>a
<1>7. \A i \in 1 .. Len(part) : (wire \o part)[Len(wire) + i] = part[i]
  BY <1>a
<1> DEFINE before == Len(wire)
           after == Len(wire')
<1>b. /\ before \in Nat /\ before = start[m] + done
      /\ after = before + n
  BY <1>1, <1>2, <1>3, <1>5
<1> HIDE DEF before, after
<1>8. Sending' = Sending  BY <1>1 DEF Sending
<1>9. TypeOK'
  BY <1>1, <1>2, <1>3, <1>4, <1>8 DEF Framed, TypeOK
<1>10. FramesOnWire'
  <2>1. after = start[m] + done'  BY <1>1, <1>2, <1>3, <1>b
  <2>2. ASSUME NEW k \in 1 .. m
        PROVE  /\ start[k] = IF k = 1 THEN 0
                             ELSE start[k - 1] + Len(Frame(sent[k - 1]))
               /\ k < m => start[k] + Len(Frame(sent[k])) <= after
               /\ \A i \in 1 .. Len(Frame(sent[k])) :
                    start[k] + i <= after =>
                      wire'[start[k] + i] = Frame(sent[k])[i]
    <3> DEFINE f == Len(Frame(sent[k]))
    <3>1. /\ start[k] = IF k = 1 THEN 0
                        ELSE start[k - 1] + Len(Frame(sent[k - 1]))
          /\ k < m => start[k] + f <= before
          /\ \A i \in 1 .. f :
               start[k] + i <= before => wire[start[k] + i] = Frame(sent[k])[i]
      BY DEF Framed, FramesOnWire, m, before
    <3>2. /\ k \in Nat /\ k <= m /\ start[k] \in Nat /\ sent[k] \in Packets
      BY <1>3, SendingFacts DEF m
    <3>3. f \in Nat
      <4> DEFINE p == sent[k]
      <4>1. Len(Frame(p)) = 4 + Len(p.payload) /\ Len(p.payload) \in Nat
        BY <3>2, FrameFacts
      <4> HIDE DEF p
      <4>2. Len(Frame(p)) \in Nat  BY <4>1
      <4> QED  BY <4>2 DEF p
    <3> HIDE DEF f
    <3>5. k < m => start[k] + f <= after
      BY <1>2, <1>b, <3>1, <3>2, <3>3
    <3>6. ASSUME NEW i \in 1 .. f, start[k] + i <= after
          PROVE  wire'[start[k] + i] = Frame(sent[k])[i]
      <4>1. CASE start[k] + i <= before
        <5>1. start[k] + i \in 1 .. before  BY <1>b, <3>2, <3>3, <4>1
        <5> QED  BY <1>1, <1>6, <3>1, <4>1, <5>1 DEF before
      <4>2. CASE ~(start[k] + i <= before)
        <5>1. k = m  BY <1>3, <1>b, <3>1, <3>2, <3>3, <4>2
        <5> DEFINE j == start[m] + i - before
        <5>a. i \in Nat  BY <3>3
        <5>b. ~(start[m] + i <= before)  BY <4>2, <5>1
        <5>c. start[m] + i <= before + n  BY <1>b, <3>6, <5>1
        <5>d. /\ start[m] \in Nat /\ before \in Nat /\ done \in Nat
              /\ n \in Nat /\ before = start[m] + done
          BY <1>2, <1>3, <1>b
        <5>2. /\ j \in 1 .. n /\ start[m] + i = before + j
              /\ i = done + j
          <6> DEFINE a == start[m]
          <6>1. a + i - before \in 1 .. n
            <7>1. a \in Nat /\ before \in Nat /\ i \in Nat /\ n \in Nat
              BY <5>a, <5>d
            <7>2. ~(a + i <= before) /\ a + i <= before + n  BY <5>b, <5>c
            <7> HIDE DEF a
            <7> QED  BY <7>1, <7>2
          <6>2. a + i = before + (a + i - before)
            <7>1. a \in Nat /\ before \in Nat /\ i \in Nat  BY <5>a, <5>d
            <7> HIDE DEF a
            <7> QED  BY <7>1
          <6>3. i = done + (a + i - before)
            <7>1. a \in Nat /\ done \in Nat /\ i \in Nat /\ before = a + done
              BY <5>a, <5>d
            <7> HIDE DEF a
            <7> QED  BY <7>1
          <6> QED  BY <6>1, <6>2, <6>3
        <5> HIDE DEF j
        <5>3. (wire \o part)[before + j] = part[j]
          BY <1>2, <1>7, <5>2 DEF before
        <5>4. part[j] = Frame(sent[m])[done + j]  BY <1>2, <1>3, <5>2
        <5> QED  BY <1>1, <5>1, <5>2, <5>3, <5>4
      <4> QED  BY <4>1, <4>2
    <3> QED  BY <3>1, <3>5, <3>6 DEF f
  <2> QED  BY <1>1, <1>2, <2>1, <2>2 DEF FramesOnWire, m, after
<1>11. InFrame'
  <2>1. CASE Len(received) < m
    <3>1. taken <= before  BY <2>1 DEF Framed, InFrame, m, before
    <3>2. taken <= after
      <4>1. taken \in Nat  BY DEF Framed, TypeOK
      <4> QED  BY <1>2, <1>b, <3>1, <4>1
    <3> QED  BY <1>1, <2>1, <3>2 DEF Framed, InFrame, m, after
  <2>2. CASE ~(Len(received) < m)
    <3>1. done = Len(Sending)  BY <2>2 DEF Framed, InFrame, Returned, m
    <3> QED  BY <1>2, <1>3, <3>1
  <2> QED  BY <2>1, <2>2
<1> QED  BY <1>9, <1>10, <1>11 DEF Framed

----------------------------------------------------------------------------
(* Steps of the receiver *)

LEMMA ReceiverFacts ==
  ASSUME Framed
  PROVE  /\ wire \in Seq(Bytes) /\ Len(wire) \in Nat
         /\ hdr \in Seq(Bytes) /\ payload \in Seq(Bytes) /\ taken \in Nat
         /\ Len(received) \in Nat /\ Len(sent) \in Nat
         /\ Len(received) <= Len(sent) /\ Begins(received, sent)
         /\ Len(hdr) <= 4 /\ (Len(hdr) < 4 => payload = << >>)
<1>1. /\ wire \in Seq(Bytes) /\ hdr \in Seq(Bytes) /\ payload \in Seq(Bytes)
      /\ sent \in Seq(Packets) /\ received \in Seq(Packets) /\ taken \in Nat
  BY DEF Framed, TypeOK
<1>2. /\ Len(wire) \in Nat /\ Len(sent) \in Nat /\ Len(received) \in Nat
  BY <1>1
<1>3. /\ Begins(received, sent) /\ Len(hdr) <= 4
      /\ (Len(hdr) < 4 => payload = << >>)
  BY DEF Framed, InFrame
<1>4. Len(received) <= Len(sent)  BY <1>3 DEF Begins
<1> QED  BY <1>1, <1>2, <1>3, <1>4

\* While a frame is not read to its end, what has been read is a part of it,
\* and so is what recv_packet asks for.
LEMMA ReceivingFacts ==
  ASSUME Framed, Len(received) < Len(sent)
  PROVE  LET k == Len(received) + 1
             f == Frame(sent[k])
             got == hdr \o payload
         IN /\ k \in 1 .. Len(sent) /\ sent[k] \in Packets
            /\ start[k] \in Nat /\ Len(f) \in Nat
            /\ Len(got) = Len(hdr) + Len(payload) /\ Begins(got, f)
            /\ taken = start[k] + Len(got) /\ taken <= Len(wire)
            /\ Missing \in Nat /\ Len(got) + Missing <= Len(f)
            /\ Len(hdr) = 4 =>
                 /\ hdr[4] = sent[k].seq
                 /\ Len(got) + Missing = Len(f)
                 /\ \A i \in 1 .. Len(payload) :
                      i <= Len(sent[k].payload) /\ payload[i] = sent[k].payload[i]
<1> DEFINE k == Len(received) + 1
           p == sent[k]
           f == Frame(p)
           got == hdr \o payload
           h == Len(hdr)
           l == Len(payload)
<1>1. /\ sent \in Seq(Packets) /\ received \in Seq(Packets)
      /\ Len(received) \in Nat /\ Len(sent) \in Nat
      /\ start \in Seq(Nat) /\ Len(start) = Len(sent)
      /\ hdr \in Seq(Bytes) /\ payload \in Seq(Bytes)
  BY DEF Framed, TypeOK
<1>2. k \in 1 .. Len(sent) /\ p \in Packets /\ start[k] \in Nat
  BY <1>1
<1>3. /\ h <= 4 /\ (h < 4 => payload = << >>)
      /\ taken = start[k] + Len(got) /\ taken <= Len(wire)
      /\ Begins(got, f)
  BY DEF Framed, InFrame
<1>4. /\ Len(got) = h + l
      /\ \A i \in 1 .. h : got[i] = hdr[i]
      /\ \A i \in 1 .. l : got[h + i] = payload[i]
  BY <1>1, Concatenation
<1>5. h \in Nat /\ l \in Nat /\ (h < 4 => l = 0)  BY <1>1, <1>3
<1> DEFINE q == Len(p.payload)
<1>6. /\ q \in Nat /\ Len(f) = 4 + q
      /\ \A i \in 1 .. 4 : f[i] = Header(p)[i]
      /\ \A i \in 1 .. q : f[4 + i] = p.payload[i]
      /\ Header(p)[4] = p.seq
      /\ q = Header(p)[1] + Base * Header(p)[2] + Base * Base * Header(p)[3]
  BY <1>2, FrameFacts
<1>7. Len(got) <= Len(f) /\ \A i \in 1 .. Len(got) : got[i] = f[i]
  BY <1>3 DEF Begins
<1> HIDE DEF k, p, f, got, h, l, q
<1>8. CASE h < 4
  <2>1. Missing = 4 - h  BY <1>8 DEF Missing, h
  <2>2. /\ Missing \in Nat /\ Len(got) + Missing <= Len(f) /\ Len(f) \in Nat
    BY <1>4, <1>5, <1>6, <1>8, <2>1
  <2>3. Len(hdr) # 4  BY <1>5, <1>8 DEF h
  <2> QED  BY <1>2, <1>3, <1>4, <2>2, <2>3 DEF k, p, f, got, h, l
<1>9. CASE h = 4
  <2>1. \A i \in 1 .. 4 : i \in 1 .. Len(got)  BY <1>4, <1>5, <1>9
  <2>2. \A i \in 1 .. 4 : hdr[i] = Header(p)[i]
    BY <1>4, <1>6, <1>7, <1>9, <2>1
  <2>3. /\ hdr[1] = Header(p)[1] /\ hdr[2] = Header(p)[2]
        /\ hdr[3] = Header(p)[3] /\ hdr[4] = Header(p)[4]
    BY <2>2
  <2>4. Length = q  BY <1>6, <2>3 DEF Length
  <2>5. Missing = q - l  BY <1>9, <2>4 DEF Missing, h, l
  <2>6. h + l <= 4 + q  BY <1>4, <1>6, <1>7
  <2>7. Missing \in Nat /\ Len(got) + Missing = Len(f) /\ Len(f) \in Nat
    BY <1>4, <1>5, <1>6, <1>9, <2>5, <2>6
  <2>8. ASSUME NEW i \in 1 .. l
        PROVE  i <= q /\ payload[i] = p.payload[i]
    <3>1. i \in 1 .. q  BY <1>5, <1>6, <1>9, <2>6
    <3>2. h + i \in 1 .. Len(got)  BY <1>4, <1>5
    <3>3. got[h + i] = f[h + i]  BY <1>7, <3>2
    <3>4. f[4 + i] = p.payload[i]  BY <1>6, <3>1
    <3>5. got[h + i] = payload[i]  BY <1>4
    <3> QED  BY <1>9, <3>1, <3>3, <3>4, <3>5
  <2>9. Len(got) + Missing <= Len(f)  BY <1>6, <2>7
  <2>10. hdr[4] = p.seq  BY <1>6, <2>3
  <2> QED
    BY <1>2, <1>3, <1>4, <2>7, <2>8, <2>9, <2>10 DEF k, p, f, got, h, l, q
<1>10. h < 4 \/ h = 4
  <2>1. h <= 4  BY <1>3 DEF h
  <2> QED  BY <1>5, <2>1
<1> QED  BY <1>8, <1>9, <1>10
\* What recv() returns are the next bytes of the frame.
LEMMA RecvBytesStep ==
  ASSUME Framed, NEW n \in 1 .. Missing, RecvBytes(n)
  PROVE  Framed'
<1> DEFINE k == Len(received) + 1
           f == Frame(sent[k])
           got == hdr \o payload
           bytes == SubSeq(wire, taken + 1, taken + n)
<1>1. /\ taken' = taken + n /\ n <= Arrived
      /\ sent' = sent /\ start' = start /\ done' = done /\ wire' = wire
      /\ received' = received /\ open' = open /\ broken' = broken
      /\ IF Len(hdr) < 4 THEN hdr' = hdr \o bytes /\ payload' = payload
                         ELSE payload' = payload \o bytes /\ hdr' = hdr
  BY DEF RecvBytes, sender, sockets
<1>2. /\ wire \in Seq(Bytes) /\ Len(wire) \in Nat
      /\ hdr \in Seq(Bytes) /\ payload \in Seq(Bytes) /\ taken \in Nat
      /\ Len(received) \in Nat /\ Len(sent) \in Nat
      /\ Len(received) <= Len(sent) /\ Begins(received, sent)
      /\ Len(hdr) <= 4 /\ (Len(hdr) < 4 => payload = << >>)
  BY ReceiverFacts
<1>3. Len(received) < Len(sent)
  <2> SUFFICES ASSUME ~(Len(received) < Len(sent))  PROVE FALSE  OBVIOUS
  <2>1. hdr = << >> /\ taken = Len(wire)  BY DEF Framed, InFrame
  <2>2. Arrived = 0  BY <1>2, <2>1 DEF Arrived
  <2>3. Missing = 4  BY <2>1 DEF Missing
  <2> QED  BY <1>1, <2>2, <2>3
<1>4. /\ k \in 1 .. Len(sent) /\ start[k] \in Nat /\ Len(f) \in Nat
      /\ Len(got) = Len(hdr) + Len(payload) /\ Begins(got, f)
      /\ taken = start[k] + Len(got)
      /\ Missing \in Nat /\ Len(got) + Missing <= Len(f)
  BY <1>3, ReceivingFacts
<1>5. /\ n \in Nat /\ n >= 1 /\ n <= Missing /\ taken + n <= Len(wire)
  BY <1>1, <1>2, <1>4 DEF Arrived
<1>6. /\ bytes \in Seq(Bytes) /\ Len(bytes) = n
      /\ \A i \in 1 .. n : bytes[i] = wire[taken + i]
  BY <1>2, <1>5, Part
<1> DEFINE g == Len(got)
<1>7. g \in Nat /\ g + n <= Len(f)
  BY <1>2, <1>4, <1>5
<1> HIDE DEF k, f, bytes, g
<1>8. ASSUME NEW i \in 1 .. n
      PROVE  bytes[i] = f[g + i]
  <2>1. g + i \in 1 .. Len(f)  BY <1>4, <1>5, <1>7
  <2>2. taken + i = start[k] + (g + i)  BY <1>4, <1>5, <1>7 DEF g
  <2>3. start[k] + (g + i) <= Len(wire)  BY <1>2, <1>5, <2>2
  <2>4. wire[start[k] + (g + i)] = f[g + i]
    <3>1. \A j \in 1 .. Len(f) :
            start[k] + j <= Len(wire) => wire[start[k] + j] = f[j]
      BY <1>4 DEF Framed, FramesOnWire, f
    <3> QED  BY <2>1, <2>3, <3>1
  <2> QED  BY <1>6, <2>2, <2>4
<1>9. /\ hdr' \in Seq(Bytes) /\ payload' \in Seq(Bytes)
      /\ Len(hdr') <= 4 /\ (Len(hdr') < 4 => payload' = << >>)
      /\ Len(got') = g + n
      /\ \A i \in 1 .. g : got'[i] = got[i]
      /\ \A i \in 1 .. n : got'[g + i] = bytes[i]
  <2>1. CASE Len(hdr) < 4
    <3>1. hdr' = hdr \o bytes /\ payload = << >> /\ payload' = << >>
      BY <1>1, <1>2, <2>1
    <3>2. /\ hdr' \in Seq(Bytes) /\ Len(hdr') = Len(hdr) + n
          /\ \A i \in 1 .. Len(hdr) : hdr'[i] = hdr[i]
          /\ \A i \in 1 .. n : hdr'[Len(hdr) + i] = bytes[i]
      <4>1. hdr \in Seq(Bytes) /\ bytes \in Seq(Bytes)  BY <1>2, <1>6
      <4>2. /\ hdr \o bytes \in Seq(Bytes)
            /\ Len(hdr \o bytes) = Len(hdr) + Len(bytes)
            /\ \A i \in 1 .. Len(hdr) : (hdr \o bytes)[i] = hdr[i]
            /\ \A i \in 1 .. Len(bytes) : (hdr \o bytes)[Len(hdr) + i] = bytes[i]
        BY <4>1, Concatenation
      <4> QED  BY <1>6, <3>1, <4>2
    <3>3. n <= 4 - Len(hdr)  BY <1>5, <2>1 DEF Missing
    <3>4. Len(hdr') <= 4  BY <1>2, <1>5, <3>2, <3>3
    <3>5. got = hdr /\ got' = hdr'  BY <1>2, <3>1, <3>2
    <3> QED  BY <3>1, <3>2, <3>4, <3>5 DEF g
  <2>2. CASE ~(Len(hdr) < 4)
    <3>1. hdr' = hdr /\ payload' = payload \o bytes  BY <1>1, <2>2
    <3>2. payload' \in Seq(Bytes)  BY <1>2, <1>6, <3>1, Concatenation
    <3>3. got' = got \o bytes
      <4>1. hdr \in Seq(Bytes) /\ payload \in Seq(Bytes)
            /\ bytes \in Seq(Bytes)
        BY <1>2, <1>6
      <4>2. hdr \o (payload \o bytes) = (hdr \o payload) \o bytes
        BY <4>1, ConcatAssociative
      <4> QED  BY <3>1, <4>2
    <3>4. got \in Seq(Bytes)  BY <1>2, Concatenation
    <3> HIDE DEF got
    <3>5. /\ Len(got \o bytes) = Len(got) + Len(bytes)
          /\ \A i \in 1 .. Len(got) : (got \o bytes)[i] = got[i]
          /\ \A i \in 1 .. Len(bytes) : (got \o bytes)[Len(got) + i] = bytes[i]
      <4>1. got \in Seq(Bytes) /\ bytes \in Seq(Bytes)  BY <1>6, <3>4
      <4> QED  BY <4>1, Concatenation
    <3>6. Len(hdr') <= 4 /\ ~(Len(hdr') < 4)  BY <1>2, <2>2, <3>1
    <3>7. hdr' \in Seq(Bytes)  BY <1>2, <3>1
    <3> QED  BY <1>6, <3>2, <3>3, <3>5, <3>6, <3>7 DEF g
  <2> QED  BY <2>1, <2>2
<1>10. Begins(got', f)
  <2>1. \A i \in 1 .. g : got[i] = f[i]  BY <1>4 DEF Begins, g
  <2>2. ASSUME NEW i \in 1 .. g + n
        PROVE  got'[i] = f[i]
    <3>1. CASE i <= g
      <4>1. i \in 1 .. g  BY <1>5, <1>7, <3>1
      <4> QED  BY <1>9, <2>1, <4>1
    <3>2. CASE ~(i <= g)
      <4>1. i - g \in 1 .. n /\ g + (i - g) = i  BY <1>5, <1>7, <3>2
      <4> QED  BY <1>8, <1>9, <4>1
    <3> QED  BY <3>1, <3>2
  <2> QED  BY <1>7, <1>9, <2>2 DEF Begins
<1>11. taken' = start[k] + Len(got') /\ taken' <= Len(wire)
  <2>1. /\ taken' = taken + n /\ taken = start[k] + g /\ Len(got') = g + n
        /\ taken + n <= Len(wire)
    BY <1>1, <1>4, <1>5, <1>9 DEF g
  <2>2. start[k] \in Nat /\ g \in Nat /\ n \in Nat  BY <1>4, <1>5, <1>7
  <2> HIDE DEF got
  <2> QED  BY <2>1, <2>2
<1>12. TypeOK'
  <2>1. Sending' = Sending  BY <1>1 DEF Sending
  <2>2. taken' \in Nat  BY <1>1, <1>2, <1>5
  <2> QED  BY <1>1, <1>9, <2>1, <2>2 DEF Framed, TypeOK
<1>13. FramesOnWire'
  BY <1>1 DEF Framed, FramesOnWire
<1>14. InFrame'
  BY <1>1, <1>2, <1>3, <1>9, <1>10, <1>11 DEF InFrame, k, f
<1> QED  BY <1>12, <1>13, <1>14 DEF Framed
\* What recv_packet returns is the packet that was sent, so the step is one of
\* the channel.
LEMMA RecvPacketStep ==
  ASSUME Framed, RecvPacket
  PROVE  Framed' /\ C!Receive
<1> DEFINE n == Len(received)
           k == n + 1
           p == sent[k]
<1>1. /\ Len(hdr) = 4 /\ Missing = 0
      /\ received' = Append(received, [seq |-> hdr[4], payload |-> payload])
      /\ hdr' = << >> /\ payload' = << >> /\ taken' = taken
      /\ sent' = sent /\ start' = start /\ done' = done /\ wire' = wire
      /\ open' = open /\ broken' = broken
  BY DEF RecvPacket, sender, sockets
<1>2. /\ wire \in Seq(Bytes) /\ Len(wire) \in Nat
      /\ hdr \in Seq(Bytes) /\ payload \in Seq(Bytes) /\ taken \in Nat
      /\ n \in Nat /\ Len(sent) \in Nat /\ n <= Len(sent)
      /\ Begins(received, sent)
  BY ReceiverFacts
<1>3. n < Len(sent)
  <2> SUFFICES ASSUME ~(n < Len(sent))  PROVE FALSE  OBVIOUS
  <2>1. hdr = << >>  BY DEF Framed, InFrame
  <2> QED  BY <1>1, <2>1
<1>4. /\ k \in 1 .. Len(sent) /\ p \in Packets
      /\ start[k] \in Nat /\ Len(Frame(p)) \in Nat
      /\ Len(hdr \o payload) = Len(Frame(p))
      /\ taken = start[k] + Len(Frame(p)) /\ taken <= Len(wire)
      /\ hdr[4] = p.seq
      /\ \A i \in 1 .. Len(payload) :
           i <= Len(p.payload) /\ payload[i] = p.payload[i]
  <2>1. LET got == hdr \o payload
        IN /\ k \in 1 .. Len(sent) /\ p \in Packets
           /\ start[k] \in Nat /\ Len(Frame(p)) \in Nat
           /\ taken = start[k] + Len(got) /\ taken <= Len(wire)
           /\ Len(got) + Missing = Len(Frame(p)) /\ Len(got) \in Nat
           /\ hdr[4] = p.seq
           /\ \A i \in 1 .. Len(payload) :
                i <= Len(p.payload) /\ payload[i] = p.payload[i]
    <3>1. Len(hdr \o payload) = Len(hdr) + Len(payload)
      BY <1>2, Concatenation
    <3>2. Len(hdr) + Len(payload) \in Nat  BY <1>2
    <3> QED  BY <1>1, <1>3, <3>1, <3>2, ReceivingFacts
  <2> DEFINE g == Len(hdr \o payload)
  <2>2. g \in Nat /\ g + Missing = Len(Frame(p)) /\ taken = start[k] + g
    BY <2>1
  <2> HIDE DEF g
  <2>3. g = Len(Frame(p))  BY <1>1, <2>2
  <2> QED  BY <2>1, <2>2, <2>3 DEF g
<1>5. payload = p.payload
  <2>1. /\ p.payload \in Seq(Bytes) /\ Len(p.payload) \in Nat
        /\ Len(Frame(p)) = 4 + Len(p.payload)
    BY <1>4, FrameFacts
  <2>2. Len(hdr \o payload) = Len(hdr) + Len(payload)  BY <1>2, Concatenation
  <2>3. Len(payload) \in Nat  BY <1>2
  <2>4. Len(payload) = Len(p.payload)  BY <1>1, <1>4, <2>1, <2>2, <2>3
  <2> QED  BY <1>2, <1>4, <2>1, <2>4, SeqEqual
<1>6. [seq |-> hdr[4], payload |-> payload] = p
  BY <1>4, <1>5 DEF Packets
<1> HIDE DEF p
<1>7. /\ received' = Append(received, p)
      /\ received' \in Seq(Packets) /\ Len(received') = n + 1
      /\ received'[n + 1] = p
      /\ \A i \in 1 .. n : received'[i] = received[i]
  <2>1. received \in Seq(Packets)  BY DEF Framed, TypeOK
  <2> QED  BY <1>1, <1>4, <1>6, <2>1
<1>8. Begins(received', sent')
  <2>1. \A i \in 1 .. n : received[i] = sent[i]  BY <1>2 DEF Begins
  <2>2. ASSUME NEW i \in 1 .. n + 1  PROVE received'[i] = sent[i]
    <3>1. i \in 1 .. n \/ i = n + 1  BY <1>2
    <3> QED  BY <1>7, <2>1, <3>1 DEF p
  <2>3. n + 1 <= Len(sent)  BY <1>2, <1>3
  <2> QED  BY <1>1, <1>7, <2>2, <2>3 DEF Begins
<1>9. TypeOK'
  <2>1. Sending' = Sending  BY <1>1 DEF Sending
  <2>2. hdr' \in Seq(Bytes) /\ payload' \in Seq(Bytes)  BY <1>1
  <2> QED  BY <1>1, <1>2, <1>7, <2>1, <2>2 DEF Framed, TypeOK
<1>10. FramesOnWire'
  BY <1>1 DEF Framed, FramesOnWire
<1>11. InFrame'
  <2>1. /\ Len(hdr') <= 4 /\ payload' = << >> /\ hdr' = << >>
        /\ Len(hdr' \o payload') = 0
    BY <1>1
  <2>2. CASE k < Len(sent)
    <3>1. k + 1 \in 1 .. Len(sent) /\ k + 1 # 1 /\ (k + 1) - 1 = k
      BY <1>2, <2>2
    <3>2. start[k + 1] = start[k] + Len(Frame(p))
      BY <3>1 DEF Framed, FramesOnWire, p
    <3>3. taken' = start[k + 1] + 0 /\ taken' <= Len(wire')
      BY <1>1, <1>4, <3>2
    <3>4. Begins(hdr' \o payload', Frame(sent'[k + 1]))
      <4>1. sent[k + 1] \in Packets  BY <3>1 DEF Framed, TypeOK
      <4>2. Len(Frame(sent[k + 1])) \in Nat
        <5> DEFINE q == sent[k + 1]
        <5>1. Len(Frame(q)) = 4 + Len(q.payload) /\ Len(q.payload) \in Nat
          BY <4>1, FrameFacts
        <5> HIDE DEF q
        <5>2. Len(Frame(q)) \in Nat  BY <5>1
        <5> QED  BY <5>2 DEF q
      <4> QED  BY <1>1, <2>1, <4>2 DEF Begins
    <3> QED  BY <1>1, <1>7, <1>8, <2>1, <2>2, <3>3, <3>4 DEF InFrame
  <2>3. CASE ~(k < Len(sent))
    <3>1. k = Len(sent) /\ sent # << >>  BY <1>2, <1>3, <2>3
    <3>2. /\ Sending = Frame(p) /\ done \in Nat /\ done <= Len(Frame(p))
          /\ Len(wire) = start[k] + done
      BY <3>1, SendingFacts DEF p
    <3>3. done = Len(Frame(p))
      <4> DEFINE l == Len(Frame(p))
                 b == start[k]
                 w == Len(wire)
      <4>1. l \in Nat /\ b \in Nat /\ b + l <= w  BY <1>4
      <4>2. done \in Nat /\ done <= l /\ w = b + done  BY <3>2
      <4> HIDE DEF l, b, w
      <4>3. done = l  BY <4>1, <4>2
      <4> QED  BY <4>3 DEF l
    <3>4. taken' = Len(wire') /\ done' = Len(Sending')
      <4>1. Sending' = Sending  BY <1>1 DEF Sending
      <4> QED  BY <1>1, <1>4, <3>2, <3>3, <4>1
    <3> QED
      BY <1>1, <1>7, <1>8, <2>1, <3>1, <3>4 DEF InFrame, Returned
  <2> QED  BY <2>2, <2>3
<1>12. C!Receive
  BY <1>1, <1>2, <1>3, <1>7 DEF C!Receive, C!InFlight, C!Arriving, p
<1> QED  BY <1>9, <1>10, <1>11, <1>12 DEF Framed

\* No other step touches the bytes.
LEMMA QuietStep ==
  ASSUME Framed, open' \subseteq open, broken' \in BOOLEAN,
         UNCHANGED <<sender, receiver>>
  PROVE  Framed'
<1>1. /\ sent' = sent /\ start' = start /\ done' = done /\ wire' = wire
      /\ hdr' = hdr /\ payload' = payload /\ taken' = taken
      /\ received' = received
  BY DEF sender, receiver
<1>2. Sending' = Sending  BY <1>1 DEF Sending
<1>3. TypeOK'  BY <1>1, <1>2 DEF Framed, TypeOK
<1>4. FramesOnWire'  BY <1>1 DEF Framed, FramesOnWire
<1>5. InFrame'
  <2>1. Returned' = Returned  BY <1>1, <1>2 DEF Returned
  <2> QED  BY <1>1, <2>1 DEF Framed, InFrame
<1> QED  BY <1>3, <1>4, <1>5 DEF Framed

----------------------------------------------------------------------------
(* The theorems *)

LEMMA InitIsFramed == Init => Framed
<1> SUFFICES ASSUME Init  PROVE Framed  OBVIOUS
<1> USE DEF Init
<1>1. sent = << >> /\ Sending = << >> /\ Len(sent) = 0 /\ Len(received) = 0
  BY DEF Sending
<1>2. TypeOK
  <2>1. \A S : << >> \in Seq(S)  OBVIOUS
  <2>2. Len(start) = Len(sent) /\ done \in 0 .. Len(Sending)  BY <1>1
  <2> QED  BY <2>1, <2>2 DEF TypeOK
<1>3. FramesOnWire  BY <1>1 DEF FramesOnWire
<1>4. InFrame  BY <1>1 DEF InFrame, Begins, Returned
<1> QED  BY <1>2, <1>3, <1>4 DEF Framed

\* Every step keeps the frames apart, and is a step of the channel or none.
LEMMA NextStep ==
  ASSUME Framed, [Next]_vars
  PROVE  Framed' /\ [C!Next]_(C!channel)
<1>1. ASSUME NEW p \in Packets, SendRaw(p)
      PROVE  Framed' /\ C!Send(p)
  BY <1>1, SendRawStep DEF SendRaw, C!Send, receiver
<1>2. ASSUME NEW n \in 1 .. Len(Rest), SendBytes(n)
      PROVE  Framed' /\ UNCHANGED C!channel
  BY <1>2, SendBytesStep DEF SendBytes, receiver, C!channel
<1>3. ASSUME NEW n \in 1 .. Missing, RecvBytes(n)
      PROVE  Framed' /\ UNCHANGED C!channel
  BY <1>3, RecvBytesStep DEF RecvBytes, sender, C!channel
<1>4. ASSUME RecvPacket
      PROVE  Framed' /\ C!Receive
  BY <1>4, RecvPacketStep
<1>5. ASSUME \/ SendFails \/ RecvFails \/ Break \/ UNCHANGED vars
             \/ \E end \in Ends : Close(end)
      PROVE  Framed' /\ UNCHANGED C!channel
  <2>1. broken \in BOOLEAN  BY DEF Framed, TypeOK
  <2>2. /\ open' \subseteq open /\ broken' \in BOOLEAN
        /\ UNCHANGED <<sender, receiver>>
    BY <1>5, <2>1
    DEF SendFails, RecvFails, Break, Close, vars, sockets
  <2>3. Framed'  BY <2>2, QuietStep
  <2> QED  BY <2>2, <2>3 DEF sender, receiver, C!channel
<1>6. \/ \E p \in Packets : SendRaw(p)
      \/ \E n \in 1 .. Len(Rest) : SendBytes(n)
      \/ \E n \in 1 .. Missing : RecvBytes(n)
      \/ RecvPacket
      \/ SendFails \/ RecvFails \/ Break \/ UNCHANGED vars
      \/ \E end \in Ends : Close(end)
  BY DEF Next, Sends, Recvs
<1> QED  BY <1>1, <1>2, <1>3, <1>4, <1>5, <1>6 DEF C!Next

\* Whatever send() and recv() make of the bytes, and whenever a socket is
\* closed or the connection lost, sender and receiver agree on where a packet
\* begins.
THEOREM FramedIsSafe == Spec => []Framed
<1>1. Framed /\ [Next]_vars => Framed'
  BY NextStep
<1> QED  BY InitIsFramed, <1>1, PTL DEF Spec

\* Bytes implement the channel of packets: what recv_packet returns is what
\* send_raw was called for, whole and in order.
THEOREM WireIsChannel == Spec => IsChannel
<1>1. Init => C!Init
  BY DEF Init, C!Init
<1>2. Framed /\ [Next]_vars => [C!Next]_(C!channel)
  BY NextStep
<1> QED  BY <1>1, <1>2, FramedIsSafe, PTL DEF Spec, IsChannel, C!Spec
=============================================================================
