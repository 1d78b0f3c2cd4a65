--------------------------- MODULE SessionProofs ---------------------------
(***************************************************************************)
(* A client always knows what it is reading, it is told what became of its *)
(* commands in their order, and it can tell which of its writes were run:  *)
(* for every result, every number of columns and rows, and sequence        *)
(* numbers that wrap anywhere.                                             *)
(*                                                                         *)
(* What the server has sent and has yet to send is the greeting, the OK    *)
(* and the replies to the outcomes so far, one behind the other.  The      *)
(* invariant names the place where each reply starts (start), which the    *)
(* specification does not keep: it says that there are such places.  The   *)
(* packets sent are what the replies have at these places, the server is   *)
(* in the last reply, and the client in the one after its last answer, at  *)
(* the packet that what it waits for stands for.                           *)
(***************************************************************************)
EXTENDS Session, SequenceTheorems, TLAPS

----------------------------------------------------------------------------
(* The inductive invariant *)

Asked == [seq : {0, 1}, payload : Commands \cup {Auth}]
PayloadType == [head : Nat, size : Nat, n : Nat]
OutcomeType == [kind : {"ok", "err", "rows"}, cols : Nat, rows : Seq(Nat)]

\* The types of the variables; a rows reply has a column.
Typed ==
  /\ upSent \in Seq(Asked) /\ upReceived \in Seq(Asked)
  /\ downSent \in Seq(Down) /\ downReceived \in Seq(Down)
  /\ seq \in 0 .. SeqMod - 1 /\ reply \in Seq(PayloadType)
  /\ command \in Commands \cup {Auth}
  /\ handled \in Seq(OutcomeType) /\ answers \in Seq(OutcomeType)
  /\ in_try \in BOOLEAN /\ failed \in BOOLEAN /\ gone \in BOOLEAN

\* The client's packets: Auth, and then commands.
Carried ==
  /\ \A i \in 1 .. Len(upSent) :
       IF i = 1 THEN upSent[i] = [seq |-> 1, payload |-> Auth]
       ELSE upSent[i].seq = 0 /\ upSent[i].payload \in Commands
  /\ Len(upReceived) <= Len(upSent)

\* Each outcome so far is one of the command it is the outcome of, and ghost
\* executed has those of statements.
Dispatched ==
  /\ \A k \in 1 .. Len(handled) :
       k < Len(upReceived) /\ handled[k] \in Replies(upSent[k + 1].payload)
  /\ \A k \in Nat :
       k \in executed <=> /\ k \in 1 .. Len(handled)
                          /\ IsStmt(upSent[k + 1].payload)

Size(k) == Len(Payloads(handled[k]))

\* The replies lie one behind the other, start[k] packets before the k-th, and
\* what has been sent of them has the numbers that follow that of the command.
Laid(start) ==
  /\ start \in [1 .. Len(handled) + 1 -> Nat] /\ start[1] = 2
  /\ \A k \in 1 .. Len(handled) : start[k + 1] = start[k] + Size(k)
  /\ \A k, l \in 1 .. Len(handled) + 1 : k <= l => start[k] <= start[l]
  /\ Len(downSent) <= start[Len(handled) + 1]
  /\ Len(downSent) >= 1 => downSent[1] = [seq |-> 0, payload |-> make_handshake_v10]
  /\ Len(downSent) >= 2 => downSent[2] = [seq |-> 2 % SeqMod, payload |-> make_ok]
  /\ \A k \in 1 .. Len(handled) : \A j \in 1 .. Size(k) :
       start[k] + j <= Len(downSent) =>
         downSent[start[k] + j] = [seq |-> j % SeqMod,
                                   payload |-> Payloads(handled[k])[j]]

\* The server sends what is left of the last reply; between two commands there
\* is nothing left of it.  A send can fail only when the client is gone.
Serving(start) ==
  LET last == Len(handled)
      rest == Len(downSent) - start[last]
  IN /\ upReceived = << >> => Len(downSent) <= 1
     /\ failed => gone
     /\ pc \in {"accept", "greet", "auth", "welcome"} =>
          ~in_try /\ ~failed /\ handled = << >>
     /\ pc \in {"accept", "greet", "auth"} => upReceived = << >>
     /\ pc = "accept" => downSent = << >>
     /\ pc = "greet" => downSent = << >> /\ seq = 0 /\ reply = <<make_handshake_v10>>
     /\ pc = "auth" => Len(downSent) = 1
     /\ pc = "welcome" => /\ Len(downSent) = 1 /\ Len(upReceived) = 1
                          /\ seq = 2 % SeqMod /\ reply = <<make_ok>>
     /\ pc \in {"command", "dispatch"} =>
          ~failed /\ Len(downSent) = start[last + 1]
     /\ pc = "command" => Len(upReceived) = last + 1
     /\ pc = "dispatch" => /\ Len(upReceived) = last + 2
                           /\ command = upSent[last + 2].payload
                           /\ seq = 1 % SeqMod
     /\ pc = "answer" => last > 0 /\ Len(upReceived) = last + 1
     /\ pc = "answer" /\ ~failed =>
          /\ rest \in 0 .. Size(last) - 1
          /\ Len(reply) = Size(last) - rest
          /\ \A i \in 1 .. Len(reply) : reply[i] = Payloads(handled[last])[rest + i]
          /\ seq = (rest + 1) % SeqMod

\* What the client waits for, after so many packets of the reply to o.
InResult(w, read, o) ==
  /\ o.kind = "rows"
  /\ \/ \E c \in 0 .. o.cols :
          /\ read = c + 1
          /\ w = Waiting("columns", read + 1, o.cols - c, o.cols, << >>)
     \/ \E r \in 0 .. Len(o.rows) :
          /\ read = o.cols + 2 + r
          /\ w = Waiting("rows", read + 1, 0, o.cols, SubSeq(o.rows, 1, r))

\* The packet the client waits for is the one at its place of the replies.
Reading(start) ==
  LET told == Len(answers)
      read == Len(downReceived)
      first == start[told + 1]
  IN /\ read <= Len(downSent)
     /\ told <= Len(handled)
     /\ \A i \in 1 .. told : answers[i] = handled[i]
     /\ \/ client = WaitingAt("greeting", 0) /\ upSent = << >> /\ read = 0 /\ told = 0
        \/ client = WaitingAt("authenticate", 1) /\ upSent = << >> /\ read = 1 /\ told = 0
        \/ client = WaitingAt("welcome", 2) /\ Len(upSent) = 1 /\ read = 1 /\ told = 0
        \/ client = WaitingAt("reply", 1) /\ upSent # << >> /\ read = first
        \/ /\ upSent # << >> /\ told < Len(handled)
           /\ InResult(client, read - first, handled[told + 1])

Inv(start) ==
  Typed /\ Carried /\ Dispatched /\ Laid(start) /\ Serving(start) /\ Reading(start)

IInv == \E start \in Seq(Nat) : Inv(start)

----------------------------------------------------------------------------
(* Payloads *)

\* What a length-encoded integer starts with is neither NULL nor ERR, and looks
\* like EOF only where the packet is too long for one.
LEMMA HeadFacts ==
  ASSUME NEW v \in Nat
  PROVE  /\ lenenc_head(v) \in Nat \ {251, 255}
         /\ lenenc_size(v) \in Nat
         /\ v > 0 => lenenc_head(v) # 0
         /\ lenenc_head(v) = 254 => lenenc_size(v) = 9
  BY LenencAssumption DEF lenenc_head, lenenc_size

LEMMA PacketFacts ==
  /\ make_ok \in PayloadType /\ make_err \in PayloadType
  /\ make_eof \in PayloadType /\ make_col_def \in PayloadType
  /\ make_handshake_v10 \in PayloadType
  /\ make_handshake_v10.head = 10
  /\ IsOk(make_ok) /\ ~IsErr(make_ok) /\ make_ok.head = 0
  /\ IsErr(make_err) /\ ~IsOk(make_err) /\ make_err.head = 255
  /\ IsEof(make_eof) /\ ~IsErr(make_eof)
  /\ ~IsEof(make_col_def) /\ ~IsErr(make_col_def)
<1>1. lenenc_head(3) \in Nat \ {251, 255}  BY HeadFacts
<1> QED
  BY <1>1 DEF PayloadType, Payload, make_ok, make_err, make_eof, make_col_def,
     make_handshake_v10, IsOk, IsErr, IsEof

LEMMA RowFacts ==
  ASSUME NEW row \in Nat
  PROVE  /\ make_text_row(row) \in PayloadType /\ make_text_row(row).n = row
         /\ ~IsEof(make_text_row(row)) /\ ~IsErr(make_text_row(row))
  BY HeadFacts DEF make_text_row, Payload, PayloadType, IsEof, IsErr

LEMMA CountFacts ==
  ASSUME NEW n \in Nat
  PROVE  /\ column_count(n) \in PayloadType /\ column_count(n).n = n
         /\ column_count(n).head \notin {251, 255}
         /\ n > 0 => column_count(n).head # 0
  BY HeadFacts DEF column_count, Payload, PayloadType

LEMMA Concatenation ==
  ASSUME NEW V, NEW s \in Seq(V), NEW t \in Seq(V)
  PROVE  /\ s \o t \in Seq(V)
         /\ Len(s \o t) = Len(s) + Len(t)
         /\ \A i \in 1 .. Len(s) : (s \o t)[i] = s[i]
         /\ \A i \in 1 .. Len(t) : (s \o t)[Len(s) + i] = t[i]
  OBVIOUS

\* Five parts, one behind the other.
InParts(P, a, b, d, e, f) ==
  /\ Len(P) = Len(a) + Len(b) + Len(d) + Len(e) + Len(f)
  /\ \A i \in 1 .. Len(a) : P[i] = a[i]
  /\ \A i \in 1 .. Len(b) : P[Len(a) + i] = b[i]
  /\ \A i \in 1 .. Len(d) : P[Len(a) + Len(b) + i] = d[i]
  /\ \A i \in 1 .. Len(e) : P[Len(a) + Len(b) + Len(d) + i] = e[i]
  /\ \A i \in 1 .. Len(f) : P[Len(a) + Len(b) + Len(d) + Len(e) + i] = f[i]

LEMMA Parts ==
  ASSUME NEW V, NEW a \in Seq(V), NEW b \in Seq(V), NEW d \in Seq(V),
         NEW e \in Seq(V), NEW f \in Seq(V)
  PROVE  /\ a \o b \o d \o e \o f \in Seq(V)
         /\ InParts(a \o b \o d \o e \o f, a, b, d, e, f)
<1>0. PICK P : P = a \o b \o d \o e \o f  OBVIOUS
<1>1. PICK Q : Q = a \o b  OBVIOUS
<1>2. /\ Q \in Seq(V) /\ Len(Q) = Len(a) + Len(b)
      /\ \A i \in 1 .. Len(a) : Q[i] = a[i]
      /\ \A i \in 1 .. Len(b) : Q[Len(a) + i] = b[i]
  BY <1>1, Concatenation
<1>3. PICK R : R = Q \o d  OBVIOUS
<1>4. /\ R \in Seq(V) /\ Len(R) = Len(Q) + Len(d)
      /\ \A i \in 1 .. Len(Q) : R[i] = Q[i]
      /\ \A i \in 1 .. Len(d) : R[Len(Q) + i] = d[i]
  <2>1. Q \in Seq(V)  BY <1>2
  <2> QED  BY <1>3, <2>1, Concatenation
<1>5. PICK T : T = R \o e  OBVIOUS
<1>6. /\ T \in Seq(V) /\ Len(T) = Len(R) + Len(e)
      /\ \A i \in 1 .. Len(R) : T[i] = R[i]
      /\ \A i \in 1 .. Len(e) : T[Len(R) + i] = e[i]
  <2>1. R \in Seq(V)  BY <1>4
  <2> QED  BY <1>5, <2>1, Concatenation
<1>7. P = T \o f  BY <1>0, <1>1, <1>3, <1>5
<1>8. /\ P \in Seq(V) /\ Len(P) = Len(T) + Len(f)
      /\ \A i \in 1 .. Len(T) : P[i] = T[i]
      /\ \A i \in 1 .. Len(f) : P[Len(T) + i] = f[i]
  <2>1. T \in Seq(V)  BY <1>6
  <2> QED  BY <1>7, <2>1, Concatenation
<1>9. /\ Len(a) \in Nat /\ Len(b) \in Nat /\ Len(d) \in Nat
      /\ Len(e) \in Nat /\ Len(f) \in Nat
  OBVIOUS
<1>10. /\ Len(R) = Len(a) + Len(b) + Len(d)
       /\ Len(T) = Len(a) + Len(b) + Len(d) + Len(e)
  BY <1>2, <1>4, <1>6, <1>9
<1>11. \A i \in 1 .. Len(a) : P[i] = a[i]
  <2> TAKE i \in 1 .. Len(a)
  <2>1. /\ i \in 1 .. Len(Q) /\ i \in 1 .. Len(R) /\ i \in 1 .. Len(T)
    BY <1>2, <1>9, <1>10
  <2> QED  BY <1>2, <1>4, <1>6, <1>8, <2>1
<1>12. \A i \in 1 .. Len(b) : P[Len(a) + i] = b[i]
  <2> TAKE i \in 1 .. Len(b)
  <2> DEFINE k == Len(a) + i
  <2>1. k \in 1 .. Len(Q) /\ k \in 1 .. Len(R) /\ k \in 1 .. Len(T)
    BY <1>2, <1>9, <1>10
  <2>2. Q[k] = b[i]  BY <1>2
  <2> HIDE DEF k
  <2>3. P[k] = b[i]  BY <1>4, <1>6, <1>8, <2>1, <2>2
  <2> QED  BY <2>3 DEF k
<1>13. \A i \in 1 .. Len(d) : P[Len(a) + Len(b) + i] = d[i]
  <2> TAKE i \in 1 .. Len(d)
  <2> DEFINE k == Len(a) + Len(b) + i
  <2>1. k \in 1 .. Len(R) /\ k \in 1 .. Len(T)  BY <1>9, <1>10
  <2>2. R[k] = d[i]  BY <1>2, <1>4
  <2> HIDE DEF k
  <2>3. P[k] = d[i]  BY <1>6, <1>8, <2>1, <2>2
  <2> QED  BY <2>3 DEF k
<1>14. \A i \in 1 .. Len(e) : P[Len(a) + Len(b) + Len(d) + i] = e[i]
  <2> TAKE i \in 1 .. Len(e)
  <2> DEFINE k == Len(a) + Len(b) + Len(d) + i
  <2>1. k \in 1 .. Len(T)  BY <1>9, <1>10
  <2>2. T[k] = e[i]  BY <1>6, <1>10
  <2> HIDE DEF k
  <2>3. P[k] = e[i]  BY <1>8, <2>1, <2>2
  <2> QED  BY <2>3 DEF k
<1>15. \A i \in 1 .. Len(f) : P[Len(a) + Len(b) + Len(d) + Len(e) + i] = f[i]
  BY <1>8, <1>10
<1>16. Len(P) = Len(a) + Len(b) + Len(d) + Len(e) + Len(f)
  BY <1>8, <1>9, <1>10
<1>17. P \in Seq(V)  BY <1>8
<1>18. InParts(P, a, b, d, e, f)
  BY <1>11, <1>12, <1>13, <1>14, <1>15, <1>16 DEF InParts
<1> QED  BY <1>0, <1>17, <1>18

\* Where the packets of a result set are.
LEMMA ResultSet ==
  ASSUME NEW o \in OutcomeType
  PROVE  LET P == send_result_set(o)
             C == o.cols
             R == Len(o.rows)
         IN /\ C \in Nat /\ R \in Nat
            /\ P \in Seq(PayloadType) /\ Len(P) = C + R + 3
            /\ P[1] = column_count(C)
            /\ \A c \in 1 .. C : P[c + 1] = make_col_def
            /\ P[C + 2] = make_eof
            /\ \A r \in 1 .. R : P[C + 2 + r] = make_text_row(o.rows[r])
            /\ P[C + R + 3] = make_eof
<1>19. PICK C : C = o.cols  OBVIOUS
<1>20. PICK R : R = Len(o.rows)  OBVIOUS
<1>21. PICK P : P = send_result_set(o)  OBVIOUS
<1>1. C \in Nat /\ R \in Nat /\ o.rows \in Seq(Nat) /\ DOMAIN o.rows = 1 .. R
  BY <1>19, <1>20 DEF OutcomeType
<1>2. /\ column_count(C) \in PayloadType /\ make_col_def \in PayloadType
      /\ make_eof \in PayloadType
  BY <1>1, CountFacts, PacketFacts
<1>3. PICK a : a = <<column_count(C)>>  OBVIOUS
<1>4. PICK b : b = [c \in 1 .. C |-> make_col_def]  OBVIOUS
<1>5. PICK e : e = <<make_eof>>  OBVIOUS
<1>6. PICK f : f = [r \in DOMAIN o.rows |-> make_text_row(o.rows[r])]  OBVIOUS
<1>7. a \in Seq(PayloadType) /\ Len(a) = 1 /\ a[1] = column_count(C)
  BY <1>2, <1>3
<1>8. /\ b \in Seq(PayloadType) /\ Len(b) = C
      /\ \A c \in 1 .. C : b[c] = make_col_def
  BY <1>1, <1>2, <1>4
<1>9. e \in Seq(PayloadType) /\ Len(e) = 1 /\ e[1] = make_eof
  BY <1>2, <1>5
<1>10. /\ f \in Seq(PayloadType) /\ Len(f) = R
       /\ \A r \in 1 .. R : f[r] = make_text_row(o.rows[r])
  <2>1. \A r \in 1 .. R : make_text_row(o.rows[r]) \in PayloadType
    BY <1>1, RowFacts
  <2> QED  BY <1>1, <1>6, <2>1
<1>11. P = a \o b \o e \o f \o e
  BY <1>3, <1>4, <1>5, <1>6, <1>19, <1>21 DEF send_result_set
<1>12. /\ P \in Seq(PayloadType)
       /\ Len(P) = Len(a) + Len(b) + Len(e) + Len(f) + Len(e)
       /\ \A i \in 1 .. Len(a) : P[i] = a[i]
       /\ \A i \in 1 .. Len(b) : P[Len(a) + i] = b[i]
       /\ \A i \in 1 .. Len(e) : P[Len(a) + Len(b) + i] = e[i]
       /\ \A i \in 1 .. Len(f) : P[Len(a) + Len(b) + Len(e) + i] = f[i]
       /\ \A i \in 1 .. Len(e) :
            P[Len(a) + Len(b) + Len(e) + Len(f) + i] = e[i]
  <2>1. /\ a \in Seq(PayloadType) /\ b \in Seq(PayloadType)
        /\ e \in Seq(PayloadType) /\ f \in Seq(PayloadType)
    BY <1>7, <1>8, <1>9, <1>10
  <2>2. P \in Seq(PayloadType) /\ InParts(P, a, b, e, f, e)
    BY <1>11, <2>1, Parts
  <2> QED  BY <2>2 DEF InParts
<1>13. Len(P) = C + R + 3
  BY <1>1, <1>7, <1>8, <1>9, <1>10, <1>12
<1>14. P[1] = column_count(C)  BY <1>7, <1>12
<1>15. \A c \in 1 .. C : P[c + 1] = make_col_def
  <2> TAKE c \in 1 .. C
  <2>1. P[Len(a) + c] = b[c]  BY <1>8, <1>12
  <2>2. Len(a) + c = c + 1  BY <1>1, <1>7
  <2> QED  BY <1>8, <2>1, <2>2
<1>16. P[C + 2] = make_eof
  <2>1. P[Len(a) + Len(b) + 1] = e[1]  BY <1>9, <1>12
  <2>2. Len(a) + Len(b) + 1 = C + 2  BY <1>1, <1>7, <1>8
  <2> QED  BY <1>9, <2>1, <2>2
<1>17. \A r \in 1 .. R : P[C + 2 + r] = make_text_row(o.rows[r])
  <2> TAKE r \in 1 .. R
  <2>1. P[Len(a) + Len(b) + Len(e) + r] = f[r]  BY <1>10, <1>12
  <2>2. Len(a) + Len(b) + Len(e) + r = C + 2 + r
    BY <1>1, <1>7, <1>8, <1>9
  <2> QED  BY <1>10, <2>1, <2>2
<1>18. P[C + R + 3] = make_eof
  <2>1. P[Len(a) + Len(b) + Len(e) + Len(f) + 1] = e[1]  BY <1>9, <1>12
  <2>2. Len(a) + Len(b) + Len(e) + Len(f) + 1 = C + R + 3
    BY <1>1, <1>7, <1>8, <1>9, <1>10
  <2> QED  BY <1>9, <2>1, <2>2
<1>22. P \in Seq(PayloadType)  BY <1>12
<1> QED
  BY <1>1, <1>13, <1>14, <1>15, <1>16, <1>17, <1>18, <1>19, <1>20, <1>21, <1>22

----------------------------------------------------------------------------
(* Outcomes *)

\* A command comes to OK, ERR or a chunk that has a column.
LEMMA ReplyFacts ==
  ASSUME NEW c \in Commands, NEW o \in Replies(c)
  PROVE  /\ o \in OutcomeType
         /\ o.kind = "ok" => o = Ok
         /\ o.kind = "err" => o = Err
         /\ o.kind = "rows" => o.cols > 0
<1>1. /\ c.com \in {"QUIT", "EMPTY", "OTHER", "QUERY"}
      /\ c.com = "QUERY" => IsSet(c) \/ IsVariable(c) \/ IsShow(c) \/ IsStmt(c)
  BY CommandsAssumption DEF IsStmt
<1>2. /\ Ok \in OutcomeType /\ Ok.kind = "ok"
      /\ Err \in OutcomeType /\ Err.kind = "err"
  BY DEF Ok, Err, Outcome, NoChunk, OutcomeType
<1>3. ASSUME NEW chunk \in [cols : Nat \ {0}, rows : Seq(Nat)],
             o = Outcome("rows", chunk)
      PROVE  o \in OutcomeType /\ o.kind = "rows" /\ o.cols > 0
  BY <1>3 DEF Outcome, OutcomeType
<1>4. ASSUME NEW n \in Nat, o = send_single_value(n)
      PROVE  o \in OutcomeType /\ o.kind = "rows" /\ o.cols > 0
  <2>1. [cols |-> 1, rows |-> <<n>>] \in [cols : Nat \ {0}, rows : Seq(Nat)]
    OBVIOUS
  <2>2. o = Outcome("rows", [cols |-> 1, rows |-> <<n>>])
    BY <1>4 DEF send_single_value
  <2> QED  BY <1>3, <2>1, <2>2
<1>5. \/ o \in {Ok, Err}
      \/ \E n \in Nat : o = send_single_value(n)
      \/ \E chunk \in Results : o = Outcome("rows", chunk)
  <2>1. CASE c.com # "QUERY"  BY <1>1, <2>1 DEF Replies, IsStmt
  <2>2. CASE c.com = "QUERY" /\ IsSet(c)
    BY <2>2 DEF Replies, IsVariable, IsShow, IsStmt
  <2>3. CASE c.com = "QUERY" /\ IsVariable(c)
    <3>1. o = Variable(c)  BY <2>3 DEF Replies, IsVariable, IsShow, IsStmt
    <3>2. (IF c.has = "@@VERSION" THEN 14 ELSE 0) \in Nat  OBVIOUS
    <3> QED  BY <3>1, <3>2 DEF Variable
  <2>4. CASE c.com = "QUERY" /\ IsShow(c)
    <3>1. o \in {send_single_value(n) :
                   n \in IF c.begins = "SHOW TABLES" THEN Names ELSE {7}}
      BY <2>4 DEF Replies, IsShow, IsStmt
    <3>2. (IF c.begins = "SHOW TABLES" THEN Names ELSE {7}) \subseteq Nat
      <4>1. Names \subseteq Nat /\ {7} \subseteq Nat  BY ResultsAssumption
      <4> QED  BY <4>1
    <3> QED  BY <3>1, <3>2
  <2>5. CASE IsStmt(c)
    BY <2>5 DEF Replies, IsStmt
  <2> QED  BY <1>1, <2>1, <2>2, <2>3, <2>4, <2>5
<1>6. CASE o \in {Ok, Err}  BY <1>2, <1>6
<1>7. CASE \E n \in Nat : o = send_single_value(n)  BY <1>4, <1>7
<1>8. CASE \E chunk \in Results : o = Outcome("rows", chunk)
  BY <1>3, <1>8, ResultsAssumption
<1> QED  BY <1>5, <1>6, <1>7, <1>8

\* A write is answered with a value only if it is not run.
LEMMA WriteFacts ==
  ASSUME NEW c \in Commands, NEW o \in Replies(c), IsWrite(c)
  PROVE  IsStmt(c) <=> o.kind # "rows"
<1>1. c.com = "QUERY" /\ ~IsSet(c) /\ ~IsShow(c)
  BY DEF IsWrite, IsSet, IsShow
<1>2. CASE IsStmt(c)
  <2>1. o \in {Ok, Err}  BY <1>2 DEF Replies, IsStmt
  <2> QED  BY <1>2, <2>1 DEF Ok, Err, Outcome
<1>3. CASE ~IsStmt(c)
  <2>1. IsVariable(c)  BY <1>1, <1>3 DEF IsStmt
  <2>2. o = Variable(c)  BY <1>1, <2>1 DEF Replies, IsStmt
  <2>3. o.kind = "rows"
    BY <2>2 DEF Variable, send_single_value, Outcome
  <2> QED  BY <1>3, <2>3
<1> QED  BY <1>2, <1>3

\* Every outcome is answered with a packet.
LEMMA PayloadsFacts ==
  ASSUME NEW o \in OutcomeType
  PROVE  /\ Payloads(o) \in Seq(PayloadType) /\ Len(Payloads(o)) \in Nat \ {0}
         /\ o.kind = "ok" => Payloads(o) = <<make_ok>>
         /\ o.kind = "err" => Payloads(o) = <<make_err>>
         /\ o.kind = "rows" => Payloads(o) = send_result_set(o)
<1>1. o.kind \in {"ok", "err", "rows"}  BY DEF OutcomeType
<1>2. make_ok \in PayloadType /\ make_err \in PayloadType  BY PacketFacts
<1>3. /\ o.kind = "ok" => Payloads(o) = <<make_ok>>
      /\ o.kind = "err" => Payloads(o) = <<make_err>>
      /\ o.kind = "rows" => Payloads(o) = send_result_set(o)
  BY DEF Payloads
<1>4. CASE o.kind = "rows"
  <2>1. /\ send_result_set(o) \in Seq(PayloadType)
        /\ o.cols \in Nat /\ Len(o.rows) \in Nat
        /\ Len(send_result_set(o)) = o.cols + Len(o.rows) + 3
    BY ResultSet
  <2> QED  BY <1>3, <1>4, <2>1
<1>5. CASE o.kind # "rows"
  <2>1. PICK p \in PayloadType : Payloads(o) = <<p>>
    BY <1>1, <1>2, <1>3, <1>5
  <2>2. <<p>> \in Seq(PayloadType) /\ Len(<<p>>) = 1
    OBVIOUS
  <2>3. Payloads(o) \in Seq(PayloadType) /\ Len(Payloads(o)) \in Nat \ {0}
    BY <2>1, <2>2
  <2> QED  BY <1>3, <2>3
<1> QED  BY <1>4, <1>5

\* Where the packets of a reply with rows are.
LEMMA ResultPayloads ==
  ASSUME NEW o \in OutcomeType, o.kind = "rows"
  PROVE  /\ o.cols \in Nat /\ Len(o.rows) \in Nat /\ o.rows \in Seq(Nat)
         /\ Len(Payloads(o)) = o.cols + Len(o.rows) + 3
         /\ Payloads(o)[1] = column_count(o.cols)
         /\ \A c \in 1 .. o.cols : Payloads(o)[c + 1] = make_col_def
         /\ Payloads(o)[o.cols + 2] = make_eof
         /\ \A r \in 1 .. Len(o.rows) :
              Payloads(o)[o.cols + 2 + r] = make_text_row(o.rows[r])
         /\ Payloads(o)[o.cols + Len(o.rows) + 3] = make_eof
<1>1. Payloads(o) = send_result_set(o)  BY PayloadsFacts
<1>2. o.rows \in Seq(Nat)  BY DEF OutcomeType
<1> QED  BY <1>1, <1>2, ResultSet

----------------------------------------------------------------------------
(* Numbers and sequences *)

LEMMA Remainder ==
  ASSUME NEW b \in Nat \ {0}, NEW q \in Nat, NEW r \in 0 .. b - 1,
         NEW s \in Nat, NEW t \in 0 .. b - 1, b * q + r = b * s + t
  PROVE  r = t
<1>1. ~(q > s)
  <2> SUFFICES ASSUME q >= s + 1  PROVE FALSE  OBVIOUS
  <2>1. b * q >= b * (s + 1)  OBVIOUS
  <2> QED  BY <2>1
<1>2. ~(q < s)
  <2> SUFFICES ASSUME s >= q + 1  PROVE FALSE  OBVIOUS
  <2>1. b * s >= b * (q + 1)  OBVIOUS
  <2> QED  BY <2>1
<1> QED  BY <1>1, <1>2

\* Numbers that are counted on and taken modulo each time come to the same.
LEMMA CountsOn ==
  ASSUME NEW n \in Nat
  PROVE  /\ n % SeqMod \in 0 .. SeqMod - 1
         /\ ((n % SeqMod) + 1) % SeqMod = (n + 1) % SeqMod
<1> DEFINE m == SeqMod
           r == n % m
           q == n \div m
           t == (n + 1) % m
           u == (n + 1) \div m
<1>1. m \in Nat /\ m > 1  BY SeqModAssumption
<1>2. /\ r \in 0 .. m - 1 /\ q \in Nat /\ n = m * q + r
      /\ t \in 0 .. m - 1 /\ u \in Nat /\ n + 1 = m * u + t
      /\ \A i \in 0 .. m - 1 : i % m = i
      /\ m % m = 0
  BY <1>1
<1> HIDE DEF m, r, q, t, u
<1>3. CASE r + 1 < m
  <2>1. m * q + (r + 1) = m * u + t /\ r + 1 \in 0 .. m - 1
    BY <1>1, <1>2, <1>3
  <2>2. r + 1 = t  BY <1>1, <1>2, <2>1, Remainder
  <2>3. (r + 1) % m = t  BY <1>2, <2>1, <2>2
  <2> QED  BY <1>2, <2>3 DEF m, r, t
<1>4. CASE ~(r + 1 < m)
  <2>1. r + 1 = m  BY <1>1, <1>2, <1>4
  <2>2. m * (q + 1) + 0 = m * u + t /\ 0 \in 0 .. m - 1 /\ q + 1 \in Nat
    BY <1>1, <1>2, <2>1
  <2>3. t = 0  BY <1>1, <1>2, <2>2, Remainder
  <2>4. (r + 1) % m = t  BY <1>2, <2>1, <2>3
  <2> QED  BY <1>2, <2>4 DEF m, r, t
<1> QED  BY <1>3, <1>4

LEMMA Appended ==
  ASSUME NEW V, NEW s \in Seq(V), NEW v \in V
  PROVE  /\ Append(s, v) \in Seq(V) /\ Len(Append(s, v)) = Len(s) + 1
         /\ \A i \in 1 .. Len(s) : Append(s, v)[i] = s[i]
         /\ Append(s, v)[Len(s) + 1] = v
         /\ Append(s, v) # << >>
  OBVIOUS

----------------------------------------------------------------------------
(* What the invariant says of a state *)

LEMMA HandledFacts ==
  ASSUME Typed, Carried, Dispatched, NEW k \in 1 .. Len(handled)
  PROVE  /\ upSent[k + 1].payload \in Commands
         /\ handled[k] \in Replies(upSent[k + 1].payload)
         /\ handled[k] \in OutcomeType
         /\ Size(k) \in Nat \ {0} /\ Payloads(handled[k]) \in Seq(PayloadType)
<1>1. Len(handled) \in Nat /\ Len(upSent) \in Nat /\ Len(upReceived) \in Nat
  BY DEF Typed
<1>2. k < Len(upReceived) /\ handled[k] \in Replies(upSent[k + 1].payload)
  BY DEF Dispatched
<1>3. k + 1 \in 1 .. Len(upSent) /\ k + 1 # 1  BY <1>1, <1>2 DEF Carried
<1>4. upSent[k + 1].payload \in Commands  BY <1>3 DEF Carried
<1>5. handled[k] \in OutcomeType  BY <1>2, <1>4, ReplyFacts
<1> QED  BY <1>2, <1>4, <1>5, PayloadsFacts DEF Size

\* A packet of a reply is one that the channel carries.
LEMMA ReplyIsDown ==
  ASSUME Typed, Carried, Dispatched, NEW k \in 1 .. Len(handled),
         NEW j \in 1 .. Size(k)
  PROVE  [seq |-> j % SeqMod, payload |-> Payloads(handled[k])[j]] \in Down
<1> DEFINE o == handled[k]
           c == upSent[k + 1].payload
<1>1. c \in Commands /\ o \in Replies(c) /\ Payloads(o) \in Seq(PayloadType)
  BY HandledFacts
<1>2. j \in DOMAIN Payloads(o)  BY <1>1 DEF Size
<1>3. j % SeqMod \in 0 .. SeqMod - 1
  <2>1. j \in Nat  OBVIOUS
  <2> QED  BY <2>1, CountsOn
<1> HIDE DEF o, c
<1>4. Payloads(o)[j] \in UNION {{Payloads(p)[i] : i \in DOMAIN Payloads(p)} :
                                  p \in UNION {Replies(d) : d \in Commands}}
  BY <1>1, <1>2
<1>5. [seq |-> j % SeqMod, payload |-> Payloads(o)[j]] \in Down
  BY <1>3, <1>4 DEF Down
<1> QED  BY <1>5 DEF o

\* A packet that has been sent of the reply to the k-th command.
LEMMA PacketOfReply ==
  ASSUME NEW start, Laid(start), NEW k \in 1 .. Len(handled),
         NEW j \in 1 .. Size(k), start[k] + j <= Len(downSent)
  PROVE  downSent[start[k] + j] = [seq |-> j % SeqMod,
                                   payload |-> Payloads(handled[k])[j]]
  BY DEF Laid
----------------------------------------------------------------------------
(* What a step leaves alone *)

LEMMA SameReplies ==
  ASSUME NEW start, Laid(start), UNCHANGED <<downSent, handled>>
  PROVE  Laid(start)'
  BY DEF Laid, Size

LEMMA SamePlace ==
  ASSUME NEW start, Typed, Reading(start), Len(downSent') \in Nat,
         UNCHANGED <<upSent, downReceived, handled, client, answers>>,
         Len(downSent) <= Len(downSent')
  PROVE  Reading(start)'
<1>1. Len(downSent) \in Nat /\ Len(downReceived) \in Nat  BY DEF Typed
<1> QED  BY <1>1 DEF Reading

LEMMA SameOutcomes ==
  ASSUME Typed, Carried, Dispatched, UNCHANGED <<handled, executed>>,
         Len(upReceived') \in Nat, Len(upReceived) <= Len(upReceived'),
         \A i \in 1 .. Len(upSent) : upSent'[i] = upSent[i]
  PROVE  Dispatched'
<1>1. /\ Len(handled) \in Nat /\ Len(upSent) \in Nat /\ Len(upReceived) \in Nat
      /\ Len(upReceived) <= Len(upSent)
  BY DEF Typed, Carried
<1>2. \A k \in 1 .. Len(handled) : k < Len(upReceived)
  BY DEF Dispatched
<1>3. \A k \in 1 .. Len(handled) : upSent'[k + 1] = upSent[k + 1]
  BY <1>1, <1>2
<1>4. handled' = handled /\ executed' = executed  OBVIOUS
<1>5. \A k \in 1 .. Len(handled') :
        /\ k < Len(upReceived')
        /\ handled'[k] \in Replies(upSent'[k + 1].payload)
  BY <1>1, <1>2, <1>3, <1>4 DEF Dispatched
<1>6. \A k \in Nat :
        k \in executed' <=> /\ k \in 1 .. Len(handled')
                            /\ IsStmt(upSent'[k + 1].payload)
  BY <1>3, <1>4 DEF Dispatched
<1> QED  BY <1>5, <1>6 DEF Dispatched

----------------------------------------------------------------------------
(* The server's steps *)

LEMMA AcceptStep ==
  ASSUME NEW start, Inv(start), Accept
  PROVE  Inv(start)'
<1>1. /\ pc = "accept" /\ pc' = "greet" /\ seq' = 0
      /\ reply' = <<make_handshake_v10>>
      /\ upSent' = upSent /\ upReceived' = upReceived
      /\ downSent' = downSent /\ downReceived' = downReceived
      /\ command' = command /\ in_try' = in_try /\ failed' = failed
      /\ handled' = handled /\ executed' = executed
      /\ client' = client /\ answers' = answers /\ gone' = gone
  BY DEF Accept, up, down, ghosts
<1>2. Typed'
  <2>1. <<make_handshake_v10>> \in Seq(PayloadType)
    <3>1. make_handshake_v10 \in PayloadType  BY PacketFacts
    <3> QED  BY <3>1
  <2>2. 0 \in 0 .. SeqMod - 1  BY SeqModAssumption
  <2> QED  BY <1>1, <2>1, <2>2 DEF Inv, Typed
<1>3. Carried'  BY <1>1 DEF Inv, Carried
<1>4. Dispatched'  BY <1>1 DEF Inv, Dispatched
<1>5. Laid(start)'  BY <1>1, SameReplies DEF Inv
<1>6. Serving(start)'  BY <1>1 DEF Inv, Serving
<1>7. Reading(start)'  BY <1>1 DEF Inv, Reading
<1> QED  BY <1>2, <1>3, <1>4, <1>5, <1>6, <1>7 DEF Inv

\* A packet that goes down the channel.
LEMMA PacketSent ==
  ASSUME Typed, NEW p \in Down, D!Send(p)
  PROVE  /\ downSent' \in Seq(Down) /\ Len(downSent') = Len(downSent) + 1
         /\ Len(downSent) \in Nat
         /\ \A i \in 1 .. Len(downSent) : downSent'[i] = downSent[i]
         /\ downSent'[Len(downSent) + 1] = p
         /\ downReceived' = downReceived
<1>1. downSent' = Append(downSent, p) /\ downReceived' = downReceived
  BY DEF D!Send
<1>2. downSent \in Seq(Down)  BY DEF Typed
<1> QED  BY <1>1, <1>2, Appended

\* What SendRaw does at every place it is at.
LEMMA SendRawFacts ==
  ASSUME Typed, SendRaw,
         NEW p \in Down, p = [seq |-> seq, payload |-> Head(reply)]
  PROVE  /\ upSent' = upSent /\ upReceived' = upReceived
         /\ command' = command /\ in_try' = in_try /\ failed' = failed
         /\ handled' = handled /\ executed' = executed
         /\ client' = client /\ answers' = answers /\ gone' = gone
         /\ ~failed /\ D!Send(p)
         /\ seq' = (seq + 1) % SeqMod /\ seq' \in 0 .. SeqMod - 1
         /\ reply # << >> /\ Len(reply) \in Nat \ {0}
         /\ Head(reply) = reply[1]
         /\ reply' = Tail(reply) /\ reply' \in Seq(PayloadType)
         /\ Len(reply') = Len(reply) - 1
         /\ \A i \in 1 .. Len(reply') : reply'[i] = reply[i + 1]
         /\ pc' = IF Len(reply) = 1 THEN AfterSend ELSE pc
         /\ Typed'
<1>1. /\ upSent' = upSent /\ upReceived' = upReceived
      /\ command' = command /\ in_try' = in_try /\ failed' = failed
      /\ handled' = handled /\ executed' = executed
      /\ client' = client /\ answers' = answers /\ gone' = gone
      /\ ~failed /\ D!Send(p)
      /\ seq' = (seq + 1) % SeqMod
      /\ reply # << >> /\ reply' = Tail(reply)
      /\ pc' = IF Len(reply) = 1 THEN AfterSend ELSE pc
  BY DEF SendRaw, up, ghosts
<1>2. seq' \in 0 .. SeqMod - 1
  <2>1. seq + 1 \in Nat  BY SeqModAssumption DEF Typed
  <2> QED  BY <1>1, <2>1, CountsOn
<1>3. /\ Len(reply) \in Nat \ {0} /\ Head(reply) = reply[1]
      /\ reply' \in Seq(PayloadType) /\ Len(reply') = Len(reply) - 1
      /\ \A i \in 1 .. Len(reply') : reply'[i] = reply[i + 1]
  <2>1. reply \in Seq(PayloadType) /\ reply # << >>  BY <1>1 DEF Typed
  <2> QED  BY <1>1, <2>1
<1>4. Typed'
  <2>1. downSent' \in Seq(Down) /\ downReceived' = downReceived
    BY <1>1, PacketSent
  <2> QED  BY <1>1, <1>2, <1>3, <2>1 DEF Typed
<1> QED  BY <1>1, <1>2, <1>3, <1>4

LEMMA GreetingSent ==
  ASSUME NEW start, Inv(start), SendRaw, pc \in {"greet", "welcome"}
  PROVE  Inv(start)'
<1> DEFINE p == [seq |-> seq, payload |-> Head(reply)]
           n == Len(downSent)
<1>1. /\ handled = << >> /\ ~in_try /\ Len(handled) = 0
      /\ pc = "greet" => /\ downSent = << >> /\ n = 0 /\ seq = 0
                         /\ reply = <<make_handshake_v10>>
                         /\ upReceived = << >> /\ Len(upReceived) = 0
      /\ pc = "welcome" => /\ n = 1 /\ Len(upReceived) = 1
                           /\ seq = 2 % SeqMod /\ reply = <<make_ok>>
  BY DEF Inv, Serving
<1>2. Len(reply) = 1 /\ Head(reply) = reply[1]  BY <1>1
<1>3. p \in Down
  <2>1. seq \in 0 .. SeqMod - 1  BY DEF Inv, Typed
  <2>2. Head(reply) \in {make_handshake_v10, make_ok}  BY <1>1
  <2> QED  BY <2>1, <2>2 DEF Down
<1> HIDE DEF p
<1>4. /\ upSent' = upSent /\ upReceived' = upReceived
      /\ command' = command /\ in_try' = in_try /\ failed' = failed
      /\ handled' = handled /\ executed' = executed
      /\ client' = client /\ answers' = answers /\ gone' = gone
      /\ ~failed /\ D!Send(p)
      /\ pc' = AfterSend
      /\ Typed'
  BY <1>2, <1>3, SendRawFacts DEF Inv, p
<1>5. /\ Len(downSent') = n + 1 /\ n \in Nat
      /\ \A i \in 1 .. n : downSent'[i] = downSent[i]
      /\ downSent'[n + 1] = p
      /\ downReceived' = downReceived
  BY <1>3, <1>4, PacketSent DEF Inv
<1>6. Carried'  BY <1>4 DEF Inv, Carried
<1>7. Dispatched'  BY <1>4 DEF Inv, Dispatched
<1>8. /\ pc = "greet" => p = [seq |-> 0, payload |-> make_handshake_v10]
      /\ pc = "welcome" => p = [seq |-> 2 % SeqMod, payload |-> make_ok]
  BY <1>1 DEF p
<1>9. Laid(start)'
  <2>1. /\ start \in [1 .. 1 -> Nat] /\ start[1] = 2
        /\ n >= 1 => downSent[1] = [seq |-> 0, payload |-> make_handshake_v10]
    BY <1>1 DEF Inv, Laid
  <2> HIDE DEF n
  <2>2. /\ Len(downSent') <= 2
        /\ Len(downSent') >= 1 =>
             downSent'[1] = [seq |-> 0, payload |-> make_handshake_v10]
        /\ Len(downSent') >= 2 =>
             downSent'[2] = [seq |-> 2 % SeqMod, payload |-> make_ok]
    <3>1. CASE pc = "greet"  BY <1>1, <1>5, <1>8, <3>1
    <3>2. CASE pc = "welcome"  BY <1>1, <1>5, <1>8, <2>1, <3>2
    <3> QED  BY <3>1, <3>2
  <2>3. Len(handled') = 0  BY <1>1, <1>4
  <2> QED  BY <2>1, <2>2, <2>3 DEF Laid
<1>10. Serving(start)'
  <2>1. start[1] = 2 /\ Len(handled') = 0  BY <1>1, <1>4 DEF Inv, Laid
  <2>2. /\ pc = "greet" => pc' = "auth" /\ Len(downSent') = 1
                           /\ upReceived' = << >>
        /\ pc = "welcome" => pc' = "command" /\ Len(downSent') = 2
                             /\ Len(upReceived') = 1 /\ upReceived' # << >>
    BY <1>1, <1>4, <1>5 DEF AfterSend
  <2>3. handled' = << >> /\ ~in_try' /\ ~failed'  BY <1>1, <1>4
  <2>4. CASE pc = "greet"
    <3>1. /\ pc' = "auth" /\ Len(downSent') = 1 /\ upReceived' = << >>
          /\ handled' = << >> /\ in_try' = FALSE /\ failed' = FALSE
      BY <2>2, <2>3, <2>4 DEF Inv, Typed
    <3> QED  BY <3>1 DEF Serving
  <2>5. CASE pc = "welcome"
    <3>1. /\ pc' = "command" /\ Len(downSent') = start[Len(handled') + 1]
          /\ Len(upReceived') = Len(handled') + 1 /\ upReceived' # << >>
          /\ ~failed'
      BY <2>1, <2>2, <2>3, <2>5
    <3> QED  BY <3>1 DEF Serving
  <2> QED  BY <2>4, <2>5
<1>11. Reading(start)'  BY <1>4, <1>5, SamePlace DEF Inv
<1> QED  BY <1>4, <1>6, <1>7, <1>9, <1>10, <1>11 DEF Inv
\* The next packet of the last reply goes where that reply goes on.
LEMMA ReplySent ==
  ASSUME NEW start, Inv(start), SendRaw, pc = "answer"
  PROVE  Inv(start)'
<1> DEFINE p == [seq |-> seq, payload |-> Head(reply)]
           n == Len(downSent)
           last == Len(handled)
           rest == n - start[last]
           P == Payloads(handled[last])
<1>1. /\ last \in Nat /\ last > 0 /\ last \in 1 .. Len(handled)
      /\ Len(upReceived) = last + 1 /\ n \in Nat
      /\ ~failed
      /\ rest \in 0 .. Size(last) - 1
      /\ Len(reply) = Size(last) - rest
      /\ \A i \in 1 .. Len(reply) : reply[i] = P[rest + i]
      /\ seq = (rest + 1) % SeqMod
  <2>1. last \in Nat /\ n \in Nat  BY DEF Inv, Typed
  <2>2. last > 0  BY DEF Inv, Serving
  <2>3. ~failed  BY DEF SendRaw
  <2> QED  BY <2>1, <2>2, <2>3 DEF Inv, Serving
<1>13. /\ last \in Nat /\ last > 0 /\ n \in Nat
       /\ rest \in 0 .. Size(last) - 1 /\ Len(reply) = Size(last) - rest
  BY <1>1
<1>2. /\ start \in [1 .. last + 1 -> Nat] /\ start[1] = 2
      /\ start[last] \in Nat /\ start[last + 1] \in Nat
      /\ start[last + 1] = start[last] + Size(last)
      /\ Size(last) \in Nat \ {0}
      /\ n = start[last] + rest
      /\ start[last] >= 2
  <2>1. start \in [1 .. last + 1 -> Nat] /\ start[1] = 2
    BY DEF Inv, Laid
  <2>2. start[last] \in Nat /\ start[last + 1] \in Nat
    <3>1. last \in 1 .. last + 1 /\ last + 1 \in 1 .. last + 1
      <4> HIDE DEF last
      <4> QED  BY <1>13
    <3> QED  BY <2>1, <3>1
  <2>3. start[last + 1] = start[last] + Size(last)  BY <1>1 DEF Inv, Laid
  <2>4. Size(last) \in Nat \ {0}  BY <1>1, HandledFacts DEF Inv
  <2>5. start[1] <= start[last]
    <3>1. 1 \in 1 .. last + 1 /\ last \in 1 .. last + 1 /\ 1 <= last
      <4> HIDE DEF last
      <4> QED  BY <1>13
    <3> QED  BY <3>1 DEF Inv, Laid
  <2>6. n = start[last] + rest  BY <1>1, <2>2
  <2> HIDE DEF n, last, rest
  <2>7. start[last] >= 2  BY <2>1, <2>5
  <2> QED  BY <2>1, <2>2, <2>3, <2>4, <2>6, <2>7
<1>3. p = [seq |-> (rest + 1) % SeqMod, payload |-> P[rest + 1]]
  <2>1. /\ reply \in Seq(PayloadType) /\ Len(reply) >= 1 /\ 1 \in 1 .. Len(reply)
    <3>1. reply \in Seq(PayloadType) /\ Len(reply) \in Nat  BY DEF Inv, Typed
    <3> HIDE DEF n, last, rest
    <3>2. Size(last) \in Nat  BY <1>2
    <3>3. Len(reply) >= 1  BY <1>13, <3>1, <3>2
    <3> QED  BY <3>1, <3>3
  <2>2. Head(reply) = reply[1]  BY <2>1
  <2> HIDE DEF n, last, rest, P
  <2>3. reply[1] = P[rest + 1]  BY <1>1, <2>1
  <2> QED  BY <1>1, <2>2, <2>3
<1>4. p \in Down
  <2> HIDE DEF p, rest, last, P
  <2>1. rest + 1 \in 1 .. Size(last)
    <3>1. Size(last) \in Nat  BY <1>2
    <3> QED  BY <1>13, <3>1
  <2>2. [seq |-> (rest + 1) % SeqMod, payload |-> P[rest + 1]] \in Down
    BY <1>1, <2>1, ReplyIsDown DEF Inv, P
  <2> QED  BY <1>3, <2>2
<1>5. /\ upSent' = upSent /\ upReceived' = upReceived
      /\ command' = command /\ in_try' = in_try /\ failed' = failed
      /\ handled' = handled /\ executed' = executed
      /\ client' = client /\ answers' = answers /\ gone' = gone
      /\ D!Send(p)
      /\ seq' = (seq + 1) % SeqMod
      /\ Len(reply') = Len(reply) - 1
      /\ \A i \in 1 .. Len(reply') : reply'[i] = reply[i + 1]
      /\ pc' = IF Len(reply) = 1 THEN "command" ELSE "answer"
      /\ Typed'
  <2> HIDE DEF p
  <2>1. p = [seq |-> seq, payload |-> Head(reply)]  BY DEF p
  <2> QED  BY <1>4, <2>1, SendRawFacts DEF Inv, AfterSend
<1>6. /\ Len(downSent') = n + 1
      /\ \A i \in 1 .. n : downSent'[i] = downSent[i]
      /\ downSent'[n + 1] = p
      /\ downReceived' = downReceived
  <2> HIDE DEF p
  <2> QED  BY <1>4, <1>5, PacketSent DEF Inv
<1>7. Carried'  BY <1>5 DEF Inv, Carried
<1>8. Dispatched'  BY <1>5 DEF Inv, Dispatched
<1> DEFINE z == Size(last)
           f == start[last]
           l == Len(reply)
<1>12. /\ n \in Nat /\ f \in Nat /\ z \in Nat \ {0} /\ l \in Nat
       /\ rest \in 0 .. z - 1 /\ n = f + rest /\ l = z - rest
  <2>1. l \in Nat  BY DEF Inv, Typed
  <2> HIDE DEF rest, last
  <2> QED  BY <1>1, <1>2, <2>1
<1>9. Laid(start)'
  <2>1. Len(downSent') <= start[last + 1]
    <3>1. start[last + 1] = start[last] + Size(last) /\ n = start[last] + rest
          /\ start[last] \in Nat /\ Size(last) \in Nat
      BY <1>2
    <3>2. Len(downSent') = n + 1  BY <1>6
    <3> HIDE DEF n, last, rest, p
    <3> QED  BY <1>13, <3>1, <3>2
  <2>2. /\ downSent'[1] = downSent[1] /\ downSent'[2] = downSent[2]
        /\ downSent[1] = [seq |-> 0, payload |-> make_handshake_v10]
        /\ downSent[2] = [seq |-> 2 % SeqMod, payload |-> make_ok]
    <3>1. n >= 2
      <4>1. n = start[last] + rest /\ start[last] \in Nat /\ start[last] >= 2
        BY <1>2
      <4> HIDE DEF n, last, rest
      <4>2. rest \in Nat  BY <1>13
      <4> QED  BY <4>1, <4>2
    <3>2. /\ downSent[1] = [seq |-> 0, payload |-> make_handshake_v10]
          /\ downSent[2] = [seq |-> 2 % SeqMod, payload |-> make_ok]
      BY <1>1, <3>1 DEF Inv, Laid
    <3>3. 1 \in 1 .. n /\ 2 \in 1 .. n  BY <1>1, <3>1
    <3> QED  BY <1>6, <3>2, <3>3
  <2>3. ASSUME NEW k \in 1 .. last, NEW j \in 1 .. Size(k),
               start[k] + j <= n + 1
        PROVE  downSent'[start[k] + j] = [seq |-> j % SeqMod,
                                          payload |-> Payloads(handled[k])[j]]
    <3>1. /\ start[k] \in Nat /\ Size(k) \in Nat /\ start[k + 1] \in Nat
          /\ start[k + 1] = start[k] + Size(k)
      <4>1. k \in 1 .. last + 1 /\ k + 1 \in 1 .. last + 1
        <5>1. last \in Nat  BY <1>1
        <5> HIDE DEF last
        <5> QED  BY <5>1
      <4>2. start[k] \in Nat /\ start[k + 1] \in Nat  BY <1>2, <4>1
      <4>3. Size(k) \in Nat  BY HandledFacts DEF Inv
      <4> QED  BY <4>2, <4>3 DEF Inv, Laid
    <3>2. CASE start[k] + j <= n
      <4>1. start[k] + j \in 1 .. n
        <5>1. n \in Nat /\ start[k] \in Nat /\ j \in Nat /\ j >= 1  BY <1>1, <3>1
        <5> HIDE DEF n
        <5> QED  BY <3>2, <5>1
      <4>2. downSent'[start[k] + j] = downSent[start[k] + j]  BY <1>6, <4>1
      <4> QED  BY <3>2, <4>2, PacketOfReply DEF Inv
    <3>3. CASE ~(start[k] + j <= n)
      <4>1. start[k] + j = n + 1
        <5>1. n \in Nat /\ start[k] \in Nat /\ j \in Nat  BY <1>13, <3>1
        <5> HIDE DEF n
        <5> QED  BY <2>3, <3>3, <5>1
      <4>2. k = last
        <5> SUFFICES ASSUME k < last  PROVE FALSE  BY <1>1
        <5>1. k + 1 \in 1 .. last + 1 /\ last \in 1 .. last + 1 /\ k + 1 <= last
          BY <1>1
        <5>2. start[k + 1] <= f  BY <5>1 DEF Inv, Laid
        <5>3. j \in Nat /\ j <= Size(k)  BY <3>1
        <5> HIDE DEF n, f, rest, z, l, last
        <5>4. start[k] + j <= f  BY <1>12, <3>1, <5>2, <5>3
        <5> QED  BY <1>12, <4>1, <5>4
      <4>3. j = rest + 1
        <5>1. f + j = n + 1 /\ j \in Nat  BY <3>1, <4>1, <4>2
        <5> HIDE DEF n, f, rest, z, l, last
        <5> QED  BY <1>12, <5>1
      <4> QED  BY <1>3, <1>6, <4>1, <4>2, <4>3
    <3> QED  BY <3>2, <3>3
  <2>4. /\ start \in [1 .. Len(handled') + 1 -> Nat] /\ start[1] = 2
        /\ \A k \in 1 .. Len(handled') : start[k + 1] = start[k] + Size(k)'
        /\ \A i, j \in 1 .. Len(handled') + 1 : i <= j => start[i] <= start[j]
    BY <1>5 DEF Inv, Laid, Size
  <2>5. \A k \in 1 .. Len(handled') : \A j \in 1 .. Size(k)' :
          start[k] + j <= Len(downSent') =>
            downSent'[start[k] + j] = [seq |-> j % SeqMod,
                                       payload |-> Payloads(handled'[k])[j]]
    BY <1>5, <1>6, <2>3 DEF Size
  <2> HIDE DEF n, last, rest, p, P
  <2> QED  BY <1>5, <2>1, <2>2, <2>4, <2>5 DEF Laid, last
<1>10. Serving(start)'
  <2>1. seq' = (rest + 1 + 1) % SeqMod
    <3>1. rest + 1 \in Nat  BY <1>1
    <3> HIDE DEF rest
    <3> QED  BY <1>1, <1>5, <3>1, CountsOn
  <2>2. upReceived' # << >>  BY <1>1, <1>5
  <2>3. ~failed'  BY <1>1, <1>5
  <2>4. CASE Len(reply) = 1
    <3>1. n + 1 = f + z
      <4>1. l = 1  BY <2>4
      <4> HIDE DEF n, f, rest, z, l
      <4> QED  BY <1>12, <4>1
    <3>2. /\ pc' = "command" /\ Len(upReceived') = Len(handled') + 1
          /\ start[Len(handled') + 1] = f + z
      <4> HIDE DEF n, rest, l
      <4> QED  BY <1>1, <1>2, <1>5, <2>4
    <3>4. Len(downSent') = start[Len(handled') + 1]
      <4> HIDE DEF n, f, rest, z, l, last
      <4> QED  BY <1>6, <3>1, <3>2
    <3> QED  BY <2>2, <2>3, <3>2, <3>4 DEF Serving
  <2>5. CASE Len(reply) # 1
    <3> DEFINE r == Len(downSent') - start[Len(handled')]
    <3>0. r = (n + 1) - f  BY <1>5, <1>6
    <3>8. l # 1  BY <2>5
    <3>1. r = rest + 1 /\ r \in 0 .. z - 1
      <4> HIDE DEF n, f, rest, z, l, r
      <4> QED  BY <1>12, <3>0, <3>8
    <3>2. Len(reply') = z - r
      <4>1. Len(reply') = l - 1  BY <1>5
      <4> HIDE DEF n, f, rest, z, l, r
      <4> QED  BY <1>12, <3>1, <4>1
    <3>3. \A i \in 1 .. Len(reply') : reply'[i] = P[r + i]
      <4> TAKE i \in 1 .. Len(reply')
      <4>1. i + 1 \in 1 .. Len(reply) /\ rest + (i + 1) = r + i
        <5>1. i \in 1 .. l - 1  BY <1>5
        <5> HIDE DEF n, f, rest, z, r
        <5> QED  BY <1>12, <3>1, <5>1
      <4> QED  BY <1>1, <1>5, <4>1
    <3>4. seq' = (r + 1) % SeqMod  BY <2>1, <3>1
    <3>5. Size(Len(handled))' = z /\ handled' = handled
      BY <1>5 DEF Size
    <3>6. pc' = "answer" /\ Len(upReceived') = Len(handled') + 1 /\ Len(handled') > 0
      BY <1>1, <1>5, <2>5
    <3>7. /\ r \in 0 .. Size(Len(handled))' - 1
          /\ Len(reply') = Size(Len(handled))' - r
          /\ \A i \in 1 .. Len(reply') :
               reply'[i] = Payloads(handled'[Len(handled')])[r + i]
      <4> HIDE DEF r, rest, n, f, z, l
      <4> QED  BY <3>1, <3>2, <3>3, <3>5
    <3> HIDE DEF n, last, rest, p, P
    <3> QED  BY <2>2, <2>3, <3>4, <3>5, <3>6, <3>7 DEF Serving
  <2> QED  BY <2>4, <2>5
<1>11. Reading(start)'  BY <1>1, <1>5, <1>6, SamePlace DEF Inv
<1> QED  BY <1>5, <1>7, <1>8, <1>9, <1>10, <1>11 DEF Inv
LEMMA SendFailsStep ==
  ASSUME NEW start, Inv(start), SendFails
  PROVE  Inv(start)'
<1>1. /\ pc \in Sending /\ gone = TRUE /\ failed' = TRUE
      /\ pc' = (IF in_try THEN pc ELSE "closed")
      /\ reply' = (IF in_try THEN <<make_err>> ELSE << >>)
      /\ in_try' = FALSE
      /\ upSent' = upSent /\ upReceived' = upReceived
      /\ downSent' = downSent /\ downReceived' = downReceived
      /\ seq' = seq /\ command' = command
      /\ handled' = handled /\ executed' = executed
      /\ client' = client /\ answers' = answers /\ gone' = gone
  BY DEF SendFails, up, down, ghosts, Inv, Typed
<1>2. Typed'
  <2>1. <<make_err>> \in Seq(PayloadType) /\ << >> \in Seq(PayloadType)
    <3>1. make_err \in PayloadType  BY PacketFacts
    <3> QED  BY <3>1
  <2> QED  BY <1>1, <2>1 DEF Inv, Typed
<1>3. Carried'  BY <1>1 DEF Inv, Carried
<1>4. Dispatched'  BY <1>1 DEF Inv, Dispatched
<1>5. Laid(start)'  BY <1>1, SameReplies DEF Inv
<1>6. Serving(start)'
  <2>1. in_try => pc = "answer"
    BY <1>1 DEF Inv, Serving, Sending
  <2>2. \/ pc' = "closed"
        \/ pc' = "answer" /\ pc = "answer"
    BY <1>1, <2>1 DEF Inv, Typed
  <2>3. upReceived = << >> => Len(downSent) <= 1  BY DEF Inv, Serving
  <2>4. pc = "answer" => Len(handled) > 0 /\ Len(upReceived) = Len(handled) + 1
    BY DEF Inv, Serving
  <2>5. failed' = TRUE /\ gone' = TRUE  BY <1>1
  <2> QED  BY <1>1, <2>2, <2>3, <2>4, <2>5 DEF Serving
<1>7. Reading(start)'  BY <1>1 DEF Inv, Reading
<1> QED  BY <1>2, <1>3, <1>4, <1>5, <1>6, <1>7 DEF Inv

\* A packet that arrives at the server.
LEMMA PacketArrives ==
  ASSUME Typed, Carried, U!Receive
  PROVE  /\ upSent' = upSent /\ upReceived' \in Seq(Asked)
         /\ Len(upReceived) \in Nat /\ Len(upSent) \in Nat
         /\ Len(upReceived') = Len(upReceived) + 1
         /\ Len(upReceived) + 1 <= Len(upSent)
         /\ U!Arriving = upSent[Len(upReceived) + 1]
         /\ upReceived' # << >>
         /\ Carried'
<1>1. /\ upSent' = upSent /\ upReceived' = Append(upReceived, U!Arriving)
      /\ Len(upSent) - Len(upReceived) > 0
      /\ U!Arriving = upSent[Len(upReceived) + 1]
  BY DEF U!Receive, U!InFlight, U!Arriving
<1>2. /\ upSent \in Seq(Asked) /\ upReceived \in Seq(Asked)
      /\ Len(upReceived) \in Nat /\ Len(upSent) \in Nat
  BY DEF Typed
<1>3. Len(upReceived) + 1 <= Len(upSent)  BY <1>1, <1>2
<1>4. Len(upReceived) + 1 \in 1 .. Len(upSent)  BY <1>2, <1>3
<1>5. upSent[Len(upReceived) + 1] \in Asked  BY <1>2, <1>4
<1>6. /\ upReceived' \in Seq(Asked) /\ Len(upReceived') = Len(upReceived) + 1
      /\ upReceived' # << >>
  BY <1>1, <1>2, <1>5, Appended
<1>7. Carried'  BY <1>1, <1>3, <1>6 DEF Carried
<1> QED  BY <1>1, <1>2, <1>3, <1>6, <1>7

LEMMA RecvAuthStep ==
  ASSUME NEW start, Inv(start), RecvAuth
  PROVE  Inv(start)'
<1>1. /\ pc = "auth" /\ U!Receive /\ seq' = (U!Arriving.seq + 1) % SeqMod
      /\ pc' = "welcome" /\ reply' = <<make_ok>>
      /\ downSent' = downSent /\ downReceived' = downReceived
      /\ command' = command /\ in_try' = in_try /\ failed' = failed
      /\ handled' = handled /\ executed' = executed
      /\ client' = client /\ answers' = answers /\ gone' = gone
  BY DEF RecvAuth, down, ghosts
<1>2. /\ upReceived = << >> /\ Len(upReceived) = 0 /\ Len(downSent) = 1
      /\ handled = << >> /\ ~in_try /\ ~failed
  BY <1>1 DEF Inv, Serving
<1>3. /\ upSent' = upSent /\ upReceived' \in Seq(Asked)
      /\ Len(upReceived') = Len(upReceived) + 1
      /\ Len(upReceived) + 1 <= Len(upSent) /\ Len(upSent) \in Nat
      /\ U!Arriving = upSent[Len(upReceived) + 1]
      /\ upReceived' # << >>
      /\ Carried'
  BY <1>1, PacketArrives DEF Inv
<1>4. seq' = 2 % SeqMod /\ seq' \in 0 .. SeqMod - 1
  <2>1. 1 \in 1 .. Len(upSent)  BY <1>2, <1>3
  <2>2. upSent[1] = [seq |-> 1, payload |-> Auth]  BY <2>1 DEF Inv, Carried
  <2>3. U!Arriving = [seq |-> 1, payload |-> Auth]  BY <1>2, <1>3, <2>2
  <2>4. seq' = 2 % SeqMod  BY <1>1, <2>3
  <2>5. 2 % SeqMod \in 0 .. SeqMod - 1  BY CountsOn
  <2> QED  BY <2>4, <2>5
<1>5. Typed'
  <2>1. <<make_ok>> \in Seq(PayloadType)
    <3>1. make_ok \in PayloadType  BY PacketFacts
    <3> QED  BY <3>1
  <2> QED  BY <1>1, <1>3, <1>4, <2>1 DEF Inv, Typed
<1>6. Dispatched'
  <2>1. Len(upReceived') \in Nat /\ Len(upReceived) <= Len(upReceived')
    BY <1>2, <1>3
  <2> QED  BY <1>1, <1>3, <2>1, SameOutcomes DEF Inv
<1>7. Laid(start)'  BY <1>1, SameReplies DEF Inv
<1>8. Serving(start)'
  <2>1. /\ pc' = "welcome" /\ Len(downSent') = 1 /\ Len(upReceived') = 1
        /\ upReceived' # << >> /\ handled' = << >> /\ ~in_try' /\ ~failed'
    BY <1>1, <1>2, <1>3
  <2> QED  BY <1>1, <1>4, <2>1 DEF Serving
<1>9. Reading(start)'  BY <1>1, <1>3 DEF Inv, Reading
<1> QED  BY <1>3, <1>5, <1>6, <1>7, <1>8, <1>9 DEF Inv

LEMMA RecvCommandStep ==
  ASSUME NEW start, Inv(start), RecvCommand
  PROVE  Inv(start)'
<1> DEFINE last == Len(handled)
<1>1. /\ pc = "command" /\ U!Receive /\ seq' = (U!Arriving.seq + 1) % SeqMod
      /\ command' = U!Arriving.payload
      /\ pc' \in {"closed", "dispatch"}
      /\ downSent' = downSent /\ downReceived' = downReceived
      /\ reply' = reply /\ in_try' = in_try /\ failed' = failed
      /\ handled' = handled /\ executed' = executed
      /\ client' = client /\ answers' = answers /\ gone' = gone
  BY DEF RecvCommand, down, ghosts
<1>2. /\ ~failed /\ Len(downSent) = start[last + 1]
      /\ Len(upReceived) = last + 1 /\ last \in Nat
  BY <1>1 DEF Inv, Serving, Typed
<1>3. /\ upSent' = upSent /\ upReceived' \in Seq(Asked)
      /\ Len(upReceived') = Len(upReceived) + 1
      /\ Len(upReceived) + 1 <= Len(upSent) /\ Len(upSent) \in Nat
      /\ U!Arriving = upSent[Len(upReceived) + 1]
      /\ upReceived' # << >>
      /\ Carried'
  BY <1>1, PacketArrives DEF Inv
<1>4. /\ U!Arriving = upSent[last + 2]
      /\ U!Arriving.seq = 0 /\ U!Arriving.payload \in Commands
  <2>1. /\ last + 2 = Len(upReceived) + 1 /\ last + 2 \in 1 .. Len(upSent)
        /\ last + 2 # 1
    BY <1>2, <1>3
  <2> HIDE DEF last
  <2>2. upSent[last + 2].seq = 0 /\ upSent[last + 2].payload \in Commands
    BY <2>1 DEF Inv, Carried
  <2> QED  BY <1>3, <2>1, <2>2
<1>5. seq' = 1 % SeqMod /\ seq' \in 0 .. SeqMod - 1
  <2>1. 1 % SeqMod \in 0 .. SeqMod - 1  BY CountsOn
  <2> QED  BY <1>1, <1>4, <2>1
<1>6. Typed'  BY <1>1, <1>3, <1>4, <1>5 DEF Inv, Typed
<1>7. Dispatched'
  <2>1. Len(upReceived') \in Nat /\ Len(upReceived) <= Len(upReceived')
    BY <1>2, <1>3
  <2> QED  BY <1>1, <1>3, <2>1, SameOutcomes DEF Inv
<1>8. Laid(start)'  BY <1>1, SameReplies DEF Inv
<1>9. Serving(start)'
  <2>1. /\ upReceived' # << >> /\ ~failed'
        /\ Len(downSent') = start[Len(handled') + 1]
        /\ Len(upReceived') = Len(handled') + 2
        /\ command' = upSent'[Len(handled') + 2].payload
    BY <1>1, <1>2, <1>3, <1>4
  <2>2. CASE pc' = "closed"  BY <2>1, <2>2 DEF Serving
  <2>3. CASE pc' = "dispatch"  BY <1>5, <2>1, <2>3 DEF Serving
  <2> QED  BY <1>1, <2>2, <2>3
<1>10. Reading(start)'  BY <1>1, <1>3 DEF Inv, Reading
<1> QED  BY <1>3, <1>6, <1>7, <1>8, <1>9, <1>10 DEF Inv

LEMMA RecvFailsStep ==
  ASSUME NEW start, Inv(start), RecvFails
  PROVE  Inv(start)'
<1>1. /\ pc' = "closed"
      /\ upSent' = upSent /\ upReceived' = upReceived
      /\ downSent' = downSent /\ downReceived' = downReceived
      /\ seq' = seq /\ reply' = reply /\ command' = command
      /\ in_try' = in_try /\ failed' = failed
      /\ handled' = handled /\ executed' = executed
      /\ client' = client /\ answers' = answers /\ gone' = gone
  BY DEF RecvFails, up, down, ghosts
<1>2. Typed'  BY <1>1 DEF Inv, Typed
<1>3. Carried'  BY <1>1 DEF Inv, Carried
<1>4. Dispatched'  BY <1>1 DEF Inv, Dispatched
<1>5. Laid(start)'  BY <1>1, SameReplies DEF Inv
<1>6. Serving(start)'
  <2>1. /\ upReceived = << >> => Len(downSent) <= 1
        /\ failed => gone
    BY DEF Inv, Serving
  <2> QED  BY <1>1, <2>1 DEF Serving
<1>7. Reading(start)'  BY <1>1 DEF Inv, Reading
<1> QED  BY <1>2, <1>3, <1>4, <1>5, <1>6, <1>7 DEF Inv
\* The reply to the command that is dispatched goes behind the others.
LEMMA DispatchStep ==
  ASSUME NEW start, Inv(start), Dispatch
  PROVE  \E next \in Seq(Nat) : Inv(next)'
<1>0. PICK last : last = Len(handled)  OBVIOUS
<1>1. PICK o \in Replies(command) : handled' = Append(handled, o) /\ reply' = Payloads(o)
  BY DEF Dispatch
<1>2. /\ pc = "dispatch" /\ pc' = "answer"
      /\ executed' = IF IsStmt(command) THEN executed \cup {last + 1} ELSE executed
      /\ in_try' \in BOOLEAN
      /\ upSent' = upSent /\ upReceived' = upReceived
      /\ downSent' = downSent /\ downReceived' = downReceived
      /\ seq' = seq /\ command' = command /\ failed' = failed
      /\ client' = client /\ answers' = answers /\ gone' = gone
  BY <1>0 DEF Dispatch, up, down
<1>3. /\ last \in Nat /\ ~failed /\ Len(downSent) = start[last + 1]
      /\ Len(upReceived) = last + 2 /\ Len(upReceived) <= Len(upSent)
      /\ Len(upSent) \in Nat /\ Len(downSent) \in Nat
      /\ command = upSent[last + 2].payload /\ seq = 1 % SeqMod
  BY <1>0, <1>2 DEF Inv, Typed, Carried, Serving
<1>4. command \in Commands
  <2>1. last + 2 \in 1 .. Len(upSent) /\ last + 2 # 1  BY <1>3
  <2> QED  BY <1>3, <2>1 DEF Inv, Carried
<1>5. /\ o \in OutcomeType /\ Payloads(o) \in Seq(PayloadType)
      /\ Len(Payloads(o)) \in Nat \ {0}
  BY <1>4, ReplyFacts, PayloadsFacts
<1>6. /\ handled' \in Seq(OutcomeType) /\ Len(handled') = last + 1
      /\ \A k \in 1 .. last : handled'[k] = handled[k]
      /\ handled'[last + 1] = o
  BY <1>0, <1>1, <1>5, Appended DEF Inv, Typed
<1> DEFINE z == Len(Payloads(o))
           f == start[last + 1]
<1>7. /\ start \in [1 .. last + 1 -> Nat] /\ f \in Nat /\ start[1] = 2
      /\ \A k \in 1 .. last : start[k + 1] = start[k] + Size(k)
      /\ \A k, l \in 1 .. last + 1 : k <= l => start[k] <= start[l]
  <2>1. last + 1 \in 1 .. last + 1  BY <1>3
  <2> QED  BY <1>0, <2>1 DEF Inv, Laid
<1> HIDE DEF z, f
<1>16. PICK next : next = [k \in 1 .. last + 2 |->
                            IF k = last + 2 THEN f + z ELSE start[k]]
  OBVIOUS
<1>8. /\ next \in [1 .. last + 2 -> Nat]
      /\ \A k \in 1 .. last + 1 : next[k] = start[k]
      /\ next[last + 2] = f + z
  BY <1>3, <1>5, <1>7, <1>16 DEF z
<1>9. next \in Seq(Nat)
  <2>1. last + 2 \in Nat  BY <1>3
  <2> QED  BY <1>8, <2>1
<1>10. Typed'
  BY <1>1, <1>2, <1>5, <1>6 DEF Inv, Typed
<1>11. Carried'  BY <1>2 DEF Inv, Carried
<1>12. Dispatched'
  <2>1. ASSUME NEW k \in 1 .. last + 1
        PROVE  k < Len(upReceived) /\ handled'[k] \in Replies(upSent[k + 1].payload)
    <3>1. CASE k \in 1 .. last
      BY <1>0, <1>6, <3>1 DEF Inv, Dispatched
    <3>2. CASE k = last + 1
      <4>1. k + 1 = last + 2 /\ k < Len(upReceived)  BY <1>3, <3>2
      <4> QED  BY <1>3, <1>6, <3>2, <4>1
    <3> QED  BY <1>3, <3>1, <3>2
  <2>2. ASSUME NEW k \in Nat
        PROVE  k \in executed' <=> k \in 1 .. last + 1 /\ IsStmt(upSent[k + 1].payload)
    <3>1. k \in executed <=> k \in 1 .. last /\ IsStmt(upSent[k + 1].payload)
      BY <1>0 DEF Inv, Dispatched
    <3>2. CASE k = last + 1
      <4>1. /\ k + 1 = last + 2 /\ k \notin 1 .. last /\ k \in 1 .. last + 1
        BY <1>3, <3>2
      <4>2. upSent[k + 1].payload = command  BY <1>3, <4>1
      <4> QED  BY <1>2, <3>1, <3>2, <4>1, <4>2
    <3>3. CASE k # last + 1
      <4>1. k \in 1 .. last + 1 <=> k \in 1 .. last  BY <1>3, <3>3
      <4>2. k \in executed' <=> k \in executed  BY <1>2, <3>3
      <4> QED  BY <3>1, <4>1, <4>2
    <3> QED  BY <3>2, <3>3
  <2> QED  BY <1>2, <1>6, <2>1, <2>2 DEF Dispatched
<1>13. Laid(next)'
  <2>1. next \in [1 .. Len(handled') + 1 -> Nat]
    <3>1. Len(handled') + 1 = last + 2  BY <1>3, <1>6
    <3> QED  BY <1>8, <3>1
  <2>2. next[1] = 2
    <3>1. 1 \in 1 .. last + 1  BY <1>3
    <3> QED  BY <1>7, <1>8, <3>1
  <2>3. /\ \A k \in 1 .. last : Size(k)' = Size(k)
        /\ Size(last + 1)' = z
    BY <1>0, <1>3, <1>6 DEF Size, z
  <2>4. ASSUME NEW k \in 1 .. last + 1
        PROVE  next[k + 1] = next[k] + Size(k)'
    <3>1. CASE k = last + 1
      <4>1. k + 1 = last + 2 /\ k \in 1 .. last + 1  BY <1>3, <3>1
      <4> QED  BY <1>8, <2>3, <3>1, <4>1 DEF f
    <3>2. CASE k # last + 1
      <4>1. k \in 1 .. last /\ k + 1 \in 1 .. last + 1  BY <1>3, <3>2
      <4> QED  BY <1>7, <1>8, <2>3, <4>1
    <3> QED  BY <3>1, <3>2
  <2>5. ASSUME NEW k \in 1 .. last + 2, NEW l \in 1 .. last + 2, k <= l
        PROVE  next[k] <= next[l]
    <3>1. CASE l # last + 2
      <4>1. k \in 1 .. last + 1 /\ l \in 1 .. last + 1  BY <1>3, <2>5, <3>1
      <4> QED  BY <1>7, <1>8, <2>5, <4>1
    <3>2. CASE l = last + 2 /\ k # last + 2
      <4>1. k \in 1 .. last + 1 /\ last + 1 \in 1 .. last + 1 /\ k <= last + 1
        BY <1>3, <3>2
      <4>2. next[k] <= f /\ next[k] \in Nat /\ next[l] = f + z
        BY <1>7, <1>8, <3>2, <4>1 DEF f
      <4> QED  BY <1>5, <1>7, <4>2 DEF z
    <3>3. CASE l = last + 2 /\ k = last + 2
      <4>1. next[k] \in Nat  BY <1>8
      <4> QED  BY <3>3, <4>1
    <3> QED  BY <3>1, <3>2, <3>3
  <2>6. Len(downSent) <= next[last + 2]
    BY <1>3, <1>5, <1>7, <1>8 DEF f, z
  <2>7. ASSUME NEW k \in 1 .. last + 1, NEW j \in 1 .. Size(k)',
               next[k] + j <= Len(downSent)
        PROVE  downSent[next[k] + j] = [seq |-> j % SeqMod,
                                        payload |-> Payloads(handled'[k])[j]]
    <3>1. CASE k = last + 1
      <4>1. next[k] = Len(downSent)  BY <1>3, <1>8, <3>1
      <4>2. j \in Nat /\ j >= 1  BY <1>5, <2>3, <3>1 DEF z
      <4> QED  BY <1>3, <2>7, <4>1, <4>2
    <3>2. CASE k # last + 1
      <4>1. k \in 1 .. last /\ k \in 1 .. last + 1  BY <1>3, <3>2
      <4>2. j \in 1 .. Size(k) /\ next[k] = start[k] /\ handled'[k] = handled[k]
        BY <1>6, <1>8, <2>3, <4>1
      <4> QED  BY <1>0, <2>7, <4>1, <4>2, PacketOfReply DEF Inv
    <3> QED  BY <3>1, <3>2
  <2>8. /\ Len(downSent) >= 1 =>
             downSent[1] = [seq |-> 0, payload |-> make_handshake_v10]
        /\ Len(downSent) >= 2 =>
             downSent[2] = [seq |-> 2 % SeqMod, payload |-> make_ok]
    BY DEF Inv, Laid
  <2>9. Len(handled') + 1 = last + 2  BY <1>3, <1>6
  <2>10. \A k \in 1 .. Len(handled') : next[k + 1] = next[k] + Size(k)'
    BY <1>6, <2>4
  <2>11. \A k, l \in 1 .. Len(handled') + 1 : k <= l => next[k] <= next[l]
    BY <2>5, <2>9
  <2>12. Len(downSent') <= next[Len(handled') + 1]  BY <1>2, <2>6, <2>9
  <2>13. \A k \in 1 .. Len(handled') : \A j \in 1 .. Size(k)' :
           next[k] + j <= Len(downSent') =>
             downSent'[next[k] + j] = [seq |-> j % SeqMod,
                                       payload |-> Payloads(handled'[k])[j]]
    BY <1>2, <1>6, <2>7
  <2> QED
    BY <1>2, <2>1, <2>2, <2>8, <2>10, <2>11, <2>12, <2>13 DEF Laid
<1>14. Serving(next)'
  <2> DEFINE r == Len(downSent') - next[Len(handled')]
  <2>1. r = 0
    <3>1. next[Len(handled')] = f /\ Len(downSent') = f
      <4>1. last + 1 \in 1 .. last + 1  BY <1>3
      <4> QED  BY <1>2, <1>3, <1>6, <1>8, <4>1 DEF f
    <3> QED  BY <1>7, <3>1
  <2>2. /\ Payloads(handled'[Len(handled')]) = Payloads(o)
        /\ Size(Len(handled))' = z
    BY <1>6 DEF Size, z
  <2>3. /\ r \in 0 .. Size(Len(handled))' - 1
        /\ Len(reply') = Size(Len(handled))' - r
        /\ \A i \in 1 .. Len(reply') :
             reply'[i] = Payloads(handled'[Len(handled')])[r + i]
        /\ seq' = (r + 1) % SeqMod
    <3>1. reply' = Payloads(o) /\ Len(reply') = z /\ z \in Nat \ {0}
      BY <1>1, <1>5 DEF z
    <3>2. seq' = 1 % SeqMod  BY <1>2, <1>3
    <3> HIDE DEF r
    <3>3. \A i \in 1 .. z : r + i = i  BY <2>1, <3>1
    <3> QED  BY <2>1, <2>2, <3>1, <3>2, <3>3
  <2>4. /\ pc' = "answer" /\ Len(handled') > 0 /\ ~failed'
        /\ Len(upReceived') = Len(handled') + 1 /\ upReceived' # << >>
    BY <1>2, <1>3, <1>6
  <2> QED  BY <2>3, <2>4 DEF Serving
<1>15. Reading(next)'
  <2> DEFINE told == Len(answers)
  <2>1. /\ told \in Nat /\ told <= last
        /\ \A i \in 1 .. told : answers[i] = handled[i]
        /\ Len(downReceived) <= Len(downSent)
    BY <1>0 DEF Inv, Typed, Reading
  <2>2. next[told + 1] = start[told + 1]
    <3>1. told + 1 \in 1 .. last + 1  BY <1>3, <2>1
    <3> QED  BY <1>8, <3>1
  <2>3. \A i \in 1 .. told : answers'[i] = handled'[i]
    <3>1. \A i \in 1 .. told : i \in 1 .. last  BY <1>3, <2>1
    <3> QED  BY <1>2, <1>6, <2>1, <3>1
  <2>4. told < last => told < Len(handled') /\ handled'[told + 1] = handled[told + 1]
    <3>1. told < last => told + 1 \in 1 .. last  BY <1>3, <2>1
    <3> QED  BY <1>3, <1>6, <2>1, <3>1
  <2>5. told <= Len(handled')  BY <1>3, <1>6, <2>1
  <2> QED
    BY <1>0, <1>2, <2>1, <2>2, <2>3, <2>4, <2>5 DEF Inv, Reading
<1> QED  BY <1>9, <1>10, <1>11, <1>12, <1>13, <1>14, <1>15 DEF Inv
----------------------------------------------------------------------------
(* The client's steps *)

\* A packet that goes up the channel: the server's state stays.
LEMMA PacketGiven ==
  ASSUME NEW start, Inv(start), NEW p \in Asked, U!Send(p), UNCHANGED <<down, server>>,
         answers' = answers, gone' = gone,
         IF upSent = << >> THEN p = [seq |-> 1, payload |-> Auth]
         ELSE p.seq = 0 /\ p.payload \in Commands
  PROVE  /\ Typed' /\ Carried' /\ Dispatched' /\ Laid(start)' /\ Serving(start)'
         /\ Len(upSent') = Len(upSent) + 1 /\ Len(upSent) \in Nat
         /\ upSent' # << >>
<1>1. /\ upSent' = Append(upSent, p) /\ upReceived' = upReceived
      /\ downSent' = downSent /\ downReceived' = downReceived
      /\ pc' = pc /\ seq' = seq /\ reply' = reply /\ command' = command
      /\ in_try' = in_try /\ failed' = failed
      /\ handled' = handled /\ executed' = executed
  BY DEF U!Send, down, server
<1>2. /\ upSent' \in Seq(Asked) /\ Len(upSent') = Len(upSent) + 1
      /\ Len(upSent) \in Nat /\ Len(upReceived) \in Nat /\ Len(handled) \in Nat
      /\ \A i \in 1 .. Len(upSent) : upSent'[i] = upSent[i]
      /\ upSent'[Len(upSent) + 1] = p
      /\ upSent' # << >>
      /\ Len(upReceived) <= Len(upSent)
  <2>1. /\ upSent \in Seq(Asked) /\ Len(upReceived) \in Nat
        /\ Len(handled) \in Nat /\ Len(upReceived) <= Len(upSent)
    BY DEF Inv, Typed, Carried
  <2> QED  BY <1>1, <2>1, Appended
<1>3. Typed'  BY <1>1, <1>2 DEF Inv, Typed
<1>4. Carried'
  <2>1. ASSUME NEW i \in 1 .. Len(upSent) + 1
        PROVE  IF i = 1 THEN upSent'[i] = [seq |-> 1, payload |-> Auth]
               ELSE upSent'[i].seq = 0 /\ upSent'[i].payload \in Commands
    <3>1. CASE i \in 1 .. Len(upSent)
      BY <1>2, <3>1 DEF Inv, Carried
    <3>2. CASE i = Len(upSent) + 1
      <4>1. upSent = << >> <=> Len(upSent) = 0  BY DEF Inv, Typed
      <4> QED  BY <1>2, <3>2, <4>1
    <3> QED  BY <1>2, <3>1, <3>2
  <2> QED  BY <1>1, <1>2, <2>1 DEF Carried
<1>5. Dispatched'  BY <1>1, <1>2, SameOutcomes DEF Inv
<1>6. Laid(start)'  BY <1>1, SameReplies DEF Inv
<1>7. Serving(start)'
  <2>1. pc = "dispatch" => upSent'[Len(handled) + 2] = upSent[Len(handled) + 2]
    <3> SUFFICES ASSUME pc = "dispatch"
                 PROVE  Len(handled) + 2 \in 1 .. Len(upSent)
      BY <1>2
    <3>1. Len(upReceived) = Len(handled) + 2  BY DEF Inv, Serving
    <3> QED  BY <1>2, <3>1
  <2>2. Size(Len(handled))' = Size(Len(handled))  BY <1>1 DEF Size
  <2> QED  BY <1>1, <2>1, <2>2 DEF Inv, Serving
<1> QED  BY <1>2, <1>3, <1>4, <1>5, <1>6, <1>7

LEMMA PlaceNames ==
  /\ \A at, n : WaitingAt(at, n).at = at
  /\ \A at, n, left, cols, rows :
       /\ Waiting(at, n, left, cols, rows).at = at
       /\ Waiting(at, n, left, cols, rows).seq = n % SeqMod
       /\ Waiting(at, n, left, cols, rows).left = left
       /\ Waiting(at, n, left, cols, rows).cols = cols
       /\ Waiting(at, n, left, cols, rows).rows = rows
  BY DEF WaitingAt, Waiting

LEMMA AuthenticateStep ==
  ASSUME NEW start, Inv(start), Authenticate
  PROVE  Inv(start)'
<1> DEFINE p == [seq |-> 1, payload |-> Auth]
<1>1. /\ client.at = "authenticate" /\ U!Send(p)
      /\ client' = WaitingAt("welcome", 2) /\ answers' = answers
      /\ UNCHANGED <<down, server>> /\ gone' = gone
  BY DEF Authenticate, Become
<1>2. upSent = << >> /\ Len(downReceived) = 1 /\ Len(answers) = 0
  BY <1>1, PlaceNames DEF Inv, Reading, InResult
<1>3. p \in Asked  BY DEF Asked
<1> HIDE DEF p
<1>4. /\ Typed' /\ Carried' /\ Dispatched' /\ Laid(start)' /\ Serving(start)'
      /\ Len(upSent') = Len(upSent) + 1
  <2>1. p = [seq |-> 1, payload |-> Auth]  BY DEF p
  <2> QED  BY <1>1, <1>2, <1>3, <2>1, PacketGiven
<1>5. Reading(start)'
  <2>1. downReceived' = downReceived /\ downSent' = downSent /\ handled' = handled
    BY <1>1 DEF down, server
  <2>2. Len(upSent') = 1  BY <1>2, <1>4
  <2> QED  BY <1>1, <1>2, <2>1, <2>2 DEF Inv, Reading
<1> QED  BY <1>4, <1>5 DEF Inv

LEMMA AskStep ==
  ASSUME NEW start, Inv(start), NEW c \in Commands, Ask(c)
  PROVE  Inv(start)' /\ upSent # << >> /\ upSent' = Append(upSent, [seq |-> 0, payload |-> c])
<1> DEFINE p == [seq |-> 0, payload |-> c]
<1>1. /\ client.at \in {"reply", "columns", "rows"} /\ U!Send(p)
      /\ client' = client /\ answers' = answers
      /\ UNCHANGED <<down, server>> /\ gone' = gone
  BY DEF Ask
<1>2. upSent # << >>
  <2>1. /\ client # WaitingAt("greeting", 0) /\ client # WaitingAt("authenticate", 1)
        /\ client # WaitingAt("welcome", 2)
    BY <1>1, PlaceNames
  <2> QED  BY <2>1 DEF Inv, Reading
<1>3. p \in Asked /\ p.seq = 0 /\ p.payload \in Commands  BY DEF Asked
<1>4. upSent' = Append(upSent, p)  BY <1>1 DEF U!Send
<1> HIDE DEF p
<1>5. /\ Typed' /\ Carried' /\ Dispatched' /\ Laid(start)' /\ Serving(start)'
      /\ upSent' # << >>
  BY <1>1, <1>2, <1>3, PacketGiven
<1>6. Reading(start)'
  <2>1. downReceived' = downReceived /\ downSent' = downSent /\ handled' = handled
    BY <1>1 DEF down, server
  <2>2. /\ client # WaitingAt("greeting", 0) /\ client # WaitingAt("authenticate", 1)
        /\ client # WaitingAt("welcome", 2)
    BY <1>1, PlaceNames
  <2> QED  BY <1>1, <1>5, <2>1, <2>2 DEF Inv, Reading
<1> QED  BY <1>2, <1>4, <1>5, <1>6 DEF Inv, p

LEMMA LeaveStep ==
  ASSUME NEW start, Inv(start), Leave
  PROVE  Inv(start)'
<1>1. /\ gone' = TRUE
      /\ upSent' = upSent /\ upReceived' = upReceived
      /\ downSent' = downSent /\ downReceived' = downReceived
      /\ pc' = pc /\ seq' = seq /\ reply' = reply /\ command' = command
      /\ in_try' = in_try /\ failed' = failed
      /\ handled' = handled /\ executed' = executed
      /\ client' = client /\ answers' = answers
  BY DEF Leave, up, down, server
<1>2. Typed'  BY <1>1 DEF Inv, Typed
<1>3. Carried'  BY <1>1 DEF Inv, Carried
<1>4. Dispatched'  BY <1>1 DEF Inv, Dispatched
<1>5. Laid(start)'  BY <1>1, SameReplies DEF Inv
<1>6. Serving(start)'
  <2>1. Size(Len(handled))' = Size(Len(handled))  BY <1>1 DEF Size
  <2> QED  BY <1>1, <2>1 DEF Inv, Serving
<1>7. Reading(start)'  BY <1>1 DEF Inv, Reading
<1> QED  BY <1>2, <1>3, <1>4, <1>5, <1>6, <1>7 DEF Inv
\* The number that follows.
LEMMA NextNumber ==
  ASSUME NEW n \in Nat, NEW m, m = n % SeqMod
  PROVE  /\ \A at : WaitingAt(at, m + 1) = WaitingAt(at, n + 1)
         /\ \A at, left, cols, rows :
              Waiting(at, m + 1, left, cols, rows) = Waiting(at, n + 1, left, cols, rows)
<1>1. (m + 1) % SeqMod = (n + 1) % SeqMod  BY CountsOn
<1> QED  BY <1>1 DEF WaitingAt, Waiting

\* A packet that arrives at the client.
LEMMA PacketRead ==
  ASSUME Typed, ClientReads
  PROVE  LET read == Len(downReceived)
             p == downSent[read + 1]
         IN /\ read \in Nat /\ read + 1 <= Len(downSent) /\ Len(downSent) \in Nat
            /\ p \in Down
            /\ downReceived' \in Seq(Down) /\ Len(downReceived') = read + 1
            /\ IF p.seq = client.seq /\ Expects(p.payload)
               THEN Reads(p.payload) ELSE Confused
            /\ ~gone /\ upSent' = upSent /\ upReceived' = upReceived
            /\ downSent' = downSent /\ gone' = gone
            /\ pc' = pc /\ seq' = seq /\ reply' = reply /\ command' = command
            /\ in_try' = in_try /\ failed' = failed
            /\ handled' = handled /\ executed' = executed
<1>1. PICK p : p = downSent[Len(downReceived) + 1]  OBVIOUS
<1>2. /\ ~gone /\ upSent' = upSent /\ upReceived' = upReceived
      /\ downSent' = downSent /\ gone' = gone
      /\ pc' = pc /\ seq' = seq /\ reply' = reply /\ command' = command
      /\ in_try' = in_try /\ failed' = failed
      /\ handled' = handled /\ executed' = executed
      /\ downReceived' = Append(downReceived, p)
      /\ Len(downSent) - Len(downReceived) > 0
      /\ IF p.seq = client.seq /\ Expects(p.payload)
         THEN Reads(p.payload) ELSE Confused
  BY <1>1 DEF ClientReads, up, server, D!Receive, D!InFlight, D!Arriving
<1>3. /\ Len(downReceived) \in Nat /\ Len(downSent) \in Nat
      /\ downSent \in Seq(Down) /\ downReceived \in Seq(Down)
  BY DEF Typed
<1>4. Len(downReceived) + 1 <= Len(downSent)  BY <1>2, <1>3
<1>5. p \in Down
  <2>1. Len(downReceived) + 1 \in 1 .. Len(downSent)  BY <1>3, <1>4
  <2> QED  BY <1>1, <1>3, <2>1
<1>6. downReceived' \in Seq(Down) /\ Len(downReceived') = Len(downReceived) + 1
  BY <1>2, <1>3, <1>5, Appended
<1> QED  BY <1>1, <1>2, <1>3, <1>4, <1>5, <1>6

\* Greeting and OK, before the first command.
LEMMA WelcomeRead ==
  ASSUME NEW start, Inv(start), ClientReads,
         client \in {WaitingAt("greeting", 0), WaitingAt("authenticate", 1),
                     WaitingAt("welcome", 2)}
  PROVE  Reading(start)' /\ answers' = answers
<1> DEFINE read == Len(downReceived)
<1>1. PICK p : p = downSent[read + 1]  OBVIOUS
<1>2. /\ read \in Nat /\ read + 1 <= Len(downSent) /\ Len(downSent) \in Nat
      /\ Len(downReceived') = read + 1
      /\ IF p.seq = client.seq /\ Expects(p.payload)
         THEN Reads(p.payload) ELSE Confused
      /\ upSent' = upSent /\ downSent' = downSent /\ handled' = handled
  BY <1>1, PacketRead DEF Inv
<1>3. /\ Len(answers) = 0 /\ Len(answers) <= Len(handled)
      /\ client = WaitingAt("greeting", 0) => upSent = << >> /\ read = 0
      /\ client = WaitingAt("authenticate", 1) => upSent = << >> /\ read = 1
      /\ client = WaitingAt("welcome", 2) => Len(upSent) = 1 /\ read = 1
  <2>1. /\ \A n : client # WaitingAt("reply", n)
        /\ client.at \notin {"columns", "rows"}
    BY PlaceNames
  <2>2. \A n, o : ~InResult(client, n, o)
    BY <2>1, PlaceNames DEF InResult
  <2> QED  BY <2>1, <2>2, PlaceNames DEF Inv, Reading
<1>4. /\ start[1] = 2
      /\ downSent[1] = [seq |-> 0, payload |-> make_handshake_v10]
      /\ Len(downSent) >= 2 => downSent[2] = [seq |-> 2 % SeqMod, payload |-> make_ok]
  BY <1>2 DEF Inv, Laid
<1>5. ASSUME answers' = answers,
             \/ client' = WaitingAt("authenticate", 1) /\ upSent = << >> /\ read + 1 = 1
             \/ client' = WaitingAt("reply", 1) /\ upSent # << >> /\ read + 1 = 2
      PROVE  Reading(start)'
  <2>1. \A i \in 1 .. Len(answers') : answers'[i] = handled'[i]  BY <1>3, <1>5
  <2> QED  BY <1>2, <1>3, <1>4, <1>5, <2>1 DEF Reading
<1>6. CASE client = WaitingAt("greeting", 0)
  <2>1. p = [seq |-> 0, payload |-> make_handshake_v10]
    BY <1>1, <1>3, <1>4, <1>6
  <2>2. client.at = "greeting" /\ client.seq = 0 % SeqMod /\ 0 % SeqMod = 0
    BY <1>6, SeqModAssumption, PlaceNames DEF WaitingAt
  <2>3. Expects(p.payload)
    BY <2>1, <2>2, PacketFacts DEF Expects
  <2>4. Reads(p.payload)  BY <1>2, <2>1, <2>2, <2>3
  <2>5. client' = WaitingAt("authenticate", client.seq + 1) /\ answers' = answers
    BY <2>2, <2>4 DEF Reads, Become
  <2>6. client' = WaitingAt("authenticate", 1)
    <3>1. WaitingAt("authenticate", client.seq + 1) = WaitingAt("authenticate", 0 + 1)
      BY <2>2, NextNumber
    <3> QED  BY <2>5, <3>1
  <2> QED  BY <1>3, <1>5, <1>6, <2>5, <2>6
<1>7. CASE client = WaitingAt("authenticate", 1)
  <2>1. upReceived = << >>
    <3>1. upSent = << >> /\ Len(upReceived) <= Len(upSent)
      BY <1>3, <1>7 DEF Inv, Carried
    <3> QED  BY <3>1 DEF Inv, Typed
  <2>2. Len(downSent) <= 1  BY <2>1 DEF Inv, Serving
  <2> QED  BY <1>2, <1>3, <1>7, <2>2
<1>8. CASE client = WaitingAt("welcome", 2)
  <2> HIDE DEF read
  <2>8. read = 1 /\ Len(upSent) = 1  BY <1>3, <1>8
  <2>0. read = 1 /\ Len(upSent) = 1 /\ read + 1 = 2  BY <2>8
  <2>7. Len(downSent) >= 2  BY <1>2, <2>0
  <2>1. p = [seq |-> 2 % SeqMod, payload |-> make_ok]
    BY <1>1, <1>4, <2>0, <2>7
  <2>2. client.at = "welcome" /\ client.seq = 2 % SeqMod
    BY <1>8, PlaceNames DEF WaitingAt
  <2>3. Expects(p.payload)
    BY <2>1, <2>2, PacketFacts DEF Expects
  <2>4. Reads(p.payload)  BY <1>2, <2>1, <2>2, <2>3
  <2>5. client' = WaitingAt("reply", 1) /\ answers' = answers
    BY <2>2, <2>4 DEF Reads, Become
  <2>6. upSent # << >>  BY <2>0
  <2> QED  BY <1>5, <2>0, <2>5, <2>6
<1> QED  BY <1>6, <1>7, <1>8
\* The client has read the last packet of a reply.
LEMMA ReplyTold ==
  ASSUME NEW start, Inv(start), upSent # << >>,
         Len(answers) < Len(handled), Told(handled[Len(answers) + 1]),
         Len(downReceived') = start[Len(answers) + 2],
         Len(downReceived') <= Len(downSent),
         upSent' = upSent, downSent' = downSent, handled' = handled
  PROVE  /\ Reading(start)' /\ answers' = Append(answers, handled[Len(answers) + 1])
         /\ answers' \in Seq(OutcomeType)
<1> DEFINE n == Len(answers)
<1>1. /\ answers' = Append(answers, handled[n + 1])
      /\ client' = WaitingAt("reply", 1)
  BY DEF Told
<1>2. /\ n \in Nat /\ Len(handled) \in Nat /\ n + 1 \in 1 .. Len(handled)
      /\ answers \in Seq(OutcomeType) /\ handled \in Seq(OutcomeType)
      /\ \A i \in 1 .. n : answers[i] = handled[i]
  BY DEF Inv, Typed, Reading
<1>3. handled[n + 1] \in OutcomeType  BY <1>2
<1>4. /\ Len(answers') = n + 1 /\ \A i \in 1 .. n : answers'[i] = answers[i]
      /\ answers'[n + 1] = handled[n + 1] /\ answers' \in Seq(OutcomeType)
  BY <1>1, <1>2, <1>3, Appended
<1>5. \A i \in 1 .. n + 1 : answers'[i] = handled'[i]
  BY <1>2, <1>4
<1>6. /\ Len(answers') <= Len(handled') /\ Len(answers') + 1 = n + 2
  BY <1>2, <1>4
<1>7. Reading(start)'
  <2>1. /\ Len(downReceived') <= Len(downSent')
        /\ Len(downReceived') = start[Len(answers') + 1]
        /\ \A i \in 1 .. Len(answers') : answers'[i] = handled'[i]
        /\ upSent' # << >>
    BY <1>4, <1>5, <1>6
  <2> QED  BY <1>1, <1>6, <2>1 DEF Reading
<1> QED  BY <1>1, <1>4, <1>7

\* The client has read a packet of a result set that is not the last one.
LEMMA ResultGoesOn ==
  ASSUME NEW start, Inv(start), upSent # << >>, answers' = answers,
         Len(answers) < Len(handled),
         InResult(client', Len(downReceived') - start[Len(answers) + 1],
                  handled[Len(answers) + 1]),
         Len(downReceived') <= Len(downSent),
         upSent' = upSent, downSent' = downSent, handled' = handled
  PROVE  Reading(start)'
<1>1. \A i \in 1 .. Len(answers) : answers[i] = handled[i]
  BY DEF Inv, Reading
<1>2. /\ Len(downReceived') <= Len(downSent')
      /\ Len(answers') <= Len(handled')
      /\ \A i \in 1 .. Len(answers') : answers'[i] = handled'[i]
      /\ upSent' # << >> /\ Len(answers') < Len(handled')
      /\ InResult(client', Len(downReceived') - start[Len(answers') + 1],
                  handled'[Len(answers') + 1])
  BY <1>1 DEF Inv, Typed
<1> QED  BY <1>2 DEF Reading

\* The packet at a place of a reply.
LEMMA NextOfReply ==
  ASSUME NEW start, Inv(start), Len(answers) < Len(handled), NEW j \in Nat,
         j >= 1, j <= Size(Len(answers) + 1),
         Len(downReceived) + 1 = start[Len(answers) + 1] + j,
         Len(downReceived) + 1 <= Len(downSent)
  PROVE  downSent[Len(downReceived) + 1] =
           [seq |-> j % SeqMod, payload |-> Payloads(handled[Len(answers) + 1])[j]]
<1>1. Len(answers) + 1 \in 1 .. Len(handled) /\ Size(Len(answers) + 1) \in Nat
  <2>1. Len(answers) + 1 \in 1 .. Len(handled)  BY DEF Inv, Typed
  <2> QED  BY <2>1, HandledFacts DEF Inv
<1>2. j \in 1 .. Size(Len(answers) + 1)  BY <1>1
<1> QED  BY <1>1, <1>2, PacketOfReply DEF Inv

\* Where the reply the client reads lies, and what it is of.
LEMMA ReplyPlace ==
  ASSUME NEW start, Inv(start), Len(answers) < Len(handled)
  PROVE  LET k == Len(answers) + 1
             o == handled[k]
         IN /\ k \in Nat /\ k \in 1 .. Len(handled) /\ k + 1 = Len(answers) + 2
            /\ start[k] \in Nat /\ Size(k) = Len(Payloads(o))
            /\ start[Len(answers) + 2] = start[k] + Size(k)
            /\ o \in OutcomeType
            /\ o.kind = "ok" => o = Ok
            /\ o.kind = "err" => o = Err
            /\ o.kind = "rows" => o.cols > 0
            /\ Size(k) \in Nat \ {0}
<1> DEFINE k == Len(answers) + 1
<1>1. k \in Nat /\ k \in 1 .. Len(handled) /\ k + 1 = Len(answers) + 2
      /\ Len(handled) \in Nat /\ k \in 1 .. Len(handled) + 1
  BY DEF Inv, Typed
<1> HIDE DEF k
<1>2. start[k] \in Nat /\ start[k + 1] = start[k] + Size(k)
  BY <1>1 DEF Inv, Laid
<1>3. /\ upSent[k + 1].payload \in Commands
      /\ handled[k] \in Replies(upSent[k + 1].payload)
      /\ handled[k] \in OutcomeType /\ Size(k) \in Nat \ {0}
  BY <1>1, HandledFacts DEF Inv
<1>4. /\ handled[k].kind = "ok" => handled[k] = Ok
      /\ handled[k].kind = "err" => handled[k] = Err
      /\ handled[k].kind = "rows" => handled[k].cols > 0
  BY <1>3, ReplyFacts
<1> QED  BY <1>1, <1>2, <1>3, <1>4 DEF k, Size

LEMMA ReplyRead ==
  ASSUME NEW start, Inv(start), ClientReads, upSent # << >>,
         client = WaitingAt("reply", 1),
         Len(downReceived) = start[Len(answers) + 1]
  PROVE  /\ Reading(start)' /\ answers' \in Seq(OutcomeType)
         /\ \/ answers' = answers
            \/ /\ Len(answers) < Len(handled)
               /\ answers' = Append(answers, handled[Len(answers) + 1])
<1>1. PICK read : read = Len(downReceived)  OBVIOUS
<1>2. PICK p : p = downSent[read + 1]  OBVIOUS
<1>3. /\ read \in Nat /\ read + 1 <= Len(downSent) /\ Len(downSent) \in Nat
      /\ Len(downReceived') = read + 1
      /\ IF p.seq = client.seq /\ Expects(p.payload)
         THEN Reads(p.payload) ELSE Confused
      /\ upSent' = upSent /\ downSent' = downSent /\ handled' = handled
  BY <1>1, <1>2, PacketRead DEF Inv
<1>4. Len(answers) < Len(handled)
  <2>1. Len(answers) \in Nat /\ Len(handled) \in Nat /\ Len(answers) <= Len(handled)
    BY DEF Inv, Typed, Reading
  <2>2. Len(downSent) <= start[Len(handled) + 1]  BY DEF Inv, Laid
  <2>3. Len(answers) # Len(handled)  BY <1>1, <1>3, <2>2
  <2> QED  BY <2>1, <2>3
<1>5. PICK k : k = Len(answers) + 1  OBVIOUS
<1>6. PICK o : o = handled[k]  OBVIOUS
<1>7. /\ k \in Nat /\ k \in 1 .. Len(handled) /\ k + 1 = Len(answers) + 2
      /\ start[k] \in Nat /\ Size(k) = Len(Payloads(o))
      /\ start[Len(answers) + 2] = start[k] + Size(k)
      /\ o \in OutcomeType
      /\ o.kind = "ok" => o = Ok
      /\ o.kind = "err" => o = Err
      /\ o.kind = "rows" => o.cols > 0
      /\ Size(k) \in Nat \ {0}
  BY <1>4, <1>5, <1>6, ReplyPlace
<1>8. p = [seq |-> 1 % SeqMod, payload |-> Payloads(o)[1]]
  <2>1. 1 <= Size(Len(answers) + 1)  BY <1>5, <1>7
  <2>2. /\ Len(downReceived) + 1 = start[Len(answers) + 1] + 1
        /\ Len(downReceived) + 1 <= Len(downSent)
    BY <1>1, <1>3
  <2>3. downSent[Len(downReceived) + 1] =
          [seq |-> 1 % SeqMod, payload |-> Payloads(handled[Len(answers) + 1])[1]]
    BY <1>4, <2>1, <2>2, NextOfReply
  <2> QED  BY <1>1, <1>2, <1>5, <1>6, <2>3
<1>9. client.at = "reply" /\ client.seq = 1 % SeqMod
  BY PlaceNames DEF WaitingAt
<1>10. o.kind \in {"ok", "err", "rows"}  BY <1>7 DEF OutcomeType
<1>11. answers \in Seq(OutcomeType)  BY DEF Inv, Typed
<1>12. CASE o.kind = "ok"
  <2>1. Payloads(o) = <<make_ok>> /\ Size(k) = 1 /\ p.payload = make_ok
    <3>1. Payloads(o) = <<make_ok>>  BY <1>7, <1>12, PayloadsFacts
    <3>2. Len(Payloads(o)) = 1 /\ Payloads(o)[1] = make_ok  BY <3>1
    <3> QED  BY <1>7, <1>8, <3>1, <3>2
  <2>2. Expects(p.payload)
    BY <1>9, <2>1, PacketFacts DEF Expects
  <2>3. Reads(make_ok)  BY <1>3, <1>8, <1>9, <2>1, <2>2
  <2>4. Told(Ok)  BY <1>9, <2>3, PacketFacts DEF Reads
  <2>5. Told(handled[Len(answers) + 1])  BY <1>5, <1>6, <1>7, <1>12, <2>4
  <2>6. Len(downReceived') = start[Len(answers) + 2]
    BY <1>1, <1>3, <1>5, <1>7, <2>1
  <2>7. Len(downReceived') <= Len(downSent)  BY <1>3
  <2> QED  BY <1>3, <1>4, <2>5, <2>6, <2>7, ReplyTold
<1>13. CASE o.kind = "err"
  <2>1. Payloads(o) = <<make_err>> /\ Size(k) = 1 /\ p.payload = make_err
    <3>1. Payloads(o) = <<make_err>>  BY <1>7, <1>13, PayloadsFacts
    <3>2. Len(Payloads(o)) = 1 /\ Payloads(o)[1] = make_err  BY <3>1
    <3> QED  BY <1>7, <1>8, <3>1, <3>2
  <2>2. Expects(p.payload)
    BY <1>9, <2>1, PacketFacts DEF Expects
  <2>3. Reads(make_err)  BY <1>3, <1>8, <1>9, <2>1, <2>2
  <2>4. Told(Err)  BY <1>9, <2>3, PacketFacts DEF Reads
  <2>5. Told(handled[Len(answers) + 1])  BY <1>5, <1>6, <1>7, <1>13, <2>4
  <2>6. Len(downReceived') = start[Len(answers) + 2]
    BY <1>1, <1>3, <1>5, <1>7, <2>1
  <2>7. Len(downReceived') <= Len(downSent)  BY <1>3
  <2> QED  BY <1>3, <1>4, <2>5, <2>6, <2>7, ReplyTold
<1>14. CASE o.kind = "rows"
  <2>1. Payloads(o)[1] = column_count(o.cols) /\ o.cols \in Nat
    BY <1>7, <1>14, ResultPayloads
  <2>2. /\ p.payload = column_count(o.cols)
        /\ p.payload.n = o.cols /\ p.payload.head \notin {0, 251, 255}
    BY <1>7, <1>8, <1>14, <2>1, CountFacts
  <2>3. Expects(p.payload)
    BY <1>9, <2>2 DEF Expects
  <2>4. Reads(p.payload)  BY <1>3, <1>8, <1>9, <2>3
  <2>5. /\ client' = Waiting("columns", client.seq + 1, o.cols, o.cols, << >>)
        /\ answers' = answers
    BY <1>9, <2>2, <2>4 DEF Reads, Become, IsOk, IsErr
  <2>6. client' = Waiting("columns", 1 + 1, o.cols - 0, o.cols, << >>)
    BY <1>9, <2>1, <2>5, NextNumber
  <2>7. InResult(client', 1, o)
    <3>1. 0 \in 0 .. o.cols /\ 1 = 0 + 1  BY <2>1
    <3> QED  BY <1>14, <2>6, <3>1 DEF InResult
  <2>8. Len(downReceived') - start[Len(answers) + 1] = 1
    BY <1>1, <1>3, <1>5, <1>7
  <2>9. InResult(client', Len(downReceived') - start[Len(answers) + 1],
                 handled[Len(answers) + 1])
    BY <1>5, <1>6, <2>7, <2>8
  <2>10. Len(downReceived') <= Len(downSent)  BY <1>3
  <2> QED  BY <1>3, <1>4, <1>11, <2>5, <2>9, <2>10, ResultGoesOn
<1> QED  BY <1>10, <1>12, <1>13, <1>14
LEMMA SubSeqGrows ==
  ASSUME NEW V, NEW s \in Seq(V)
  PROVE  /\ SubSeq(s, 1, 0) = << >>
         /\ SubSeq(s, 1, Len(s)) = s
         /\ \A r \in 0 .. Len(s) : r < Len(s) =>
              Append(SubSeq(s, 1, r), s[r + 1]) = SubSeq(s, 1, r + 1)
<1>1. SubSeq(s, 1, 0) = << >>  OBVIOUS
<1>2. SubSeq(s, 1, Len(s)) = s
  <2>1. /\ SubSeq(s, 1, Len(s)) \in Seq(V) /\ Len(SubSeq(s, 1, Len(s))) = Len(s)
        /\ \A i \in 1 .. Len(s) : SubSeq(s, 1, Len(s))[i] = s[i]
    OBVIOUS
  <2> QED  BY <2>1, SeqEqual
<1>3. ASSUME NEW r \in 0 .. Len(s), r < Len(s)
      PROVE  Append(SubSeq(s, 1, r), s[r + 1]) = SubSeq(s, 1, r + 1)
  <2>1. PICK t : t = SubSeq(s, 1, r)  OBVIOUS
  <2>2. PICK u : u = SubSeq(s, 1, r + 1)  OBVIOUS
  <2>3. /\ r \in Nat /\ Len(s) \in Nat /\ r + 1 <= Len(s) /\ s[r + 1] \in V
    BY <1>3
  <2>4. t \in Seq(V) /\ Len(t) = r /\ \A i \in 1 .. r : t[i] = s[i]
    BY <2>1, <2>3
  <2>5. u \in Seq(V) /\ Len(u) = r + 1 /\ \A i \in 1 .. r + 1 : u[i] = s[i]
    BY <2>2, <2>3
  <2>6. PICK v : v = Append(t, s[r + 1])  OBVIOUS
  <2>7. /\ v \in Seq(V) /\ Len(v) = r + 1 /\ \A i \in 1 .. r : v[i] = t[i]
        /\ v[r + 1] = s[r + 1]
    BY <2>3, <2>4, <2>6, Appended
  <2>8. \A i \in 1 .. r + 1 : v[i] = u[i]
    <3> TAKE i \in 1 .. r + 1
    <3>1. CASE i = r + 1  BY <2>5, <2>7, <3>1
    <3>2. CASE i \in 1 .. r  BY <2>4, <2>5, <2>7, <3>2
    <3> QED  BY <2>3, <3>1, <3>2
  <2>9. v = u  BY <2>5, <2>7, <2>8, SeqEqual
  <2> QED  BY <2>1, <2>2, <2>6, <2>9
<1> QED  BY <1>1, <1>2, <1>3

LEMMA ResultRead ==
  ASSUME NEW start, Inv(start), ClientReads, upSent # << >>,
         Len(answers) < Len(handled),
         InResult(client, Len(downReceived) - start[Len(answers) + 1],
                  handled[Len(answers) + 1])
  PROVE  /\ Reading(start)' /\ answers' \in Seq(OutcomeType)
         /\ \/ answers' = answers
            \/ answers' = Append(answers, handled[Len(answers) + 1])
<1>1. PICK read : read = Len(downReceived)  OBVIOUS
<1>2. PICK p : p = downSent[read + 1]  OBVIOUS
<1>3. /\ read \in Nat /\ read + 1 <= Len(downSent) /\ Len(downSent) \in Nat
      /\ Len(downReceived') = read + 1
      /\ IF p.seq = client.seq /\ Expects(p.payload)
         THEN Reads(p.payload) ELSE Confused
      /\ upSent' = upSent /\ downSent' = downSent /\ handled' = handled
  BY <1>1, <1>2, PacketRead DEF Inv
<1>4. PICK k : k = Len(answers) + 1  OBVIOUS
<1>5. PICK o : o = handled[k]  OBVIOUS
<1>6. /\ k \in Nat /\ k \in 1 .. Len(handled) /\ k + 1 = Len(answers) + 2
      /\ start[k] \in Nat /\ Size(k) = Len(Payloads(o))
      /\ start[Len(answers) + 2] = start[k] + Size(k)
      /\ o \in OutcomeType
  BY <1>4, <1>5, ReplyPlace
<1>7. PICK f \in Nat : f = start[k]  BY <1>6
<1>8. o.kind = "rows"  BY <1>4, <1>5 DEF InResult
<1>9. PICK C : C = o.cols  OBVIOUS
<1>10. PICK R : R = Len(o.rows)  OBVIOUS
<1>11. /\ C \in Nat /\ R \in Nat /\ o.rows \in Seq(Nat)
       /\ Size(k) = C + R + 3
       /\ \A c \in 1 .. C : Payloads(o)[c + 1] = make_col_def
       /\ Payloads(o)[C + 2] = make_eof
       /\ \A r \in 1 .. R : Payloads(o)[C + 2 + r] = make_text_row(o.rows[r])
       /\ Payloads(o)[C + R + 3] = make_eof
  BY <1>6, <1>8, <1>9, <1>10, ResultPayloads
<1>12. answers \in Seq(OutcomeType)  BY DEF Inv, Typed
\* the packet at the next place, if it is within the reply
<1>13. ASSUME NEW j \in Nat, j >= 1, j <= C + R + 3, read + 1 = f + j
       PROVE  p.seq = j % SeqMod /\ p.payload = Payloads(o)[j]
  <2>1. j <= Size(Len(answers) + 1)  BY <1>4, <1>11, <1>13
  <2>2. /\ Len(downReceived) + 1 = start[Len(answers) + 1] + j
        /\ Len(downReceived) + 1 <= Len(downSent)
    BY <1>1, <1>3, <1>4, <1>7, <1>13
  <2>3. downSent[Len(downReceived) + 1] =
          [seq |-> j % SeqMod, payload |-> Payloads(handled[Len(answers) + 1])[j]]
    BY <1>13, <2>1, <2>2, NextOfReply
  <2>4. p = [seq |-> j % SeqMod, payload |-> Payloads(o)[j]]
    BY <1>1, <1>2, <1>4, <1>5, <2>3
  <2> QED  BY <2>4
\* what the client waits for then
<1>14. ASSUME NEW n \in Nat, read + 1 = f + n, answers' = answers, InResult(client', n, o)
       PROVE  Reading(start)' /\ answers' \in Seq(OutcomeType)
  <2>1. Len(downReceived') - start[Len(answers) + 1] = n
    BY <1>3, <1>4, <1>7, <1>14
  <2>2. InResult(client', Len(downReceived') - start[Len(answers) + 1],
                 handled[Len(answers) + 1])
    BY <1>4, <1>5, <1>14, <2>1
  <2>3. Len(downReceived') <= Len(downSent)  BY <1>3
  <2>4. answers' = answers  BY <1>14
  <2>5. Reading(start)'  BY <1>3, <2>2, <2>3, <2>4, ResultGoesOn
  <2> QED  BY <1>12, <2>4, <2>5
<1>15. \/ \E c \in 0 .. C :
            read - f = c + 1 /\ client = Waiting("columns", c + 2, C - c, C, << >>)
       \/ \E r \in 0 .. R :
            /\ read - f = C + 2 + r
            /\ client = Waiting("rows", C + r + 3, 0, C, SubSeq(o.rows, 1, r))
  <2>1. InResult(client, read - f, o)  BY <1>1, <1>4, <1>5, <1>7
  <2>2. CASE \E c \in 0 .. o.cols :
               /\ read - f = c + 1
               /\ client = Waiting("columns", (read - f) + 1, o.cols - c, o.cols, << >>)
    <3>1. PICK c \in 0 .. C : /\ read - f = c + 1
                              /\ client = Waiting("columns", (read - f) + 1, C - c, C, << >>)
      BY <1>9, <2>2
    <3>2. (read - f) + 1 = c + 2  BY <1>11, <3>1
    <3> QED  BY <3>1, <3>2
  <2>3. CASE \E r \in 0 .. Len(o.rows) :
               /\ read - f = o.cols + 2 + r
               /\ client = Waiting("rows", (read - f) + 1, 0, o.cols, SubSeq(o.rows, 1, r))
    <3>1. PICK r \in 0 .. R :
            /\ read - f = C + 2 + r
            /\ client = Waiting("rows", (read - f) + 1, 0, C, SubSeq(o.rows, 1, r))
      BY <1>9, <1>10, <2>3
    <3>2. (read - f) + 1 = C + r + 3  BY <1>11, <3>1
    <3> QED  BY <3>1, <3>2
  <2> QED  BY <2>1, <2>2, <2>3 DEF InResult
<1>16. ASSUME NEW c \in 0 .. C, read - f = c + 1,
              client = Waiting("columns", c + 2, C - c, C, << >>)
       PROVE  Reading(start)' /\ answers' \in Seq(OutcomeType) /\ answers' = answers
  <2>1. c \in Nat /\ c <= C /\ read + 1 = f + (c + 2) /\ c + 2 \in Nat /\ c + 2 <= C + R + 3
    BY <1>3, <1>11, <1>16
  <2>2. p.seq = (c + 2) % SeqMod /\ p.payload = Payloads(o)[c + 2]
    BY <1>13, <2>1
  <2>3. /\ client.at = "columns" /\ client.seq = (c + 2) % SeqMod
        /\ client.left = C - c /\ client.cols = C
    BY <1>16, PlaceNames
  <2>4. /\ Waiting("columns", client.seq + 1, C - c - 1, C, << >>)
             = Waiting("columns", c + 3, C - c - 1, C, << >>)
        /\ Waiting("rows", client.seq + 1, 0, C, << >>)
             = Waiting("rows", c + 3, 0, C, << >>)
    <3>1. c + 2 \in Nat /\ (c + 2) + 1 = c + 3  BY <2>1
    <3> QED  BY <2>3, <3>1, NextNumber
  <2>5. CASE c < C
    <3>1. p.payload = make_col_def
      <4>1. c + 1 \in 1 .. C /\ (c + 1) + 1 = c + 2  BY <1>11, <2>1, <2>5
      <4> QED  BY <1>11, <2>2, <4>1
    <3>2. client.left > 0 /\ client.left # 0  BY <1>11, <2>1, <2>3, <2>5
    <3>3. Expects(p.payload)
      BY <2>3, <3>1, <3>2, PacketFacts DEF Expects
    <3>4. Reads(p.payload)  BY <1>3, <2>2, <2>3, <3>3
    <3>5. /\ client' = Waiting("columns", client.seq + 1, client.left - 1, client.cols, << >>)
          /\ answers' = answers
      BY <2>3, <3>1, <3>2, <3>4, PacketFacts DEF Reads, Become
    <3>6. client' = Waiting("columns", c + 3, C - c - 1, C, << >>)
      BY <2>3, <2>4, <3>5
    <3>7. InResult(client', c + 2, o)
      <4>1. /\ c + 1 \in 0 .. o.cols /\ c + 2 = (c + 1) + 1
            /\ (c + 2) + 1 = c + 3 /\ o.cols - (c + 1) = C - c - 1
        <5>1. C \in Nat  BY <1>11
        <5>2. c + 1 \in 0 .. C /\ C - (c + 1) = C - c - 1  BY <5>1, <2>1, <2>5
        <5>3. c + 2 = (c + 1) + 1 /\ (c + 2) + 1 = c + 3  BY <2>1
        <5> QED  BY <1>9, <5>2, <5>3
      <4>2. client' = Waiting("columns", (c + 2) + 1, o.cols - (c + 1), o.cols, << >>)
        BY <1>9, <3>6, <4>1
      <4> QED  BY <1>8, <4>1, <4>2 DEF InResult
    <3> QED  BY <1>14, <2>1, <3>5, <3>7
  <2>6. CASE ~(c < C)
    <3>1. c = C  BY <1>11, <2>1, <2>6
    <3>2. p.payload = make_eof  BY <1>11, <2>2, <3>1
    <3>3. client.left = 0  BY <1>11, <2>3, <3>1
    <3>4. Expects(p.payload)
      BY <2>3, <3>2, <3>3, PacketFacts DEF Expects
    <3>5. Reads(p.payload)  BY <1>3, <2>2, <2>3, <3>4
    <3>6. /\ client' = Waiting("rows", client.seq + 1, 0, client.cols, << >>)
          /\ answers' = answers
      BY <2>3, <3>2, <3>3, <3>5, PacketFacts DEF Reads, Become
    <3>7. client' = Waiting("rows", c + 3, 0, C, << >>)  BY <2>3, <2>4, <3>6
    <3>8. InResult(client', c + 2, o)
      <4>1. /\ 0 \in 0 .. Len(o.rows) /\ c + 2 = o.cols + 2 + 0 /\ (c + 2) + 1 = c + 3
        <5>1. 0 \in 0 .. R /\ c + 2 = C + 2 + 0 /\ (c + 2) + 1 = c + 3
          BY <1>11, <3>1
        <5> QED  BY <1>9, <1>10, <5>1
      <4>2. SubSeq(o.rows, 1, 0) = << >>  BY <1>11, SubSeqGrows
      <4>3. client' = Waiting("rows", (c + 2) + 1, 0, o.cols, SubSeq(o.rows, 1, 0))
        BY <1>9, <3>7, <4>1, <4>2
      <4> QED  BY <1>8, <4>1, <4>3 DEF InResult
    <3> QED  BY <1>14, <2>1, <3>6, <3>8
  <2> QED  BY <2>5, <2>6
<1>17. ASSUME NEW r \in 0 .. R, read - f = C + 2 + r,
              client = Waiting("rows", C + r + 3, 0, C, SubSeq(o.rows, 1, r))
       PROVE  /\ Reading(start)' /\ answers' \in Seq(OutcomeType)
              /\ answers' = answers \/ answers' = Append(answers, handled[Len(answers) + 1])
  <2>0. PICK m : m = C + r + 3  OBVIOUS
  <2>1. /\ r \in Nat /\ r <= R /\ read + 1 = f + m /\ m \in Nat
        /\ m >= 1 /\ m <= C + R + 3
    <3>1. read \in Nat /\ f \in Nat /\ C \in Nat /\ R \in Nat  BY <1>3, <1>7, <1>11
    <3>2. r \in Nat /\ r <= R  BY <3>1
    <3>3. read - f = C + 2 + r  BY <1>17
    <3> QED  BY <3>1, <3>2, <3>3, <2>0
  <2>2. p.seq = m % SeqMod /\ p.payload = Payloads(o)[m]
    BY <1>13, <2>1
  <2>3. /\ client.at = "rows" /\ client.seq = m % SeqMod
        /\ client.cols = C /\ client.rows = SubSeq(o.rows, 1, r)
    <3>1. client = Waiting("rows", m, 0, C, SubSeq(o.rows, 1, r))
      BY <1>17, <2>0
    <3> QED  BY <3>1 DEF Waiting
  <2>4. CASE r < R
    <3>1. o.rows[r + 1] \in Nat
      <4>1. r + 1 \in 1 .. R  BY <1>11, <2>1, <2>4
      <4>2. r + 1 \in 1 .. Len(o.rows)  BY <1>10, <4>1
      <4>3. o.rows \in Seq(Nat)  BY <1>11
      <4> QED  BY <4>2, <4>3
    <3>2. p.payload = make_text_row(o.rows[r + 1])
      <4>1. r + 1 \in 1 .. R /\ C + 2 + (r + 1) = m  BY <1>11, <2>0, <2>1, <2>4
      <4>2. Payloads(o)[C + 2 + (r + 1)] = make_text_row(o.rows[r + 1])
        BY <1>11, <4>1
      <4> QED  BY <2>2, <4>1, <4>2
    <3>3. /\ ~IsEof(p.payload) /\ ~IsErr(p.payload)
          /\ p.payload.n = o.rows[r + 1]
      BY <3>1, <3>2, RowFacts
    <3>4. Expects(p.payload)  BY <2>3, <3>3 DEF Expects
    <3>5. Reads(p.payload)  BY <1>3, <2>2, <2>3, <3>4
    <3>6. /\ client' = Waiting("rows", client.seq + 1, 0, client.cols,
                               Append(client.rows, p.payload.n))
          /\ answers' = answers
      BY <2>3, <3>3, <3>5 DEF Reads, Become
    <3>7. Append(client.rows, p.payload.n) = SubSeq(o.rows, 1, r + 1)
      <4>1. r \in 0 .. Len(o.rows) /\ r < Len(o.rows)  BY <1>10, <1>11, <2>1, <2>4
      <4> QED  BY <1>11, <2>3, <3>3, <4>1, SubSeqGrows
    <3>8. client' = Waiting("rows", m + 1, 0, C, SubSeq(o.rows, 1, r + 1))
      <4>1. client' = Waiting("rows", client.seq + 1, 0, C, SubSeq(o.rows, 1, r + 1))
        BY <2>3, <3>6, <3>7
      <4>2. Waiting("rows", client.seq + 1, 0, C, SubSeq(o.rows, 1, r + 1))
              = Waiting("rows", m + 1, 0, C, SubSeq(o.rows, 1, r + 1))
        BY <2>1, <2>3, NextNumber
      <4> QED  BY <4>1, <4>2
    <3>9. InResult(client', m, o)
      <4>1. r + 1 \in 0 .. R /\ m = C + 2 + (r + 1)
        <5>1. C \in Nat /\ R \in Nat  BY <1>11
        <5> QED  BY <5>1, <2>0, <2>1, <2>4
      <4>2. r + 1 \in 0 .. Len(o.rows) /\ m = o.cols + 2 + (r + 1)
        BY <1>9, <1>10, <4>1
      <4>3. client' = Waiting("rows", m + 1, 0, o.cols, SubSeq(o.rows, 1, r + 1))
        BY <1>9, <3>8
      <4> QED  BY <1>8, <4>2, <4>3 DEF InResult
    <3> QED  BY <1>14, <2>1, <3>6, <3>9
  <2>5. CASE ~(r < R)
    <3>1. r = R  BY <1>11, <2>1, <2>5
    <3>2. p.payload = make_eof  BY <1>11, <2>0, <2>2, <3>1
    <3>3. Expects(p.payload)  BY <2>3, <3>2, PacketFacts DEF Expects
    <3>4. Reads(p.payload)  BY <1>3, <2>2, <2>3, <3>3
    <3>5. Told(Outcome("rows", client))
      BY <2>3, <3>2, <3>4, PacketFacts DEF Reads
    <3>6. client.rows = o.rows /\ client.cols = o.cols
      BY <1>9, <1>10, <1>11, <2>3, <3>1, SubSeqGrows
    <3>7. Outcome("rows", client) = o
      BY <1>6, <1>8, <3>6 DEF Outcome, OutcomeType
    <3>8. Told(handled[Len(answers) + 1])  BY <1>4, <1>5, <3>5, <3>7
    <3>9. Len(downReceived') = start[Len(answers) + 2]
      <4>1. Len(downReceived') = f + (C + R + 3)  BY <1>3, <2>0, <2>1, <3>1
      <4> QED  BY <1>6, <1>7, <1>11, <4>1
    <3>10. Len(downReceived') <= Len(downSent)  BY <1>3
    <3> QED  BY <1>3, <3>8, <3>9, <3>10, ReplyTold
  <2> QED  BY <2>4, <2>5
<1> QED  BY <1>15, <1>16, <1>17

LEMMA ClientReadsStep ==
  ASSUME NEW start, Inv(start), ClientReads
  PROVE  /\ Inv(start)'
         /\ \/ answers' = answers
            \/ /\ Len(answers) < Len(handled)
               /\ answers' = Append(answers, handled[Len(answers) + 1])
<1>1. /\ downReceived' \in Seq(Down)
      /\ upSent' = upSent /\ upReceived' = upReceived
      /\ downSent' = downSent /\ gone' = gone
      /\ pc' = pc /\ seq' = seq /\ reply' = reply /\ command' = command
      /\ in_try' = in_try /\ failed' = failed
      /\ handled' = handled /\ executed' = executed
  BY PacketRead DEF Inv
<1>2. /\ Reading(start)' /\ answers' \in Seq(OutcomeType)
      /\ \/ answers' = answers
         \/ /\ Len(answers) < Len(handled)
            /\ answers' = Append(answers, handled[Len(answers) + 1])
  <2>1. CASE client \in {WaitingAt("greeting", 0), WaitingAt("authenticate", 1),
                         WaitingAt("welcome", 2)}
    <3>1. Reading(start)' /\ answers' = answers  BY <2>1, WelcomeRead
    <3>2. answers \in Seq(OutcomeType)  BY DEF Inv, Typed
    <3> QED  BY <3>1, <3>2
  <2>2. CASE /\ client = WaitingAt("reply", 1) /\ upSent # << >>
             /\ Len(downReceived) = start[Len(answers) + 1]
    BY <2>2, ReplyRead
  <2>3. CASE /\ upSent # << >> /\ Len(answers) < Len(handled)
             /\ InResult(client, Len(downReceived) - start[Len(answers) + 1],
                         handled[Len(answers) + 1])
    BY <2>3, ResultRead
  <2> QED  BY <2>1, <2>2, <2>3 DEF Inv, Reading
<1>3. Typed'  BY <1>1, <1>2 DEF Inv, Typed
<1>4. Carried'  BY <1>1 DEF Inv, Carried
<1>5. Dispatched'  BY <1>1 DEF Inv, Dispatched
<1>6. Laid(start)'  BY <1>1, SameReplies DEF Inv
<1>7. Serving(start)'
  <2>1. Size(Len(handled))' = Size(Len(handled))  BY <1>1 DEF Size
  <2> QED  BY <1>1, <2>1 DEF Inv, Serving
<1> QED  BY <1>2, <1>3, <1>4, <1>5, <1>6, <1>7 DEF Inv

----------------------------------------------------------------------------
(* The invariant holds *)

LEMMA InitHolds == Init => IInv
<1> SUFFICES ASSUME Init  PROVE IInv
  OBVIOUS
<1>1. /\ upSent = << >> /\ upReceived = << >> /\ downSent = << >> /\ downReceived = << >>
      /\ pc = "accept" /\ seq = 0 /\ reply = << >> /\ command = Auth
      /\ in_try = FALSE /\ failed = FALSE /\ handled = << >> /\ executed = {}
      /\ client = WaitingAt("greeting", 0) /\ answers = << >> /\ gone = FALSE
  BY DEF Init, U!Init, D!Init
<1>2. PICK start : start = <<2>>  OBVIOUS
<1>3. start \in Seq(Nat) /\ start \in [1 .. 1 -> Nat] /\ start[1] = 2
  BY <1>2
<1>4. Typed
  <2>1. seq \in 0 .. SeqMod - 1  BY <1>1, SeqModAssumption
  <2>2. /\ upSent \in Seq(Asked) /\ upReceived \in Seq(Asked)
        /\ downSent \in Seq(Down) /\ downReceived \in Seq(Down)
    BY <1>1
  <2>3. /\ reply \in Seq(PayloadType) /\ handled \in Seq(OutcomeType)
        /\ answers \in Seq(OutcomeType)
    BY <1>1
  <2> QED  BY <1>1, <2>1, <2>2, <2>3 DEF Typed
<1>5. Carried  BY <1>1 DEF Carried
<1>6. Dispatched  BY <1>1 DEF Dispatched
<1>7. Laid(start)
  <2>1. Len(handled) = 0 /\ Len(downSent) = 0  BY <1>1
  <2> QED  BY <1>3, <2>1 DEF Laid
<1>8. Serving(start)  BY <1>1 DEF Serving
<1>9. Reading(start)  BY <1>1 DEF Reading
<1> QED  BY <1>3, <1>4, <1>5, <1>6, <1>7, <1>8, <1>9 DEF IInv, Inv

LEMMA StepHolds == IInv /\ [Next]_vars => IInv'
<1> SUFFICES ASSUME IInv, [Next]_vars  PROVE IInv'
  OBVIOUS
<1>1. PICK start \in Seq(Nat) : Inv(start)  BY DEF IInv
<1>2. SUFFICES \E next \in Seq(Nat) : Inv(next)'  BY <1>2 DEF IInv
<1>3. CASE Accept  BY <1>1, <1>3, AcceptStep
<1>4. CASE SendRaw
  <2>1. pc \in {"greet", "welcome"} \/ pc = "answer"
    BY <1>4 DEF SendRaw, Sending
  <2> QED  BY <1>1, <1>4, <2>1, GreetingSent, ReplySent
<1>5. CASE SendFails  BY <1>1, <1>5, SendFailsStep
<1>6. CASE RecvAuth  BY <1>1, <1>6, RecvAuthStep
<1>7. CASE RecvCommand  BY <1>1, <1>7, RecvCommandStep
<1>8. CASE RecvFails  BY <1>1, <1>8, RecvFailsStep
<1>9. CASE Dispatch  BY <1>1, <1>9, DispatchStep
<1>10. CASE ClientReads  BY <1>1, <1>10, ClientReadsStep
<1>11. CASE Authenticate  BY <1>1, <1>11, AuthenticateStep
<1>12. CASE \E c \in Commands : Ask(c)  BY <1>1, <1>12, AskStep
<1>13. CASE Leave  BY <1>1, <1>13, LeaveStep
<1>14. CASE UNCHANGED vars
  <2>1. /\ upSent' = upSent /\ upReceived' = upReceived
        /\ downSent' = downSent /\ downReceived' = downReceived
        /\ pc' = pc /\ seq' = seq /\ reply' = reply /\ command' = command
        /\ in_try' = in_try /\ failed' = failed
        /\ handled' = handled /\ executed' = executed
        /\ client' = client /\ answers' = answers /\ gone' = gone
    BY <1>14 DEF vars, up, down, server
  <2>2. Typed' /\ Carried' /\ Dispatched'
    BY <1>1, <2>1 DEF Inv, Typed, Carried, Dispatched
  <2>3. Laid(start)'  BY <1>1, <2>1, SameReplies DEF Inv
  <2>4. Serving(start)'
    <3>1. Size(Len(handled))' = Size(Len(handled))  BY <2>1 DEF Size
    <3> QED  BY <1>1, <2>1, <3>1 DEF Inv, Serving
  <2>5. Reading(start)'  BY <1>1, <2>1 DEF Inv, Reading
  <2> QED  BY <2>2, <2>3, <2>4, <2>5 DEF Inv
<1> QED
  BY <1>3, <1>4, <1>5, <1>6, <1>7, <1>8, <1>9, <1>10, <1>11, <1>12, <1>13, <1>14
  DEF Next, Server

LEMMA IInvHolds == Spec => []IInv
  BY InitHolds, StepHolds, PTL DEF Spec

----------------------------------------------------------------------------
(* What follows from it *)

\* InStep: the client always knows what it is reading.  Every packet has the
\* number that follows, and is of a kind that can come at its place, whatever
\* the statements came to and however many columns and rows a result has.
THEOREM ClientInStep == Spec => []InStep
<1>1. IInv => InStep
  <2> SUFFICES ASSUME NEW start, Inv(start)  PROVE client.at # "confused"
    BY DEF IInv, InStep
  <2>1. client.at \in {"greeting", "authenticate", "welcome", "reply", "columns", "rows"}
    BY PlaceNames DEF Inv, Reading, InResult
  <2> QED  BY <2>1
<1> QED  BY <1>1, IInvHolds, PTL

\* The commands, where the client has been welcomed.
AskedIs ==
  /\ asked \in Seq(Commands)
  /\ upSent = << >> => asked = << >>
  /\ upSent # << >> => /\ Len(asked) + 1 = Len(upSent)
                       /\ \A i \in 1 .. Len(asked) : asked[i] = upSent[i + 1].payload

LEMMA AskedNow == Typed /\ Carried => AskedIs
<1> SUFFICES ASSUME Typed, Carried  PROVE AskedIs
  OBVIOUS
<1>1. CASE upSent = << >>  BY <1>1 DEF asked, AskedIs
<1>2. CASE upSent # << >>
  <2>1. upSent \in Seq(Asked) /\ Len(upSent) \in Nat /\ Len(upSent) # 0
    BY <1>2 DEF Typed
  <2>2. PICK n \in Nat : n = Len(upSent) - 1  BY <2>1
  <2>3. asked = [i \in 1 .. n |-> upSent[i + 1].payload]  BY <1>2, <2>2 DEF asked
  <2>4. \A i \in 1 .. n : upSent[i + 1].payload \in Commands
    <3> TAKE i \in 1 .. n
    <3>1. i + 1 \in 1 .. Len(upSent) /\ i + 1 # 1  BY <2>1, <2>2
    <3> QED  BY <3>1 DEF Carried
  <2>5. asked \in Seq(Commands) /\ Len(asked) = n  BY <2>3, <2>4
  <2> QED  BY <1>2, <2>1, <2>2, <2>3, <2>5 DEF AskedIs
<1> QED  BY <1>1, <1>2

LEMMA AskedNext == (Typed /\ Carried)' => AskedIs'
<1>1. (Typed /\ Carried => AskedIs)'  BY AskedNow, PTL
<1> QED  BY <1>1

\* WritesAreTold: from the answer to a CREATE or INSERT a client can tell
\* whether it was run.
THEOREM WritesTold == Spec => []WritesAreTold
<1>1. IInv => WritesAreTold
  <2> SUFFICES ASSUME NEW start, Inv(start), NEW i \in DOMAIN answers, IsWrite(asked[i])
               PROVE  i \in executed <=> answers[i].kind # "rows"
    BY DEF IInv, WritesAreTold
  <2>1. /\ i \in 1 .. Len(handled) /\ i \in Nat /\ answers[i] = handled[i]
        /\ Len(upSent) \in Nat /\ Len(upReceived) \in Nat
    <3>1. /\ answers \in Seq(OutcomeType) /\ Len(handled) \in Nat
          /\ Len(upSent) \in Nat /\ Len(upReceived) \in Nat
      BY DEF Inv, Typed
    <3>2. i \in 1 .. Len(answers)  BY <3>1
    <3>3. /\ Len(answers) <= Len(handled)
          /\ \A k \in 1 .. Len(answers) : answers[k] = handled[k]
      BY DEF Inv, Reading
    <3>4. Len(answers) \in Nat  BY <3>1
    <3> QED  BY <3>1, <3>2, <3>3, <3>4
  <2>2. i < Len(upReceived) /\ handled[i] \in Replies(upSent[i + 1].payload)
    BY <2>1 DEF Inv, Dispatched
  <2>3. upSent # << >> /\ i + 1 \in 1 .. Len(upSent) /\ i + 1 # 1
    BY <2>1, <2>2 DEF Inv, Carried
  <2>4. asked[i] = upSent[i + 1].payload
    <3>1. /\ Len(asked) + 1 = Len(upSent)
          /\ \A k \in 1 .. Len(asked) : asked[k] = upSent[k + 1].payload
          /\ asked \in Seq(Commands)
      BY <2>3, AskedNow DEF Inv, AskedIs
    <3>2. i \in 1 .. Len(asked)
      <4>1. Len(asked) \in Nat  BY <3>1
      <4> QED  BY <2>1, <2>3, <3>1, <4>1
    <3> QED  BY <3>1, <3>2
  <2>5. asked[i] \in Commands  BY <2>3, <2>4 DEF Inv, Carried
  <2>6. i \in executed <=> IsStmt(asked[i])
    BY <2>1, <2>4 DEF Inv, Dispatched
  <2>7. handled[i] \in Replies(asked[i])  BY <2>2, <2>4
  <2>8. IsStmt(asked[i]) <=> handled[i].kind # "rows"
    BY <2>5, <2>7, WriteFacts
  <2> QED  BY <2>1, <2>6, <2>8
<1> QED  BY <1>1, IInvHolds, PTL

----------------------------------------------------------------------------
(* The connection is a service *)

\* What has been asked, carried out and told stays as it is.
LEMMA ServiceStays ==
  ASSUME UNCHANGED <<upSent, handled, answers>>
  PROVE  UNCHANGED S!service
  BY DEF S!service, asked

LEMMA AskIsAsk ==
  ASSUME NEW start, Inv(start), NEW c \in Commands, Ask(c)
  PROVE  S!Ask(c)
<1>1. /\ Inv(start)' /\ upSent # << >> /\ upSent' = Append(upSent, [seq |-> 0, payload |-> c])
      /\ handled' = handled /\ answers' = answers
  BY AskStep DEF Ask, server
<1>2. PICK n : n = Len(asked)  OBVIOUS
<1>3. /\ asked \in Seq(Commands) /\ n \in Nat /\ n + 1 = Len(upSent)
      /\ \A i \in 1 .. n : asked[i] = upSent[i + 1].payload
  BY <1>1, <1>2, AskedNow DEF Inv, AskedIs
<1>4. /\ upSent \in Seq(Asked) /\ [seq |-> 0, payload |-> c] \in Asked
  BY DEF Inv, Typed, Asked
<1>5. /\ Len(upSent') = n + 2
      /\ \A i \in 1 .. n + 1 : upSent'[i] = upSent[i]
      /\ upSent'[n + 2].payload = c
  <2>1. /\ Len(upSent') = Len(upSent) + 1
        /\ \A i \in 1 .. Len(upSent) : upSent'[i] = upSent[i]
        /\ upSent'[Len(upSent) + 1] = [seq |-> 0, payload |-> c]
    BY <1>1, <1>4, Appended
  <2> QED  BY <1>3, <2>1
<1>6. /\ asked' \in Seq(Commands) /\ Len(asked') = n + 1
      /\ \A i \in 1 .. n + 1 : asked'[i] = upSent'[i + 1].payload
  <2>1. upSent' # << >>  BY <1>3, <1>5
  <2>2. /\ asked' \in Seq(Commands) /\ Len(asked') + 1 = Len(upSent')
        /\ \A i \in 1 .. Len(asked') : asked'[i] = upSent'[i + 1].payload
    BY <1>1, <2>1, AskedNext DEF Inv, AskedIs
  <2>3. Len(asked') = n + 1  BY <1>3, <1>5, <2>2
  <2> QED  BY <2>2, <2>3
<1>7. PICK more : more = Append(asked, c)  OBVIOUS
<1>8. /\ more \in Seq(Commands) /\ Len(more) = n + 1
      /\ \A i \in 1 .. n : more[i] = asked[i]
      /\ more[n + 1] = c
  BY <1>2, <1>3, <1>7, Appended
<1>9. \A i \in 1 .. n + 1 : asked'[i] = more[i]
  <2> TAKE i \in 1 .. n + 1
  <2>1. CASE i = n + 1
    <3>1. asked'[n + 1] = upSent'[(n + 1) + 1].payload /\ (n + 1) + 1 = n + 2
      BY <1>3, <1>6
    <3> QED  BY <1>5, <1>8, <2>1, <3>1
  <2>2. CASE i \in 1 .. n
    <3>1. i + 1 \in 1 .. n + 1  BY <1>3, <2>2
    <3> QED  BY <1>3, <1>5, <1>6, <1>8, <2>2, <3>1
  <2> QED  BY <1>3, <2>1, <2>2
<1>10. asked' = more  BY <1>6, <1>8, <1>9, SeqEqual
<1> QED  BY <1>1, <1>7, <1>10 DEF S!Ask

LEMMA DispatchIsHandle ==
  ASSUME NEW start, Inv(start), Dispatch
  PROVE  S!Handle
<1>1. PICK o \in Replies(command) : handled' = Append(handled, o)
  BY DEF Dispatch
<1>2. pc = "dispatch" /\ upSent' = upSent /\ answers' = answers
  BY DEF Dispatch, up
<1>3. PICK last : last = Len(handled)  OBVIOUS
<1>4. /\ last \in Nat /\ Len(upReceived) = last + 2 /\ Len(upReceived) <= Len(upSent)
      /\ Len(upSent) \in Nat /\ command = upSent[last + 2].payload
  BY <1>2, <1>3 DEF Inv, Typed, Carried, Serving
<1>5. upSent # << >>  BY <1>4
<1>6. /\ asked \in Seq(Commands) /\ Len(asked) + 1 = Len(upSent)
      /\ \A i \in 1 .. Len(asked) : asked[i] = upSent[i + 1].payload
  BY <1>5, AskedNow DEF Inv, AskedIs
<1>7. last < Len(asked) /\ last + 1 \in 1 .. Len(asked) /\ (last + 1) + 1 = last + 2
  BY <1>4, <1>6
<1>8. asked[last + 1] = command /\ command \in Commands
  <2>1. asked[last + 1] = upSent[last + 2].payload  BY <1>6, <1>7
  <2>2. asked[last + 1] \in Commands  BY <1>6, <1>7
  <2> QED  BY <1>4, <2>1, <2>2
<1>9. o \in [c \in Commands |-> Replies(c)][asked[Len(handled) + 1]]
  BY <1>1, <1>3, <1>8
<1>10. asked' = asked  BY <1>2 DEF asked
<1> QED  BY <1>1, <1>2, <1>3, <1>7, <1>9, <1>10 DEF S!Handle

LEMMA ServiceInit == Init => S!Init
  BY DEF Init, U!Init, S!Init, asked

\* Every step is one of the service, or changes nothing of it.
LEMMA ServiceStep == IInv /\ [Next]_vars => [S!Next]_(S!service)
<1> SUFFICES ASSUME IInv, [Next]_vars  PROVE S!Next \/ UNCHANGED S!service
  OBVIOUS
<1>1. PICK start \in Seq(Nat) : Inv(start)  BY DEF IInv
<1>2. CASE Accept \/ SendRaw \/ SendFails \/ RecvAuth \/ RecvCommand \/ RecvFails
           \/ Leave \/ UNCHANGED vars
  <2>1. UNCHANGED <<upSent, handled, answers>>
    BY <1>2 DEF Accept, SendRaw, SendFails, RecvAuth, RecvCommand, RecvFails, Leave,
                vars, up, server, ghosts, U!Receive
  <2> QED  BY <2>1, ServiceStays
<1>3. CASE Dispatch  BY <1>1, <1>3, DispatchIsHandle DEF S!Next
<1>4. CASE ClientReads
  <2>1. upSent' = upSent /\ handled' = handled
    BY <1>4 DEF ClientReads, up, server
  <2>2. \/ answers' = answers
        \/ /\ Len(answers) < Len(handled)
           /\ answers' = Append(answers, handled[Len(answers) + 1])
    BY <1>1, <1>4, ClientReadsStep
  <2>3. CASE answers' = answers  BY <2>1, <2>3, ServiceStays
  <2>4. CASE /\ Len(answers) < Len(handled)
             /\ answers' = Append(answers, handled[Len(answers) + 1])
    <3>1. asked' = asked  BY <2>1 DEF asked
    <3> QED  BY <2>1, <2>4, <3>1 DEF S!Answer, S!Next
  <2> QED  BY <2>2, <2>3, <2>4
<1>5. CASE Authenticate
  <2>1. /\ client.at = "authenticate" /\ handled' = handled /\ answers' = answers
        /\ upSent' = Append(upSent, [seq |-> 1, payload |-> Auth])
    BY <1>5 DEF Authenticate, Become, server, U!Send
  <2>2. upSent = << >>
    <3>1. /\ client # WaitingAt("welcome", 2) /\ client # WaitingAt("reply", 1)
          /\ client.at \notin {"columns", "rows"}
      BY <2>1, PlaceNames
    <3>2. \A n, o : ~InResult(client, n, o)
      BY <3>1, PlaceNames DEF InResult
    <3> QED  BY <1>1, <3>1, <3>2 DEF Inv, Reading
  <2>3. asked = << >>  BY <2>2 DEF asked
  <2>4. asked' = << >>
    <3>1. Typed' /\ Carried'  BY <1>1, <1>5, AuthenticateStep DEF Inv
    <3>2. upSent' = <<[seq |-> 1, payload |-> Auth]>>  BY <2>1, <2>2
    <3>3. upSent' # << >> /\ Len(upSent') = 1  BY <3>2
    <3>4. asked' \in Seq(Commands) /\ Len(asked') + 1 = Len(upSent')
      BY <3>1, <3>3, AskedNext DEF AskedIs
    <3>5. Len(asked') = 0  BY <3>3, <3>4
    <3> QED  BY <3>4, <3>5
  <2> QED  BY <2>1, <2>3, <2>4 DEF S!service
<1>6. CASE \E c \in Commands : Ask(c)  BY <1>1, <1>6, AskIsAsk DEF S!Next
<1> QED  BY <1>2, <1>3, <1>4, <1>5, <1>6 DEF Next, Server

\* IsService: commands are carried out in their order, each at most once, and
\* the client is told in that order what they came to, over any interleaving of
\* the two ends and wherever the connection is lost.
THEOREM SessionIsService == Spec => IsService
<1>1. IInv /\ [Next]_vars => [S!Next]_(S!service)  BY ServiceStep
<1>2. Init => S!Init  BY ServiceInit
<1> QED  BY <1>1, <1>2, IInvHolds, PTL DEF Spec, IsService, S!Spec

----------------------------------------------------------------------------
(* What the two channels are asked to carry *)

\* A packet at the end of what has been sent is one the channel carries.
LEMMA LastSent ==
  ASSUME NEW V, NEW s \in Seq(V), NEW x, Append(s, x) \in Seq(V)
  PROVE  x \in V
<1>1. PICK t : t = Append(s, x)  OBVIOUS
<1>2. t \in Seq(V) /\ Len(t) = Len(s) + 1 /\ t[Len(s) + 1] = x /\ Len(s) \in Nat
  BY <1>1
<1>3. Len(s) + 1 \in 1 .. Len(t)  BY <1>2
<1> QED  BY <1>2, <1>3

LEMMA ChannelsStep ==
  IInv /\ IInv' /\ [Next]_vars => [U!Next]_(U!channel) /\ [D!Next]_(D!channel)
<1> SUFFICES ASSUME IInv, IInv', [Next]_vars
             PROVE  /\ U!Next \/ UNCHANGED U!channel
                    /\ D!Next \/ UNCHANGED D!channel
  OBVIOUS
<1>1. /\ downSent \in Seq(Down) /\ downSent' \in Seq(Down)
      /\ SeqMod \in Nat \ {0, 1}
  BY SeqModAssumption DEF IInv, Inv, Typed
<1>2. CASE Accept \/ SendFails \/ RecvFails \/ Dispatch \/ Leave \/ UNCHANGED vars
  <2>1. UNCHANGED <<upSent, upReceived, downSent, downReceived>>
    BY <1>2 DEF Accept, SendFails, RecvFails, Dispatch, Leave, vars, up, down
  <2> QED  BY <2>1 DEF U!channel, D!channel
<1>3. CASE SendRaw
  <2>1. PICK p : p = [seq |-> seq, payload |-> Head(reply)]  OBVIOUS
  <2>2. /\ upSent' = upSent /\ upReceived' = upReceived
        /\ downSent' = Append(downSent, p) /\ D!Send(p)
    BY <1>3, <2>1 DEF SendRaw, up, D!Send
  <2>3. p \in Down  BY <1>1, <2>2, LastSent
  <2> QED  BY <2>2, <2>3 DEF D!Next, U!channel
<1>4. CASE RecvAuth \/ RecvCommand
  <2>1. U!Receive /\ downSent' = downSent /\ downReceived' = downReceived
    BY <1>4 DEF RecvAuth, RecvCommand, down
  <2> QED  BY <2>1 DEF U!Next, D!channel
<1>5. CASE ClientReads
  <2>1. D!Receive /\ upSent' = upSent /\ upReceived' = upReceived
    BY <1>5 DEF ClientReads, up
  <2> QED  BY <2>1 DEF D!Next, U!channel
<1>6. CASE Authenticate
  <2>1. /\ U!Send([seq |-> 1, payload |-> Auth])
        /\ downSent' = downSent /\ downReceived' = downReceived
    BY <1>6 DEF Authenticate, down
  <2>2. [seq |-> 1, payload |-> Auth] \in [seq : {0, 1}, payload : Commands \cup {Auth}]
    OBVIOUS
  <2> QED  BY <2>1, <2>2 DEF U!Next, D!channel
<1>7. CASE \E c \in Commands : Ask(c)
  <2>1. PICK c \in Commands : Ask(c)  BY <1>7
  <2>2. /\ U!Send([seq |-> 0, payload |-> c])
        /\ downSent' = downSent /\ downReceived' = downReceived
    BY <2>1 DEF Ask, down
  <2>3. [seq |-> 0, payload |-> c] \in [seq : {0, 1}, payload : Commands \cup {Auth}]
    OBVIOUS
  <2> QED  BY <2>2, <2>3 DEF U!Next, D!channel
<1> QED  BY <1>2, <1>3, <1>4, <1>5, <1>6, <1>7 DEF Next, Server

\* A connection asks of each direction only what send_raw and recv_packet do
\* for it: packets one at a time, in their order, whole, of the kinds and with
\* the numbers that the channel is declared to carry.
THEOREM SessionUsesChannels == Spec => U!Spec /\ D!Spec
<1>1. Init => U!Init /\ D!Init  BY DEF Init
<1>2. IInv /\ IInv' /\ [Next]_vars => [U!Next]_(U!channel) /\ [D!Next]_(D!channel)
  BY ChannelsStep
<1> QED  BY <1>1, <1>2, IInvHolds, PTL DEF Spec, U!Spec, D!Spec
=============================================================================
