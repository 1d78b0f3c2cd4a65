------------------------------ MODULE Session ------------------------------
(***************************************************************************)
(* One connection: handle_connection and dispatch_query of the server      *)
(* (server/mysql_server.hpp) with the packets of server/mysql_proto.hpp,   *)
(* and a MySQL client (external) that may send commands before the earlier *)
(* ones are answered.  Packets go over two channels, which Wire implements *)
(* with bytes.  Of a packet there is what a client tells packets apart by: *)
(* the first byte, the size and the number in front.  What a statement     *)
(* does is the matter of Storage, Query and Sql; here it has an outcome.   *)
(***************************************************************************)
EXTENDS Naturals, Sequences

CONSTANTS
  Commands,     \* what clients send
  Results,      \* chunks: [cols, rows], a row being the length of its first value
  Names,        \* lengths SHOW TABLES may answer with
  SeqMod,       \* sequence numbers: 256
  OneByte, TwoBytes, ThreeBytes,
                \* length-encoded integers below take 1, 3 and 4 bytes
  Window,       \* bound: packets on their way in one direction
  MaxCommands   \* bound: commands of a run

ASSUME SeqModAssumption == SeqMod \in Nat \ {0, 1}
ASSUME LenencAssumption ==
  /\ OneByte \in 1 .. 251 /\ TwoBytes \in Nat /\ ThreeBytes \in Nat
  /\ OneByte <= TwoBytes /\ TwoBytes <= ThreeBytes
ASSUME CommandsAssumption ==
  Commands \subseteq [com : {"QUIT", "EMPTY", "OTHER", "QUERY"},
                      begins : STRING, has : STRING]
\* neither a select list nor a table is without columns
ASSUME ResultsAssumption ==
  /\ Results \subseteq [cols : Nat \ {0}, rows : Seq(Nat)]
  /\ Names \subseteq Nat
ASSUME WindowAssumption == Window \in Nat \ {0} /\ MaxCommands \in Nat

VARIABLES
  upSent, upReceived,      \* from the client to the server
  downSent, downReceived,  \* and back
  pc,         \* where the server's thread is
  seq,        \* its sequence number
  reply,      \* payloads it still has to send
  command,    \* the packet it has received
  in_try,     \* an exception is answered with an ERR packet
  failed,     \* ghost: a send has failed, and every later one will
  handled,    \* ghost: outcomes of the commands so far
  executed,   \* ghost: which of them lexer, parser and planner were run for
  client,     \* what the client waits for: see Waiting
  answers,    \* outcomes the client has been told
  gone        \* the client has closed its socket, or the connection is lost

up == <<upSent, upReceived>>
down == <<downSent, downReceived>>
server == <<pc, seq, reply, command, in_try, failed, handled, executed>>
vars == <<up, down, server, client, answers, gone>>

----------------------------------------------------------------------------
(* Payloads *)

Payload(head, size, n) == [head |-> head, size |-> size, n |-> n]

\* write_lenenc_int: the first byte, and how many there are
lenenc_head(v) ==
  CASE v < OneByte                           -> v
    [] v >= OneByte /\ v < TwoBytes          -> 252
    [] v >= TwoBytes /\ v < ThreeBytes       -> 253
    [] v >= ThreeBytes                       -> 254
lenenc_size(v) ==
  CASE v < OneByte                           -> 1
    [] v >= OneByte /\ v < TwoBytes          -> 3
    [] v >= TwoBytes /\ v < ThreeBytes       -> 4
    [] v >= ThreeBytes                       -> 9

make_handshake_v10 == Payload(10, 70, 0)
make_ok == Payload(0, 7, 0)
make_err == Payload(255, 9, 0)
make_eof == Payload(254, 5, 0)
\* the first of its strings is "def"
make_col_def == Payload(lenenc_head(3), 30, 0)
column_count(n) == Payload(lenenc_head(n), lenenc_size(n), n)
make_text_row(row) == Payload(lenenc_head(row), lenenc_size(row) + row, row)

\* Mutant of send_result_set: the rows follow the columns at once.
send_result_set_joined(chunk) ==
  <<column_count(chunk.cols)>>
  \o [c \in 1 .. chunk.cols |-> make_col_def]
  \o [r \in DOMAIN chunk.rows |-> make_text_row(chunk.rows[r])] \o <<make_eof>>

send_result_set(chunk) ==
  <<column_count(chunk.cols)>>
  \o [c \in 1 .. chunk.cols |-> make_col_def] \o <<make_eof>>
  \o [r \in DOMAIN chunk.rows |-> make_text_row(chunk.rows[r])] \o <<make_eof>>

----------------------------------------------------------------------------
(* What dispatch_query answers *)

Outcome(kind, chunk) == [kind |-> kind, cols |-> chunk.cols, rows |-> chunk.rows]
NoChunk == [cols |-> 0, rows |-> << >>]
Ok == Outcome("ok", NoChunk)
Err == Outcome("err", NoChunk)
send_single_value(length) == Outcome("rows", [cols |-> 1, rows |-> <<length>>])

\* what it looks for before it runs a statement
IsSet(c) == c.begins \in {"SET", "USE", "SELECT 1"}
IsVariable(c) == ~IsSet(c) /\ c.has \in {"@@VERSION", "@@"}
IsShow(c) == ~IsSet(c) /\ ~IsVariable(c)
             /\ c.begins \in {"SHOW DATABASES", "SHOW TABLES"}
IsStmt(c) == c.com = "QUERY" /\ ~IsSet(c) /\ ~IsVariable(c) /\ ~IsShow(c)
IsWrite(c) == c.com = "QUERY" /\ c.begins \in {"CREATE", "INSERT"}

\* Mutant of Variable: a variable is set, not asked for.
VariableOk(c) == Ok
Variable(c) == send_single_value(IF c.has = "@@VERSION" THEN 14 ELSE 0)

\* A statement that yields no chunk, because it is a write or because no row
\* passes, is answered OK.
Replies(c) ==
  CASE c.com \in {"QUIT", "EMPTY"} -> {}
    [] c.com = "OTHER" -> {Ok}
    [] c.com = "QUERY" /\ IsSet(c) -> {Ok}
    [] c.com = "QUERY" /\ IsVariable(c) -> {Variable(c)}
    [] c.com = "QUERY" /\ IsShow(c) ->
         {send_single_value(n) :
            n \in IF c.begins = "SHOW TABLES" THEN Names ELSE {7}}
    [] IsStmt(c) ->
         {Ok, Err} \cup IF IsWrite(c) THEN {}
                        ELSE {Outcome("rows", chunk) : chunk \in Results}

\* Mutant of Payloads: a statement that yields nothing is not answered.
PayloadsOfSome(o) ==
  CASE o.kind = "ok"   -> << >>
    [] o.kind = "err"  -> <<make_err>>
    [] o.kind = "rows" -> send_result_set(o)

Payloads(o) ==
  CASE o.kind = "ok"   -> <<make_ok>>
    [] o.kind = "err"  -> <<make_err>>
    [] o.kind = "rows" -> send_result_set(o)

----------------------------------------------------------------------------
(* The connection *)

Auth == [com |-> "AUTH", begins |-> "", has |-> ""]
Down == [seq : 0 .. SeqMod - 1,
         payload : {make_handshake_v10, make_ok}
                   \cup UNION {{Payloads(o)[i] : i \in DOMAIN Payloads(o)} :
                                 o \in UNION {Replies(c) : c \in Commands}}]
U == INSTANCE Channel WITH
       Packets <- [seq : {0, 1}, payload : Commands \cup {Auth}],
       sent <- upSent, received <- upReceived
D == INSTANCE Channel WITH
       Packets <- Down, sent <- downSent, received <- downReceived

\* What the client waits for: a packet with a sequence number at a place of the
\* conversation, the columns left, and the rows of this reply so far.
Waiting(at, s, left, cols, rows) ==
  [at |-> at, seq |-> s % SeqMod, left |-> left, cols |-> cols, rows |-> rows]
WaitingAt(at, s) == Waiting(at, s, 0, 0, << >>)

Init ==
  /\ U!Init /\ D!Init
  /\ pc = "accept" /\ seq = 0 /\ reply = << >> /\ command = Auth
  /\ in_try = FALSE /\ failed = FALSE
  /\ handled = << >> /\ executed = {}
  /\ client = WaitingAt("greeting", 0)
  /\ answers = << >>
  /\ gone = FALSE

----------------------------------------------------------------------------
(* The server's thread *)

ghosts == <<handled, executed>>

\* run accepts the connection and starts handle_connection
Accept ==
  /\ pc = "accept"
  /\ pc' = "greet"
  /\ seq' = 0
  /\ reply' = <<make_handshake_v10>>
  /\ UNCHANGED <<up, down, command, in_try, failed, ghosts, client, answers, gone>>

\* where the thread goes after the last packet of what it sends
Sending == {"greet", "welcome", "answer"}
AfterSend == IF pc = "greet" THEN "auth" ELSE "command"

\* send_raw, and seq++
SendRaw ==
  /\ pc \in Sending /\ reply # << >>
  /\ ~failed /\ D!InFlight < Window
  /\ D!Send([seq |-> seq, payload |-> Head(reply)])
  /\ seq' = (seq + 1) % SeqMod
  /\ reply' = Tail(reply)
  /\ pc' = IF Len(reply) = 1 THEN AfterSend ELSE pc
  /\ UNCHANGED <<up, command, in_try, failed, ghosts, client, answers, gone>>

\* Mutant of SendFails: a statement is run again if its reply cannot be sent.
SendRetries ==
  /\ pc \in Sending /\ reply # << >>
  /\ gone
  /\ failed' = TRUE
  /\ pc' = IF in_try THEN "dispatch" ELSE "closed"
  /\ in_try' = FALSE
  /\ UNCHANGED <<up, down, seq, reply, command, ghosts, client, answers, gone>>

\* send_raw throws: within the try block of dispatch_query the exception is
\* answered, which fails as well, and then leaves handle_connection
SendFails ==
  /\ pc \in Sending /\ reply # << >>
  /\ gone
  /\ failed' = TRUE
  /\ pc' = IF in_try THEN pc ELSE "closed"
  /\ reply' = IF in_try THEN <<make_err>> ELSE << >>
  /\ in_try' = FALSE
  /\ UNCHANGED <<up, down, seq, command, ghosts, client, answers, gone>>

\* recv_packet for the client's authentication, which is not looked at
RecvAuth ==
  /\ pc = "auth"
  /\ U!Receive
  /\ seq' = (U!Arriving.seq + 1) % SeqMod
  /\ pc' = "welcome"
  /\ reply' = <<make_ok>>
  /\ UNCHANGED <<down, command, in_try, failed, ghosts, client, answers, gone>>

\* recv_packet for a command; COM_QUIT and an empty packet end the loop
RecvCommand ==
  /\ pc = "command"
  /\ U!Receive
  /\ seq' = (U!Arriving.seq + 1) % SeqMod
  /\ command' = U!Arriving.payload
  /\ pc' = IF command'.com \in {"QUIT", "EMPTY"} THEN "closed" ELSE "dispatch"
  /\ UNCHANGED <<down, reply, in_try, failed, ghosts, client, answers, gone>>

\* Mutant of RecvFails: an error of recv is taken for nothing to read.
RecvRetries ==
  /\ pc \in {"auth", "command"}
  /\ gone
  /\ UNCHANGED vars

\* recv_packet throws
RecvFails ==
  /\ pc \in {"auth", "command"}
  /\ gone
  /\ pc' = "closed"
  /\ UNCHANGED <<up, down, seq, reply, command, in_try, failed, ghosts, client,
                 answers, gone>>

\* dispatch_query up to the first packet it sends, or the OK of another command
Dispatch ==
  /\ pc = "dispatch"
  /\ \E o \in Replies(command) :
       /\ handled' = Append(handled, o)
       /\ reply' = Payloads(o)
       \* what the catch clause sends is outside the try block
       /\ in_try' = (IsStmt(command) /\ o # Err)
  /\ executed' = IF IsStmt(command) THEN executed \cup {Len(handled) + 1}
                 ELSE executed
  /\ pc' = "answer"
  /\ UNCHANGED <<up, down, seq, command, failed, client, answers, gone>>

Server ==
  \/ Accept \/ SendRaw \/ SendFails \/ RecvAuth \/ RecvCommand \/ RecvFails
  \/ Dispatch

----------------------------------------------------------------------------
(* The client *)

IsOk(p) == p.head = 0
IsErr(p) == p.head = 255
IsEof(p) == p.head = 254 /\ p.size < 9

Become(w) == client' = w /\ UNCHANGED answers
Confused == Become(WaitingAt("confused", 0))
Told(o) ==
  /\ answers' = Append(answers, o)
  /\ client' = WaitingAt("reply", 1)

\* the payload of a packet with the right sequence number
Reads(p) ==
  LET w == client
      next == w.seq + 1
  IN \/ /\ w.at = "greeting" /\ p.head = 10
        /\ Become(WaitingAt("authenticate", next))
     \/ w.at = "welcome" /\ IsOk(p) /\ Become(WaitingAt("reply", 1))
     \/ w.at = "reply" /\ IsOk(p) /\ Told(Ok)
     \/ w.at = "reply" /\ IsErr(p) /\ Told(Err)
     \/ /\ w.at = "reply" /\ p.head \notin {0, 251, 255}
        /\ Become(Waiting("columns", next, p.n, p.n, << >>))
     \/ /\ w.at = "columns" /\ w.left > 0 /\ ~IsEof(p) /\ ~IsErr(p)
        /\ Become(Waiting("columns", next, w.left - 1, w.cols, << >>))
     \/ /\ w.at = "columns" /\ w.left = 0 /\ IsEof(p)
        /\ Become(Waiting("rows", next, 0, w.cols, << >>))
     \/ /\ w.at = "rows" /\ ~IsEof(p) /\ ~IsErr(p)
        /\ Become(Waiting("rows", next, 0, w.cols, Append(w.rows, p.n)))
     \/ /\ w.at = "rows" /\ IsEof(p)
        /\ Told(Outcome("rows", w))
Expects(p) ==
  CASE client.at = "greeting" -> p.head = 10
    [] client.at = "welcome"  -> IsOk(p)
    [] client.at = "reply"    -> p.head # 251
    [] client.at = "columns"  -> ~IsErr(p) /\ (IsEof(p) <=> client.left = 0)
    [] client.at = "rows"     -> ~IsErr(p)
    [] OTHER -> FALSE

ClientReads ==
  /\ ~gone
  /\ D!Receive
  /\ LET p == D!Arriving
     IN IF p.seq = client.seq /\ Expects(p.payload)
        THEN Reads(p.payload) ELSE Confused
  /\ UNCHANGED <<up, server, gone>>

\* the client answers the greeting
Authenticate ==
  /\ ~gone
  /\ client.at = "authenticate"
  /\ U!Send([seq |-> 1, payload |-> Auth])
  /\ Become(WaitingAt("welcome", 2))
  /\ UNCHANGED <<down, server, gone>>

asked == IF upSent = << >> THEN << >>
         ELSE [i \in 1 .. Len(upSent) - 1 |-> upSent[i + 1].payload]

\* the client sends a command, once it is welcome
Ask(c) ==
  /\ ~gone
  /\ client.at \in {"reply", "columns", "rows"}
  /\ Len(asked) < MaxCommands /\ U!InFlight < Window
  /\ U!Send([seq |-> 0, payload |-> c])
  /\ UNCHANGED <<down, server, client, answers, gone>>

\* the client leaves, whatever is on its way, or the connection is lost
Leave ==
  /\ ~gone
  /\ gone' = TRUE
  /\ UNCHANGED <<up, down, server, client, answers>>

Next == Server \/ ClientReads \/ Authenticate \/ (\E c \in Commands : Ask(c)) \/ Leave

\* The server's thread runs, and the client reads what it is sent; it need not
\* ask for anything.
Spec ==
  Init /\ [][Next]_vars /\ WF_vars(Server) /\ WF_vars(ClientReads)
  /\ WF_vars(Authenticate)

----------------------------------------------------------------------------
(* Properties *)

\* The client always knows what it is reading: every packet has the sequence
\* number that follows, also when it wraps, and is of a kind that can come at
\* this place.  No row is taken for the end of the rows, no number of columns
\* for OK or ERR, and no ERR comes within a result set, although the catch
\* clause of dispatch_query stands around send_result_set.
InStep == client.at # "confused"

\* A client can tell from the answer to a CREATE or INSERT whether it was run:
\* one that has @@ in it, if only in a string, is not, and is answered with a
\* value.
WritesAreTold ==
  \A i \in DOMAIN answers : IsWrite(asked[i]) =>
    (i \in executed <=> answers[i].kind # "rows")

\* Commands are run in order, at most once, and answered in order with what
\* they came to.
S == INSTANCE Service WITH Outcomes <- [c \in Commands |-> Replies(c)]
IsService == S!Spec

\* Every command is answered in the end, unless the server has closed the
\* connection for one before it, or the client has left.
AllAnswered ==
  \A i \in 1 .. MaxCommands :
    Len(asked) >= i ~> Len(answers) >= i \/ gone \/ pc = "closed"

\* The thread of a client that has left ends, wherever it was.
ThreadEnds == gone ~> pc = "closed"
=============================================================================
