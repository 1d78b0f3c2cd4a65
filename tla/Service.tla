------------------------------ MODULE Service ------------------------------
(***************************************************************************)
(* What a client may rely on, whatever goes over the wire: commands are    *)
(* carried out one after the other in the order they were given in, each   *)
(* at most once, with one outcome, and the client is told the outcomes in  *)
(* that order.  Any number of the last ones may be missing at the end of a *)
(* connection: commands given but not carried out, and commands carried    *)
(* out but not told.                                                       *)
(***************************************************************************)
EXTENDS Naturals, Sequences

CONSTANTS
  Commands,
  Outcomes    \* command -> the outcomes it may have; none if it ends the connection

VARIABLES
  asked,      \* commands given so far
  handled,    \* the outcomes of those that have been carried out
  answers     \* the outcomes the client has been told

service == <<asked, handled, answers>>

Init == asked = << >> /\ handled = << >> /\ answers = << >>

Ask(c) ==
  /\ asked' = Append(asked, c)
  /\ UNCHANGED <<handled, answers>>

Handle ==
  /\ Len(handled) < Len(asked)
  /\ \E o \in Outcomes[asked[Len(handled) + 1]] : handled' = Append(handled, o)
  /\ UNCHANGED <<asked, answers>>

Answer ==
  /\ Len(answers) < Len(handled)
  /\ answers' = Append(answers, handled[Len(answers) + 1])
  /\ UNCHANGED <<asked, handled>>

Next == Handle \/ Answer \/ \E c \in Commands : Ask(c)

Spec == Init /\ [][Next]_service
=============================================================================
