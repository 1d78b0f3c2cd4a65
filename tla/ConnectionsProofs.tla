------------------------- MODULE ConnectionsProofs -------------------------
(***************************************************************************)
(* No lock is needed as long as every table has one connection that it is  *)
(* used from, and tables are created while nothing else runs: for every    *)
(* number of connections, tables, columns and rows, threads then never     *)
(* race, what is stored is what is in memory, and what is read is whole.   *)
(*                                                                         *)
(* The invariant says what each thread may rely on between its steps: that *)
(* the table it works on exists, that what it has copied is still what is  *)
(* there, and that the segment it has truncated is still empty.  Others    *)
(* leave that alone because no two threads that work on tables work on the *)
(* same one (Ours, Apart), no two tables share an id (Identity), and a     *)
(* CREATE is alone (Lone).                                                 *)
(***************************************************************************)
EXTENDS Connections, FiniteSetTheorems, SequenceTheorems, TLAPS

\* What clients have to keep to.
Apart == \A n \in Names : \A c, d \in Home[n] : c = d
Discipline == Apart /\ AloneToCreate = TRUE

----------------------------------------------------------------------------
(* The invariant *)

Cells == Rows \cup {Junk}
ThreadType ==
  [pc : Labels, name : Names \cup {"none"}, row : Cells,
   id : Ids \cup {NoId}, col : Cols, buf : [Cols -> Seq(Cells)],
   num_rows : Nat, names : SUBSET Names]
MapType == [Names -> Ids \cup {NoId}]

Types ==
  /\ tables_ \in [Names -> [id : Ids \cup {NoId}, cols : [Cols -> Seq(Rows)]]]
  /\ name_to_id_ \in MapType
  /\ next_id_ \in 1 .. MaxId + 1
  /\ catalog_dat \in [open : BOOLEAN, map : MapType]
  /\ segment_seg \in [Ids -> [state : {"none", "empty", "mixed", "whole"},
                              num_rows : Nat, cols : [Cols -> Seq(Cells)]]]
  /\ th \in [Conns -> ThreadType]
  /\ acked \in [Names -> SUBSET Rows]
  /\ created \in [Names -> Nat]

\* a CREATE runs while nothing else does
Lone == \A c, d \in Conns : Creating(c) /\ c # d => At(d, "idle")

\* a thread works on a table of its connection
Ours ==
  \A c \in Conns : ~InPc(c, {"idle", "show", "send_names"}) =>
    th[c].name \in Names /\ c \in Home[th[c].name]

\* tables have different ids that were assigned, and are mapped to them
Identity ==
  /\ \A m, n \in Names : Live(m) /\ tables_[m].id = tables_[n].id => m = n
  /\ \A n \in Names : tables_[n].id < next_id_
  /\ \A n \in Names : Live(n) => name_to_id_[n] = tables_[n].id
  /\ (\A c \in Conns : ~At(c, "save_close")) =>
       \A n \in Names : Live(n) => catalog_dat.map[n] = tables_[n].id
  /\ \A n \in Names : created[n] > 0 => Live(n)

\* what create_table has made sure of so far
NewTable(c) ==
  /\ InPc(c, {"check", "assign_read", "assign_write"}) => next_id_ <= MaxId
  /\ InPc(c, {"assign_read", "assign_write", "save_open", "save_close",
              "emplace"}) => ~Live(th[c].name)
  /\ InPc(c, {"assign_write"}) => th[c].id = next_id_
  /\ InPc(c, {"save_open", "save_close", "emplace"}) =>
       /\ th[c].id \in Ids /\ th[c].id < next_id_
       /\ name_to_id_[th[c].name] = th[c].id
       /\ \A n \in Names : tables_[n].id # th[c].id
  /\ InPc(c, {"emplace"}) => catalog_dat.map[th[c].name] = th[c].id

Loops == {"append", "create_col", "insert_col", "scan"}
Inserts == {"insert_open", "insert_col", "insert_footer", "insert_close"}
OpenPcs == {"create_col", "create_footer", "create_close",
            "insert_col", "insert_footer", "insert_close"}
ChangePcs == FlushPcs \cup {"append"}
UsePcs == ChangePcs \cup {"num_rows", "scan", "send"}

Has(n, v) ==
  \E r \in 1 .. Len(tables_[n].cols[1]) : tables_[n].cols[1][r] = v

\* the row is in the columns before the one the loop stands at
Appending(c) ==
  \A k \in Cols : Table(c).cols[k] =
    IF k < th[c].col THEN Append(Table(c).cols[NumCols], th[c].row)
    ELSE Table(c).cols[NumCols]

\* what a thread that works on a table has done with it so far
Working(c) ==
  /\ InPc(c, UsePcs) => Live(th[c].name)
  /\ ~InPc(c, Loops) => th[c].col = 1
  /\ InPc(c, {"append"}) => Appending(c)
  /\ InPc(c, {"find_insert", "append"}) => th[c].row \in Rows
  /\ InPc(c, Inserts) => th[c].row \in Rows /\ Has(th[c].name, th[c].row)
  /\ InPc(c, {"create_col", "insert_col", "scan"}) =>
       \A k \in Cols : k < th[c].col => th[c].buf[k] = Table(c).cols[k]
  /\ InPc(c, {"create_footer", "insert_footer", "create_close",
              "insert_close", "send"}) => th[c].buf = Table(c).cols
  /\ InPc(c, {"create_close", "insert_close", "scan", "send"}) =>
       th[c].num_rows = Len(Table(c).cols[1])
  /\ InPc(c, OpenPcs) => segment_seg[Table(c).id] = Truncated
  /\ InPc(c, {"send_names"}) => {n \in Names : created[n] > 0} \subseteq th[c].names

\* the columns of a table that nobody appends to are equal, and its segment is
\* what it is when nobody changes it
Changes(c, pcs, n) == InPc(c, pcs) /\ th[c].name = n
Contents ==
  \A n \in Names :
    /\ ~Live(n) => tables_[n].cols = NoRows
    /\ (\A c \in Conns : ~Changes(c, {"append"}, n)) =>
         \A i, j \in Cols : tables_[n].cols[i] = tables_[n].cols[j]
    /\ Live(n) /\ (\A c \in Conns : ~Changes(c, ChangePcs, n)) =>
         segment_seg[tables_[n].id] =
           Whole(Len(tables_[n].cols[1]), tables_[n].cols)
    /\ \A v \in acked[n] : Has(n, v)

Threads == \A c \in Conns : NewTable(c) /\ Working(c)

IInv == Types /\ Lone /\ Ours /\ Identity /\ Threads /\ Contents

----------------------------------------------------------------------------
(* The start *)

LEMMA StartIdsFacts ==
  /\ StartIds \in [Created -> 1 .. Cardinality(Created)]
  /\ \A m, n \in Created : StartIds[m] = StartIds[n] => m = n
  /\ Cardinality(Created) \in Nat
<1> DEFINE k == Cardinality(Created)
<1>1. /\ k \in Nat /\ ExistsBijection(1 .. k, Created)
  BY CreatedAssumption, FS_CardinalityType
<1>2. PICK g \in Bijection(1 .. k, Created) : TRUE
  BY <1>1 DEF ExistsBijection
<1>3. /\ g \in [1 .. k -> Created]
      /\ \A n \in Created : \E i \in 1 .. k : g[i] = n
  BY <1>2 DEF Bijection, Surjection
<1> DEFINE f == [n \in Created |-> CHOOSE i \in 1 .. k : g[i] = n]
<1>4. \A n \in Created : f[n] \in 1 .. k /\ g[f[n]] = n
  BY <1>3
<1>5. f \in [Created -> 1 .. k] /\ \A m, n \in Created : f[m] = f[n] => m = n
  BY <1>4
<1> QED  BY <1>1, <1>5 DEF StartIds

LEMMA NoRowsType == NoRows \in [Cols -> Seq(Rows)] /\ NoRows \in [Cols -> Seq(Cells)]
  BY DEF NoRows

LEMMA InitHolds == Init => IInv
<1> SUFFICES ASSUME Init  PROVE IInv  OBVIOUS
<1> USE DEF Init
<1>1. /\ Cardinality(Created) \in 0 .. MaxId /\ MaxId \in Nat
      /\ StartMap \in MapType
      /\ \A n \in Names : StartMap[n] # NoId => n \in Created
      /\ \A n \in Created : n \in Names /\ StartMap[n] = StartIds[n]
                            /\ StartMap[n] \in 1 .. Cardinality(Created)
      /\ \A m, n \in Names : StartMap[m] # NoId /\ StartMap[m] = StartMap[n] => m = n
      /\ \A n \in Names : StartMap[n] < Cardinality(Created) + 1
  BY StartIdsFacts, BoundsAssumption, CreatedAssumption
  DEF StartMap, MapType, Ids, NoId
<1>2. \A c \in Conns : th[c] = Idle
  OBVIOUS
<1>3. Idle \in ThreadType
  BY NoRowsType, NumColsAssumption
  DEF Idle, ThreadType, Labels, Cells, Cols, NoId, Ids
<1>4. Types
  <2>1. tables_ \in [Names -> [id : Ids \cup {NoId}, cols : [Cols -> Seq(Rows)]]]
    BY <1>1, NoRowsType DEF MapType
  <2>2. segment_seg \in [Ids -> [state : {"none", "empty", "mixed", "whole"},
                                 num_rows : Nat, cols : [Cols -> Seq(Cells)]]]
    BY NoRowsType DEF NoSegment, Whole
  <2>3. acked \in [Names -> SUBSET Rows] /\ created \in [Names -> Nat]
    OBVIOUS
  <2>4. th \in [Conns -> ThreadType]
    BY <1>3
  <2>5. next_id_ \in 1 .. MaxId + 1
    BY <1>1
  <2> QED  BY <1>1, <2>1, <2>2, <2>3, <2>4, <2>5 DEF Types
<1>5. Lone /\ Ours
  BY <1>2 DEF Lone, Ours, Creating, InPc, Idle
<1>6. Identity
  BY <1>1, <1>2 DEF Identity, Live, At, Idle, NoId
<1>7. Threads
  BY <1>2 DEF Threads, NewTable, Working, InPc, Idle, UsePcs, ChangePcs, FlushPcs,
     Loops, Inserts, OpenPcs
<1>8. Contents
  <2>1. \A n \in Names : tables_[n].cols = NoRows /\ tables_[n].id = StartMap[n]
                         /\ acked[n] = {}
    OBVIOUS
  <2>2. \A i, j \in Cols : NoRows[i] = NoRows[j]
    BY DEF NoRows
  <2>3. Len(NoRows[1]) = 0
    BY NumColsAssumption DEF NoRows, Cols
  <2>4. \A n \in Names : Live(n) => segment_seg[tables_[n].id] = Whole(0, NoRows)
    BY <1>1, <2>1 DEF Live, Ids
  <2> QED  BY <2>1, <2>2, <2>3, <2>4 DEF Contents
<1> QED  BY <1>4, <1>5, <1>6, <1>7, <1>8 DEF IInv

----------------------------------------------------------------------------
(* Steps *)

Frame == UNCHANGED <<tables_, name_to_id_, next_id_, catalog_dat, segment_seg,
                     acked, created>>

\* A step that only changes its thread's locals keeps the invariant if it keeps
\* what the invariant says of this thread.
LEMMA LocalStep ==
  ASSUME IInv, NEW c \in Conns, NEW t \in ThreadType, Frame,
         th' = [th EXCEPT ![c] = t], Lone', Ours',
         NewTable(c)', Working(c)',
         th[c].pc \notin {"append", "save_close"},
         InPc(c, ChangePcs) => t.pc \in ChangePcs /\ t.name = th[c].name
  PROVE  IInv'
<1> USE DEF Frame
<1>1. th \in [Conns -> ThreadType]
  BY DEF IInv, Types
<1>2. th'[c] = t /\ \A d \in Conns \ {c} : th'[d] = th[d]
  BY <1>1
<1>3. Types'
  BY <1>2 DEF IInv, Types
<1>4. Identity'
  <2>1. \A n : Live(n)' = Live(n)
    BY DEF Live
  <2>2. (\A d \in Conns : ~At(d, "save_close"))' => \A d \in Conns : ~At(d, "save_close")
    BY <1>2 DEF At
  <2> QED  BY <2>1, <2>2 DEF IInv, Identity
<1>5. Threads'
  <2>1. ASSUME NEW d \in Conns \ {c}  PROVE (NewTable(d) /\ Working(d))'
    <3>1. NewTable(d) /\ Working(d)
      BY DEF IInv, Threads
    <3>2. th'[d] = th[d]
      BY <1>2
    <3>3. NewTable(d)'
      BY <3>1, <3>2 DEF NewTable, InPc, Live
    <3>4. Working(d)'
      <4>1. /\ Table(d)' = Table(d) /\ (Live(th[d].name)' <=> Live(th[d].name))
            /\ \A v : Has(th[d].name, v)' <=> Has(th[d].name, v)
        BY <3>2 DEF Table, Live, Has
      <4>2. InPc(d, {"append"}) => Appending(d)'
        BY <3>1, <3>2, <4>1 DEF Working, Appending
      <4> QED  BY <3>1, <3>2, <4>1, <4>2 DEF Working, InPc
    <3> QED  BY <3>3, <3>4
  <2> QED  BY <2>1 DEF Threads
<1>6. Contents'
  <2> SUFFICES ASSUME NEW n \in Names
               PROVE  /\ ~Live(n) => tables_[n].cols = NoRows
                      /\ (\A d \in Conns : ~Changes(d, {"append"}, n)') =>
                           \A i, j \in Cols : tables_[n].cols[i] = tables_[n].cols[j]
                      /\ Live(n) /\ (\A d \in Conns : ~Changes(d, ChangePcs, n)') =>
                           segment_seg[tables_[n].id] =
                             Whole(Len(tables_[n].cols[1]), tables_[n].cols)
                      /\ \A v \in acked[n] : Has(n, v)
    BY DEF Contents, Live, Has
  <2>1. (\A d \in Conns : ~Changes(d, {"append"}, n)') =>
          \A d \in Conns : ~Changes(d, {"append"}, n)
    BY <1>2 DEF Changes, InPc
  <2>2. (\A d \in Conns : ~Changes(d, ChangePcs, n)') =>
          \A d \in Conns : ~Changes(d, ChangePcs, n)
    BY <1>2 DEF Changes, InPc
  <2> QED  BY <2>1, <2>2 DEF IInv, Contents
<1> QED  BY <1>3, <1>4, <1>5, <1>6 DEF IInv

----------------------------------------------------------------------------
(* What clients begin *)

LEMMA IdleType == Idle \in ThreadType
  BY NoRowsType, NumColsAssumption
  DEF Idle, ThreadType, Labels, Cells, Cols, NoId, Ids

LEMMA BeginStep ==
  ASSUME IInv, Discipline, NEW c \in Conns, MayBegin(c), Frame,
         NEW t \in ThreadType, th' = [th EXCEPT ![c] = t],
         t.pc \in {"check", "find_insert", "find_select", "show"}, t.col = 1,
         t.pc # "show" => t.name \in Names /\ c \in Home[t.name],
         t.pc = "check" => (\A d \in Conns : At(d, "idle")) /\ next_id_ <= MaxId,
         t.pc = "find_insert" => t.row \in Rows
  PROVE  IInv'
<1>1. th \in [Conns -> ThreadType]
  BY DEF IInv, Types
<1>2. th'[c] = t /\ \A d \in Conns \ {c} : th'[d] = th[d]
  BY <1>1
<1>4. \A d \in Conns : ~Creating(d)
  BY DEF MayBegin, Discipline
<1>5. Lone'
  BY <1>2, <1>4 DEF Lone, Creating, At
<1>6. Ours'
  <2>1. \A d \in Conns : ~InPc(d, {"idle", "show", "send_names"}) =>
          th[d].name \in Names /\ d \in Home[th[d].name]
    BY DEF IInv, Ours
  <2> QED  BY <1>2, <2>1 DEF Ours, InPc
<1>7. NewTable(c)'
  BY <1>2 DEF NewTable, InPc, Frame
<1>8. Working(c)'
  BY <1>2 DEF Working, InPc, UsePcs, ChangePcs, FlushPcs, Loops, Inserts, OpenPcs
<1>9. th[c].pc = "idle"
  BY DEF MayBegin, At
<1> QED
  BY <1>5, <1>6, <1>7, <1>8, <1>9, LocalStep DEF InPc, ChangePcs, FlushPcs

LEMMA BeginHolds ==
  ASSUME IInv, Discipline, NEW c \in Conns, Begin(c)
  PROVE  IInv'
<1>1. ASSUME NEW n \in Names, BeginCreate(c, n)  PROVE IInv'
  <2>1. \A d \in Conns : At(d, "idle")
    BY <1>1 DEF BeginCreate, MayCreate, Discipline
  <2>2. next_id_ <= MaxId
    <3>1. {d \in Conns : Creating(d)} = {}
      BY <2>1 DEF Creating, At
    <3>2. next_id_ + Cardinality({d \in Conns : Creating(d)}) <= MaxId
      BY <1>1 DEF BeginCreate
    <3>3. Cardinality({d \in Conns : Creating(d)}) = 0
      BY <3>1, FS_EmptySet
    <3>4. next_id_ \in Nat
      BY DEF IInv, Types
    <3> QED  BY <3>2, <3>3, <3>4
  <2> DEFINE t == [Idle EXCEPT !.pc = "check", !.name = n, !.row = Junk]
  <2>3. th' = [th EXCEPT ![c] = t] /\ Frame /\ MayBegin(c) /\ c \in Home[n]
    BY <1>1 DEF BeginCreate, Began, MayUse, Frame, shared, files, ghosts
  <2>4. t \in ThreadType /\ t.pc = "check" /\ t.name = n /\ t.col = 1
    BY IdleType DEF Idle, ThreadType, Labels, Cells
  <2> HIDE DEF t
  <2> QED  BY <2>1, <2>2, <2>3, <2>4, BeginStep
<1>2. ASSUME NEW n \in Names, NEW v \in Rows, BeginInsert(c, n, v)  PROVE IInv'
  <2> DEFINE t == [Idle EXCEPT !.pc = "find_insert", !.name = n, !.row = v]
  <2>3. th' = [th EXCEPT ![c] = t] /\ Frame /\ MayBegin(c) /\ c \in Home[n]
    BY <1>2 DEF BeginInsert, Began, MayUse, Frame, shared, files, ghosts
  <2>4. /\ t \in ThreadType /\ t.pc = "find_insert" /\ t.name = n /\ t.col = 1
        /\ t.row = v
    BY IdleType DEF Idle, ThreadType, Labels, Cells
  <2> HIDE DEF t
  <2> QED  BY <2>3, <2>4, BeginStep
<1>3. ASSUME NEW n \in Names, BeginSelect(c, n)  PROVE IInv'
  <2> DEFINE t == [Idle EXCEPT !.pc = "find_select", !.name = n, !.row = Junk]
  <2>3. th' = [th EXCEPT ![c] = t] /\ Frame /\ MayBegin(c) /\ c \in Home[n]
    BY <1>3 DEF BeginSelect, Began, MayUse, Frame, shared, files, ghosts
  <2>4. t \in ThreadType /\ t.pc = "find_select" /\ t.name = n /\ t.col = 1
    BY IdleType DEF Idle, ThreadType, Labels, Cells
  <2> HIDE DEF t
  <2> QED  BY <2>3, <2>4, BeginStep
<1>4. ASSUME BeginShow(c)  PROVE IInv'
  <2> DEFINE t == [Idle EXCEPT !.pc = "show"]
  <2>3. th' = [th EXCEPT ![c] = t] /\ Frame /\ MayBegin(c)
    BY <1>4 DEF BeginShow, Frame, shared, files, ghosts
  <2>4. t \in ThreadType /\ t.pc = "show" /\ t.col = 1
    BY IdleType DEF Idle, ThreadType, Labels, Cells
  <2> HIDE DEF t
  <2> QED  BY <2>3, <2>4, BeginStep
<1> QED  BY <1>1, <1>2, <1>3, <1>4 DEF Begin

----------------------------------------------------------------------------
(* Steps that only change locals *)

\* A thread that goes on within its statement, or ends it.
LEMMA GoOn ==
  ASSUME IInv, NEW c \in Conns, NEW t \in ThreadType,
         th' = [th EXCEPT ![c] = t],
         ~At(c, "idle"),
         t.pc = "idle" \/ t.pc \in {"show", "send_names"}
           \/ (t.name = th[c].name /\ ~InPc(c, {"show", "send_names"})),
         t.pc \in {"check", "assign_read", "assign_write", "save_open",
                   "save_close", "emplace", "create_open", "create_col",
                   "create_footer", "create_close"} => Creating(c)
  PROVE  Lone' /\ Ours' /\ th'[c] = t
<1>1. th \in [Conns -> ThreadType]
  BY DEF IInv, Types
<1>2. th'[c] = t /\ \A d \in Conns \ {c} : th'[d] = th[d]
  BY <1>1
<1>3. Lone'
  BY <1>2 DEF IInv, Lone, Creating, At
<1>4. Ours'
  <2>1. \A d \in Conns : ~InPc(d, {"idle", "show", "send_names"}) =>
          th[d].name \in Names /\ d \in Home[th[d].name]
    BY DEF IInv, Ours
  <2> QED  BY <1>2, <2>1 DEF Ours, InPc, At
<1> QED  BY <1>2, <1>3, <1>4

\* Two threads that work on tables work on different ones.
LEMMA Alone ==
  ASSUME IInv, Discipline, NEW c \in Conns, NEW d \in Conns, c # d,
         ~InPc(c, {"idle", "show", "send_names"}),
         ~InPc(d, {"idle", "show", "send_names"})
  PROVE  th[c].name # th[d].name /\ th[c].name \in Names /\ th[d].name \in Names
  BY DEF IInv, Ours, Discipline, Apart

LEMMA FinishStep ==
  ASSUME IInv, NEW c \in Conns, Frame, Finish(c),
         ~InPc(c, ChangePcs \cup {"save_close", "idle"})
  PROVE  IInv'
<1>1. /\ Idle \in ThreadType /\ Idle.pc = "idle" /\ Idle.col = 1
      /\ th' = [th EXCEPT ![c] = Idle]
  BY IdleType DEF Idle, Finish
<1>2. ~At(c, "idle") /\ th[c].pc \notin {"append", "save_close"} /\ ~InPc(c, ChangePcs)
  BY DEF InPc, At, ChangePcs
<1>3. Lone' /\ Ours' /\ th'[c] = Idle
  BY <1>1, <1>2, GoOn
<1>4. NewTable(c)' /\ Working(c)'
  BY <1>1, <1>3 DEF NewTable, Working, InPc, UsePcs, ChangePcs, FlushPcs, Loops,
     Inserts, OpenPcs
<1> QED  BY <1>1, <1>2, <1>3, <1>4, LocalStep

LEMMA MoveType ==
  ASSUME NEW old \in ThreadType, NEW label \in Labels,
         NEW t, t = [old EXCEPT !.pc = label]
  PROVE  /\ t \in ThreadType /\ t.pc = label /\ t.name = old.name
         /\ t.row = old.row /\ t.id = old.id /\ t.col = old.col
  BY DEF ThreadType

LEMMA CheckFreeHolds ==
  ASSUME IInv, NEW c \in Conns, CheckFree(c)
  PROVE  IInv'
<1>1. Frame /\ th[c].pc = "check"
  BY DEF CheckFree, Frame, shared, files, ghosts, At
<1>2. CASE Live(th[c].name)
  BY <1>1, <1>2, FinishStep DEF CheckFree, InPc, ChangePcs, FlushPcs
<1>3. CASE ~Live(th[c].name)
  <2> DEFINE t == [th[c] EXCEPT !.pc = "assign_read"]
  <2>1. th \in [Conns -> ThreadType] /\ Working(c) /\ NewTable(c)
    BY DEF IInv, Types, Threads
  <2>2. /\ t \in ThreadType /\ t.pc = "assign_read" /\ t.col = th[c].col
        /\ t.name = th[c].name
    <3>1. th[c] \in ThreadType /\ "assign_read" \in Labels
      BY <2>1 DEF Labels
    <3> QED  BY <3>1, MoveType
  <2>3. th' = [th EXCEPT ![c] = t]
    BY <1>3, <2>1 DEF CheckFree, Goto
  <2> HIDE DEF t
  <2>4. Lone' /\ Ours' /\ th'[c] = t
    BY <1>1, <2>2, <2>3, GoOn DEF At, InPc, Creating
  <2>5. NewTable(c)'
    BY <1>1, <1>3, <2>1, <2>2, <2>4 DEF NewTable, InPc, Frame, Live
  <2>6. Working(c)'
    BY <1>1, <2>1, <2>2, <2>4 DEF Working, InPc, UsePcs, ChangePcs, FlushPcs,
       Loops, Inserts, OpenPcs
  <2> QED  BY <1>1, <2>2, <2>3, <2>4, <2>5, <2>6, LocalStep DEF InPc, ChangePcs, FlushPcs
<1> QED  BY <1>2, <1>3

LEMMA AssignReadHolds ==
  ASSUME IInv, NEW c \in Conns, AssignRead(c)
  PROVE  IInv'
<1> DEFINE t == [th[c] EXCEPT !.pc = "assign_write", !.id = next_id_]
<1>1. Frame /\ th[c].pc = "assign_read"
  BY DEF AssignRead, Frame, shared, files, ghosts, At
<1>2. th \in [Conns -> ThreadType] /\ Working(c) /\ NewTable(c)
  BY DEF IInv, Types, Threads
<1>3. next_id_ \in Ids
  BY <1>1, <1>2, BoundsAssumption DEF NewTable, InPc, IInv, Types, Ids
<1>4. /\ t \in ThreadType /\ t.pc = "assign_write" /\ t.col = th[c].col
      /\ t.name = th[c].name /\ t.id = next_id_
  <2>1. th[c] \in ThreadType /\ "assign_write" \in Labels
    BY <1>2 DEF Labels
  <2> QED  BY <1>3, <2>1 DEF ThreadType
<1>5. th' = [th EXCEPT ![c] = t]
  BY <1>2 DEF AssignRead
<1> HIDE DEF t
<1>6. Lone' /\ Ours' /\ th'[c] = t
  BY <1>1, <1>4, <1>5, GoOn DEF At, InPc, Creating
<1>7. NewTable(c)'
  BY <1>1, <1>2, <1>4, <1>6 DEF NewTable, InPc, Frame, Live
<1>8. Working(c)'
  BY <1>1, <1>2, <1>4, <1>6 DEF Working, InPc, UsePcs, ChangePcs, FlushPcs,
     Loops, Inserts, OpenPcs
<1> QED  BY <1>1, <1>4, <1>5, <1>6, <1>7, <1>8, LocalStep DEF InPc, ChangePcs, FlushPcs

LEMMA FindForInsertHolds ==
  ASSUME IInv, Discipline, NEW c \in Conns, FindForInsert(c)
  PROVE  IInv'
<1>1. Frame /\ th[c].pc = "find_insert"
  BY DEF FindForInsert, Frame, shared, files, ghosts, At
<1>2. CASE ~Live(th[c].name)
  BY <1>1, <1>2, FinishStep DEF FindForInsert, InPc, ChangePcs, FlushPcs
<1>3. CASE Live(th[c].name)
  <2> DEFINE t == [th[c] EXCEPT !.pc = "append"]
  <2>1. th \in [Conns -> ThreadType] /\ Working(c) /\ NewTable(c)
    BY DEF IInv, Types, Threads
  <2>2. /\ t \in ThreadType /\ t.pc = "append" /\ t.col = th[c].col
        /\ t.name = th[c].name /\ t.row = th[c].row
    <3>1. th[c] \in ThreadType /\ "append" \in Labels
      BY <2>1 DEF Labels
    <3> QED  BY <3>1, MoveType
  <2>3. th' = [th EXCEPT ![c] = t]
    BY <1>3, <2>1 DEF FindForInsert, Goto
  <2> HIDE DEF t
  <2>4. Lone' /\ Ours' /\ th'[c] = t
    BY <1>1, <2>2, <2>3, GoOn DEF At, InPc, Creating
  <2>5. NewTable(c)'
    BY <2>2, <2>4 DEF NewTable, InPc
  <2>6. /\ t.col = 1 /\ t.row \in Rows
        /\ \A i, j \in Cols : Table(c).cols[i] = Table(c).cols[j]
    <3>1. \A d \in Conns : ~Changes(d, {"append"}, th[c].name)
      BY <1>1, Alone DEF Changes, InPc
    <3>2. th[c].name \in Names
      BY <1>1 DEF IInv, Ours, InPc
    <3> QED  BY <1>1, <2>1, <2>2, <3>1, <3>2 DEF IInv, Contents, Working, InPc,
             Loops, Table
  <2>7. Appending(c)'
    BY <1>1, <2>2, <2>4, <2>6, NumColsAssumption DEF Appending, Table, Cols, Frame
  <2>8. Working(c)'
    BY <1>1, <1>3, <2>1, <2>2, <2>4, <2>6, <2>7 DEF Working, InPc, UsePcs,
       ChangePcs, FlushPcs, Loops, Inserts, OpenPcs, Frame, Live
  <2> QED  BY <1>1, <2>2, <2>3, <2>4, <2>5, <2>8, LocalStep DEF InPc, ChangePcs, FlushPcs
<1> QED  BY <1>2, <1>3

\* A step of a thread that works on a table and only changes its locals.
LEMMA LookStep ==
  ASSUME IInv, NEW c \in Conns, NEW t \in ThreadType, Frame,
         th' = [th EXCEPT ![c] = t], t.name = th[c].name,
         \/ /\ InPc(c, {"create_col", "create_footer"})
            /\ t.pc \in {"create_col", "create_footer", "create_close"}
         \/ /\ InPc(c, {"insert_col", "insert_footer"})
            /\ t.pc \in {"insert_col", "insert_footer", "insert_close"}
            /\ t.row = th[c].row
         \/ /\ InPc(c, {"find_select", "num_rows", "scan"})
            /\ t.pc \in {"num_rows", "scan", "send"},
         Live(th[c].name),
         t.pc \notin Loops => t.col = 1,
         t.pc \in {"create_col", "insert_col", "scan"} =>
           \A k \in Cols : k < t.col => t.buf[k] = Table(c).cols[k],
         t.pc \in {"create_footer", "insert_footer", "create_close",
                   "insert_close", "send"} => t.buf = Table(c).cols,
         t.pc \in {"create_close", "insert_close", "scan", "send"} =>
           t.num_rows = Len(Table(c).cols[1])
  PROVE  IInv'
<1>1. Working(c)
  BY DEF IInv, Threads
<1>2. Lone' /\ Ours' /\ th'[c] = t
  BY GoOn DEF At, InPc, Creating
<1>3. NewTable(c)'
  BY <1>2 DEF NewTable, InPc
<1>4. Table(c)' = Table(c) /\ Live(t.name)
  BY <1>2 DEF Table, Frame
<1>5. Working(c)'
  <2>1. th'[c].pc # "append" /\ ~(th'[c].pc \in {"send_names", "find_insert", "insert_open"})
    BY <1>2
  <2>2. t.pc \in Inserts => t.row \in Rows /\ Has(t.name, t.row)
    BY <1>1 DEF Working, InPc, Inserts
  <2>3. t.pc \in OpenPcs => segment_seg[Table(c).id] = Truncated
    BY <1>1 DEF Working, InPc, OpenPcs
  <2> QED
    BY <1>2, <1>4, <2>1, <2>2, <2>3 DEF Working, InPc, Has, Frame, Live
<1> QED  BY <1>2, <1>3, <1>5, LocalStep DEF InPc, ChangePcs, FlushPcs

\* A loop that has copied the columns before the k-th copies the k-th.
LEMMA CopyColumn ==
  ASSUME NEW buf \in [Cols -> Seq(Cells)], NEW cols \in [Cols -> Seq(Cells)],
         NEW k \in Cols, \A i \in Cols : i < k => buf[i] = cols[i],
         NEW new \in [Cols -> Seq(Cells)], new = [buf EXCEPT ![k] = cols[k]]
  PROVE  /\ k >= NumCols => new = cols
         /\ k < NumCols => \A i \in Cols : i < k + 1 => new[i] = cols[i]
<1>2. \A i \in Cols : i <= k => new[i] = cols[i]
  BY DEF Cols
<1>3. k >= NumCols => \A i \in Cols : new[i] = cols[i]
  BY <1>2, NumColsAssumption DEF Cols
<1>4. (\A i \in Cols : new[i] = cols[i]) => new = cols
  OBVIOUS
<1>5. k < NumCols => \A i \in Cols : i < k + 1 => new[i] = cols[i]
  BY <1>2, NumColsAssumption DEF Cols
<1> QED  BY <1>3, <1>4, <1>5

LEMMA FlushColumnHolds ==
  ASSUME IInv, NEW c \in Conns, NEW col, NEW footer,
         \/ col = "create_col" /\ footer = "create_footer"
         \/ col = "insert_col" /\ footer = "insert_footer",
         FlushColumn(c, col, footer)
  PROVE  IInv'
<1> DEFINE k == th[c].col
           t == [th[c] EXCEPT !.buf = [@ EXCEPT ![k] = Table(c).cols[k]],
                              !.col = IF k < NumCols THEN k + 1 ELSE 1,
                              !.pc = IF k < NumCols THEN col ELSE footer]
<1>1. Frame /\ th[c].pc = col
  BY DEF FlushColumn, Frame, shared, files, ghosts, At
<1>2. th \in [Conns -> ThreadType] /\ Working(c) /\ th[c] \in ThreadType
  BY DEF IInv, Types, Threads
<1>3. k \in Cols /\ th[c].buf \in [Cols -> Seq(Cells)]
  BY <1>2 DEF ThreadType
<1>4. Live(th[c].name) /\ th[c].name \in Names
  BY <1>1, <1>2 DEF Working, InPc, UsePcs, ChangePcs, FlushPcs, IInv, Ours
<1>5. Table(c).cols \in [Cols -> Seq(Rows)] /\ Table(c).cols \in [Cols -> Seq(Cells)]
  BY <1>4, SeqMonotonic DEF IInv, Types, Table, Cells
<1>6. /\ t \in ThreadType /\ t.name = th[c].name /\ t.row = th[c].row
      /\ t.buf = [th[c].buf EXCEPT ![k] = Table(c).cols[k]]
      /\ t.col = (IF k < NumCols THEN k + 1 ELSE 1)
      /\ t.pc = (IF k < NumCols THEN col ELSE footer)
  <2>1. [th[c].buf EXCEPT ![k] = Table(c).cols[k]] \in [Cols -> Seq(Cells)]
    BY <1>3, <1>5
  <2>2. (IF k < NumCols THEN k + 1 ELSE 1) \in Cols
    BY <1>3, NumColsAssumption DEF Cols
  <2>3. (IF k < NumCols THEN col ELSE footer) \in Labels
    BY DEF Labels
  <2> QED  BY <1>2, <2>1, <2>2, <2>3 DEF ThreadType
<1>7. th' = [th EXCEPT ![c] = t]
  BY <1>2 DEF FlushColumn
<1> HIDE DEF t
<1>8. \A i \in Cols : i < k => th[c].buf[i] = Table(c).cols[i]
  BY <1>1, <1>2 DEF Working, InPc
<1>9. /\ k >= NumCols => t.buf = Table(c).cols
      /\ k < NumCols => \A i \in Cols : i < k + 1 => t.buf[i] = Table(c).cols[i]
  <2> DEFINE buf == th[c].buf
             cols == Table(c).cols
             new == t.buf
  <2>1. /\ buf \in [Cols -> Seq(Cells)] /\ cols \in [Cols -> Seq(Cells)] /\ k \in Cols
        /\ \A i \in Cols : i < k => buf[i] = cols[i]
        /\ new = [buf EXCEPT ![k] = cols[k]] /\ new \in [Cols -> Seq(Cells)]
    BY <1>3, <1>5, <1>6, <1>8 DEF ThreadType
  <2> HIDE DEF buf, cols, new, k
  <2>2. /\ k >= NumCols => new = cols
        /\ k < NumCols => \A i \in Cols : i < k + 1 => new[i] = cols[i]
    BY <2>1, CopyColumn, NumColsAssumption DEF Cols
  <2> QED  BY <2>2 DEF buf, cols, new
<1> QED
  <2>1. CASE k < NumCols
    BY <1>1, <1>4, <1>6, <1>7, <1>9, <2>1, LookStep DEF InPc, Loops
  <2>2. CASE ~(k < NumCols)
    <3>1. k >= NumCols
      BY <2>2, <1>3, NumColsAssumption DEF Cols
    <3> QED  BY <1>1, <1>4, <1>6, <1>7, <1>9, <2>2, <3>1, LookStep DEF InPc, Loops
  <2> QED  BY <2>1, <2>2

LEMMA FlushFooterHolds ==
  ASSUME IInv, NEW c \in Conns, NEW footer, NEW close,
         \/ footer = "create_footer" /\ close = "create_close"
         \/ footer = "insert_footer" /\ close = "insert_close",
         FlushFooter(c, footer, close)
  PROVE  IInv'
<1> DEFINE t == [th[c] EXCEPT !.num_rows = Len(Table(c).cols[1]), !.pc = close]
<1>1. Frame /\ th[c].pc = footer
  BY DEF FlushFooter, Frame, shared, files, ghosts, At
<1>2. th \in [Conns -> ThreadType] /\ Working(c) /\ th[c] \in ThreadType
  BY DEF IInv, Types, Threads
<1>4. Live(th[c].name) /\ th[c].name \in Names
  BY <1>1, <1>2 DEF Working, InPc, UsePcs, ChangePcs, FlushPcs, IInv, Ours
<1>5. Len(Table(c).cols[1]) \in Nat
  BY <1>4, NumColsAssumption DEF IInv, Types, Table, Cols
<1>6. /\ t \in ThreadType /\ t.name = th[c].name /\ t.row = th[c].row
      /\ t.buf = th[c].buf /\ t.col = th[c].col /\ t.pc = close
      /\ t.num_rows = Len(Table(c).cols[1])
  BY <1>2, <1>5 DEF ThreadType, Labels
<1>7. th' = [th EXCEPT ![c] = t]
  BY <1>2 DEF FlushFooter
<1> HIDE DEF t
<1>8. th[c].buf = Table(c).cols /\ th[c].col = 1
  BY <1>1, <1>2 DEF Working, InPc, Loops
<1> QED
  <2>1. CASE footer = "create_footer" /\ close = "create_close"
    BY <1>1, <1>4, <1>6, <1>7, <1>8, <2>1, LookStep DEF InPc, Loops
  <2>2. CASE footer = "insert_footer" /\ close = "insert_close"
    BY <1>1, <1>4, <1>6, <1>7, <1>8, <2>2, LookStep DEF InPc, Loops
  <2> QED  BY <2>1, <2>2

LEMMA FindForSelectHolds ==
  ASSUME IInv, NEW c \in Conns, FindForSelect(c)
  PROVE  IInv'
<1>1. Frame /\ th[c].pc = "find_select"
  BY DEF FindForSelect, Frame, shared, files, ghosts, At
<1>2. CASE ~Live(th[c].name)
  BY <1>1, <1>2, FinishStep DEF FindForSelect, InPc, ChangePcs, FlushPcs
<1>3. CASE Live(th[c].name)
  <2> DEFINE t == [th[c] EXCEPT !.pc = "num_rows"]
  <2>1. th \in [Conns -> ThreadType] /\ Working(c)
    BY DEF IInv, Types, Threads
  <2>2. /\ t \in ThreadType /\ t.pc = "num_rows" /\ t.col = th[c].col
        /\ t.name = th[c].name
    <3>1. th[c] \in ThreadType /\ "num_rows" \in Labels
      BY <2>1 DEF Labels
    <3> QED  BY <3>1, MoveType
  <2>3. th' = [th EXCEPT ![c] = t]
    BY <1>3, <2>1 DEF FindForSelect, Goto
  <2> HIDE DEF t
  <2>4. th[c].col = 1
    BY <1>1, <2>1 DEF Working, InPc, Loops
  <2> QED  BY <1>1, <1>3, <2>2, <2>3, <2>4, LookStep DEF InPc, Loops
<1> QED  BY <1>2, <1>3

LEMMA ScanRowsHolds ==
  ASSUME IInv, NEW c \in Conns, ScanRows(c)
  PROVE  IInv'
<1> DEFINE t == [th[c] EXCEPT !.pc = "scan", !.num_rows = num_rows(Table(c).cols)]
<1>1. Frame /\ th[c].pc = "num_rows"
  BY DEF ScanRows, Frame, shared, files, ghosts, At
<1>2. th \in [Conns -> ThreadType] /\ Working(c) /\ th[c] \in ThreadType
  BY DEF IInv, Types, Threads
<1>4. Live(th[c].name) /\ th[c].name \in Names
  BY <1>1, <1>2 DEF Working, InPc, UsePcs, IInv, Ours
<1>5. Len(Table(c).cols[1]) \in Nat
  BY <1>4, NumColsAssumption DEF IInv, Types, Table, Cols
<1>6. /\ t \in ThreadType /\ t.name = th[c].name /\ t.pc = "scan"
      /\ t.col = th[c].col /\ t.num_rows = Len(Table(c).cols[1])
  BY <1>2, <1>5 DEF ThreadType, Labels, num_rows
<1>7. th' = [th EXCEPT ![c] = t]
  BY <1>2 DEF ScanRows
<1> HIDE DEF t
<1>8. th[c].col = 1
  BY <1>1, <1>2 DEF Working, InPc, Loops
<1>9. \A k \in Cols : ~(k < t.col)
  BY <1>6, <1>8, NumColsAssumption DEF Cols
<1> QED  BY <1>1, <1>4, <1>6, <1>7, <1>9, LookStep DEF InPc, Loops

LEMMA ScanColumnHolds ==
  ASSUME IInv, Discipline, NEW c \in Conns, ScanColumn(c)
  PROVE  IInv'
<1> DEFINE k == th[c].col
           col == Table(c).cols[k]
           copy == [r \in 1 .. th[c].num_rows |-> IF r <= Len(col) THEN col[r] ELSE Junk]
           t == [th[c] EXCEPT !.buf = [@ EXCEPT ![k] = copy],
                              !.col = IF k < NumCols THEN k + 1 ELSE 1,
                              !.pc = IF k < NumCols THEN "scan" ELSE "send"]
<1>1. Frame /\ th[c].pc = "scan"
  BY DEF ScanColumn, Frame, shared, files, ghosts, At
<1>2. th \in [Conns -> ThreadType] /\ Working(c) /\ th[c] \in ThreadType
  BY DEF IInv, Types, Threads
<1>3. k \in Cols /\ th[c].buf \in [Cols -> Seq(Cells)]
  BY <1>2 DEF ThreadType
<1>4. Live(th[c].name) /\ th[c].name \in Names
  BY <1>1, <1>2 DEF Working, InPc, UsePcs, IInv, Ours
<1>5. Table(c).cols \in [Cols -> Seq(Rows)] /\ Table(c).cols \in [Cols -> Seq(Cells)]
  BY <1>4, SeqMonotonic DEF IInv, Types, Table, Cells
<1>6. \A i, j \in Cols : Table(c).cols[i] = Table(c).cols[j]
  <2>1. \A d \in Conns : ~Changes(d, {"append"}, th[c].name)
    BY <1>1, Alone DEF Changes, InPc
  <2> QED  BY <1>4, <2>1 DEF IInv, Contents, Table
<1>7. copy = col
  <2>1. th[c].num_rows = Len(Table(c).cols[1])
    BY <1>1, <1>2 DEF Working, InPc
  <2>2. th[c].num_rows = Len(col)
    BY <1>3, <1>6, <2>1, NumColsAssumption DEF Cols
  <2>3. col \in Seq(Rows)
    BY <1>3, <1>5
  <2>4. col = [r \in 1 .. Len(col) |-> col[r]]
    BY <2>3
  <2> HIDE DEF col
  <2>5. copy = [r \in 1 .. Len(col) |-> col[r]]
    BY <2>2, <2>3
  <2> QED  BY <2>4, <2>5
<1>8. /\ t \in ThreadType /\ t.name = th[c].name /\ t.num_rows = th[c].num_rows
      /\ t.buf = [th[c].buf EXCEPT ![k] = Table(c).cols[k]]
      /\ t.col = (IF k < NumCols THEN k + 1 ELSE 1)
      /\ t.pc = (IF k < NumCols THEN "scan" ELSE "send")
  <2>1. [th[c].buf EXCEPT ![k] = copy] \in [Cols -> Seq(Cells)]
    BY <1>3, <1>5, <1>7
  <2>2. (IF k < NumCols THEN k + 1 ELSE 1) \in Cols
    BY <1>3, NumColsAssumption DEF Cols
  <2>3. (IF k < NumCols THEN "scan" ELSE "send") \in Labels
    BY DEF Labels
  <2> HIDE DEF copy
  <2> QED  BY <1>2, <1>7, <2>1, <2>2, <2>3 DEF ThreadType
<1>9. th' = [th EXCEPT ![c] = t]
  BY <1>2 DEF ScanColumn
<1> HIDE DEF t, copy
<1>10. /\ \A i \in Cols : i < k => th[c].buf[i] = Table(c).cols[i]
       /\ th[c].num_rows = Len(Table(c).cols[1])
  BY <1>1, <1>2 DEF Working, InPc
<1>11. /\ k >= NumCols => t.buf = Table(c).cols
       /\ k < NumCols => \A i \in Cols : i < k + 1 => t.buf[i] = Table(c).cols[i]
  <2> DEFINE buf == th[c].buf
             cols == Table(c).cols
             new == t.buf
  <2>1. /\ buf \in [Cols -> Seq(Cells)] /\ cols \in [Cols -> Seq(Cells)] /\ k \in Cols
        /\ \A i \in Cols : i < k => buf[i] = cols[i]
        /\ new = [buf EXCEPT ![k] = cols[k]] /\ new \in [Cols -> Seq(Cells)]
    BY <1>3, <1>5, <1>8, <1>10 DEF ThreadType
  <2> HIDE DEF buf, cols, new, k
  <2>2. /\ k >= NumCols => new = cols
        /\ k < NumCols => \A i \in Cols : i < k + 1 => new[i] = cols[i]
    BY <2>1, CopyColumn, NumColsAssumption DEF Cols
  <2> QED  BY <2>2 DEF buf, cols, new
<1> QED
  <2>1. CASE k < NumCols
    BY <1>1, <1>4, <1>8, <1>9, <1>10, <1>11, <2>1, LookStep DEF InPc, Loops
  <2>2. CASE ~(k < NumCols)
    <3>1. k >= NumCols
      BY <2>2, <1>3, NumColsAssumption DEF Cols
    <3> QED  BY <1>1, <1>4, <1>8, <1>9, <1>10, <1>11, <2>2, <3>1, LookStep DEF InPc, Loops
  <2> QED  BY <2>1, <2>2

LEMMA ShowTablesHolds ==
  ASSUME IInv, NEW c \in Conns, ShowTables(c)
  PROVE  IInv'
<1> DEFINE t == [th[c] EXCEPT !.pc = "send_names", !.names = {n \in Names : Live(n)}]
<1>1. Frame /\ th[c].pc = "show"
  BY DEF ShowTables, Frame, shared, files, ghosts, At
<1>2. th \in [Conns -> ThreadType] /\ Working(c)
  BY DEF IInv, Types, Threads
<1>3. /\ t \in ThreadType /\ t.pc = "send_names" /\ t.col = th[c].col
      /\ t.names = {n \in Names : Live(n)}
  <2>1. th[c] \in ThreadType /\ "send_names" \in Labels
    BY <1>2 DEF Labels
  <2> QED  BY <2>1 DEF ThreadType
<1>4. th' = [th EXCEPT ![c] = t]
  BY <1>2 DEF ShowTables
<1> HIDE DEF t
<1>5. Lone' /\ Ours' /\ th'[c] = t
  BY <1>1, <1>3, <1>4, GoOn DEF At, InPc, Creating
<1>6. NewTable(c)'
  BY <1>3, <1>5 DEF NewTable, InPc
<1>7. {n \in Names : created[n] > 0} \subseteq t.names
  BY <1>3 DEF IInv, Identity
<1>8. Working(c)'
  BY <1>1, <1>2, <1>3, <1>5, <1>7 DEF Working, InPc, UsePcs, ChangePcs, FlushPcs,
     Loops, Inserts, OpenPcs, Frame
<1> QED  BY <1>1, <1>3, <1>4, <1>5, <1>6, <1>8, LocalStep DEF InPc, ChangePcs, FlushPcs

LEMMA SendHolds ==
  ASSUME IInv, NEW c \in Conns, SendRows(c) \/ SendNames(c)
  PROVE  IInv'
  BY FinishStep DEF SendRows, SendNames, At, InPc, ChangePcs, FlushPcs, Frame, shared,
     files, ghosts

----------------------------------------------------------------------------
(* CREATE TABLE: the other threads are idle *)

LEMMA OthersIdle ==
  ASSUME IInv, NEW c \in Conns, Creating(c), NEW t \in ThreadType,
         th' = [th EXCEPT ![c] = t]
  PROVE  /\ th'[c] = t /\ th' \in [Conns -> ThreadType]
         /\ \A d \in Conns \ {c} :
              th'[d] = th[d] /\ th[d].pc = "idle" /\ (NewTable(d) /\ Working(d))'
         /\ t.pc \notin {"show", "send_names"} /\ t.name = th[c].name => Lone' /\ Ours'
<1>1. th \in [Conns -> ThreadType]
  BY DEF IInv, Types
<1>2. th'[c] = t /\ th' \in [Conns -> ThreadType] /\ \A d \in Conns \ {c} : th'[d] = th[d]
  BY <1>1
<1>3. \A d \in Conns \ {c} : th[d].pc = "idle"
  BY DEF IInv, Lone, At
<1>4. ASSUME NEW d \in Conns \ {c}  PROVE (NewTable(d) /\ Working(d))'
  <2>1. Working(d)
    BY DEF IInv, Threads
  <2>2. th'[d].pc = "idle" /\ th'[d].col = 1
    BY <1>2, <1>3, <2>1 DEF Working, InPc, Loops
  <2> QED  BY <2>2 DEF NewTable, Working, InPc, UsePcs, ChangePcs, FlushPcs, Loops,
           Inserts, OpenPcs
<1>5. Lone'
  BY <1>2, <1>3 DEF Lone, Creating, At
<1>6. t.pc \notin {"show", "send_names"} /\ t.name = th[c].name => Ours'
  <2>1. ~InPc(c, {"idle", "show", "send_names"})
    BY DEF Creating, InPc
  <2>2. th[c].name \in Names /\ c \in Home[th[c].name]
    BY <2>1 DEF IInv, Ours
  <2> QED  BY <1>2, <1>3, <2>2 DEF Ours, InPc
<1> QED  BY <1>2, <1>3, <1>4, <1>5, <1>6

\* While the thread that is alone works on no table, the tables stay as they are.
LEMMA ContentsKept ==
  ASSUME IInv, UNCHANGED <<tables_, segment_seg, acked>>, NEW c \in Conns,
         ~InPc(c, ChangePcs), \A d \in Conns \ {c} : th'[d] = th[d]
  PROVE  Contents'
<1>1. \A n \in Names : ~Changes(c, {"append"}, n) /\ ~Changes(c, ChangePcs, n)
  BY DEF Changes, InPc, ChangePcs
<1>2. \A n \in Names :
        /\ (\A d \in Conns : ~Changes(d, {"append"}, n))' =>
             \A d \in Conns : ~Changes(d, {"append"}, n)
        /\ (\A d \in Conns : ~Changes(d, ChangePcs, n))' =>
             \A d \in Conns : ~Changes(d, ChangePcs, n)
  BY <1>1 DEF Changes, InPc
<1>3. \A n \in Names : Live(n)' = Live(n) /\ \A v : Has(n, v)' = Has(n, v)
  BY DEF Live, Has
<1> QED  BY <1>2, <1>3 DEF IInv, Contents

LEMMA AssignWriteHolds ==
  ASSUME IInv, NEW c \in Conns, AssignWrite(c)
  PROVE  IInv'
<1> DEFINE t == [th[c] EXCEPT !.pc = "save_open"]
           name == th[c].name
<1>1. /\ th[c].pc = "assign_write" /\ next_id_' = th[c].id + 1
      /\ name_to_id_' = [name_to_id_ EXCEPT ![name] = th[c].id]
      /\ UNCHANGED <<tables_, catalog_dat, segment_seg, acked, created>>
  BY DEF AssignWrite, files, ghosts, At, NextId
<1>2. /\ th \in [Conns -> ThreadType] /\ Working(c) /\ NewTable(c)
      /\ next_id_ \in 1 .. MaxId + 1
  BY DEF IInv, Types, Threads
<1>3. /\ th[c].id = next_id_ /\ next_id_ \in Ids /\ ~Live(name)
      /\ next_id_' = next_id_ + 1 /\ th[c].col = 1
  BY <1>1, <1>2, BoundsAssumption DEF NewTable, Working, InPc, Ids, Loops
<1>4. /\ t \in ThreadType /\ t.pc = "save_open" /\ t.col = th[c].col
      /\ t.name = name /\ t.id = next_id_
  <2>1. th[c] \in ThreadType /\ "save_open" \in Labels
    BY <1>2, <1>3 DEF Labels
  <2> QED  BY <1>3, <2>1, MoveType
<1>5. th' = [th EXCEPT ![c] = t]
  BY <1>2 DEF AssignWrite, Goto
<1> HIDE DEF t
<1>6. Creating(c)
  BY <1>1 DEF Creating
<1>7. /\ th'[c] = t /\ th' \in [Conns -> ThreadType] /\ Lone' /\ Ours'
      /\ \A d \in Conns \ {c} :
           th'[d] = th[d] /\ th[d].pc = "idle" /\ (NewTable(d) /\ Working(d))'
  BY <1>4, <1>5, <1>6, OthersIdle
<1>8. name \in Names
  BY <1>1 DEF IInv, Ours, InPc
<1>9. \A n \in Names : tables_[n].id \in Nat /\ tables_[n].id < next_id_
  BY BoundsAssumption DEF IInv, Identity, Types, Ids, NoId
<1>10. Types'
  <2>1. name_to_id_' \in MapType
    BY <1>1, <1>3 DEF IInv, Types, MapType
  <2>2. next_id_' \in 1 .. MaxId + 1
    BY <1>3, BoundsAssumption DEF Ids
  <2> QED  BY <1>1, <1>7, <2>1, <2>2 DEF IInv, Types
<1>11. Identity'
  <2>1. \A d \in Conns : ~At(d, "save_close")
    BY <1>1, <1>7 DEF At
  <2>2. \A n \in Names : Live(n) =>
          name_to_id_[n] = tables_[n].id /\ catalog_dat.map[n] = tables_[n].id /\ n # name
    BY <1>3, <2>1 DEF IInv, Identity
  <2>3. \A n \in Names : Live(n) => name_to_id_'[n] = tables_[n].id
    BY <1>1, <1>8, <2>2 DEF IInv, Types, MapType
  <2>4. \A n \in Names : tables_[n].id < next_id_'
    BY <1>2, <1>3, <1>9
  <2> QED  BY <1>1, <2>2, <2>3, <2>4 DEF IInv, Identity, Live
<1>12. NewTable(c)'
  <2>1. name_to_id_'[name] = next_id_
    BY <1>1, <1>3, <1>8 DEF IInv, Types, MapType
  <2>2. \A n \in Names : tables_[n].id # next_id_
    BY <1>2, <1>9
  <2>3. next_id_ < next_id_'
    BY <1>2, <1>3
  <2> QED  BY <1>1, <1>3, <1>4, <1>7, <2>1, <2>2, <2>3 DEF NewTable, InPc, Live
<1>13. Working(c)'
  BY <1>3, <1>4, <1>7 DEF Working, InPc, UsePcs, ChangePcs, FlushPcs, Loops, Inserts,
     OpenPcs
<1>14. Contents'
  <2>1. ~InPc(c, ChangePcs) /\ UNCHANGED <<tables_, segment_seg, acked>>
    BY <1>1 DEF InPc, ChangePcs, FlushPcs
  <2> QED  BY <1>7, <2>1, ContentsKept
<1> QED  BY <1>7, <1>10, <1>11, <1>12, <1>13, <1>14 DEF IInv, Threads

LEMMA SaveOpenHolds ==
  ASSUME IInv, NEW c \in Conns, SaveOpen(c)
  PROVE  IInv'
<1> DEFINE t == [th[c] EXCEPT !.pc = "save_close"]
<1>1. /\ th[c].pc = "save_open" /\ catalog_dat'.map \in MapType
      /\ catalog_dat' \in [open : BOOLEAN, map : MapType]
      /\ UNCHANGED <<tables_, name_to_id_, next_id_, segment_seg, acked, created>>
  BY DEF SaveOpen, shared, ghosts, At, MapType
<1>2. th \in [Conns -> ThreadType] /\ Working(c) /\ NewTable(c)
  BY DEF IInv, Types, Threads
<1>4. /\ t \in ThreadType /\ t.pc = "save_close" /\ t.col = th[c].col
      /\ t.name = th[c].name /\ t.id = th[c].id
  <2>1. th[c] \in ThreadType /\ "save_close" \in Labels
    BY <1>2 DEF Labels
  <2> QED  BY <2>1, MoveType
<1>5. th' = [th EXCEPT ![c] = t]
  BY <1>2 DEF SaveOpen, Goto
<1> HIDE DEF t
<1>6. Creating(c)
  BY <1>1 DEF Creating
<1>7. /\ th'[c] = t /\ th' \in [Conns -> ThreadType] /\ Lone' /\ Ours'
      /\ \A d \in Conns \ {c} :
           th'[d] = th[d] /\ th[d].pc = "idle" /\ (NewTable(d) /\ Working(d))'
  BY <1>4, <1>5, <1>6, OthersIdle
<1>10. Types'
  BY <1>1, <1>7 DEF IInv, Types
<1>11. Identity'
  <2>1. At(c, "save_close")'
    BY <1>4, <1>7 DEF At
  <2> QED  BY <1>1, <2>1 DEF IInv, Identity, Live
<1>12. NewTable(c)'
  BY <1>1, <1>2, <1>4, <1>7 DEF NewTable, InPc, Live
<1>13. Working(c)'
  BY <1>1, <1>2, <1>4, <1>7 DEF Working, InPc, UsePcs, ChangePcs, FlushPcs, Loops,
     Inserts, OpenPcs
<1>14. Contents'
  <2>1. ~InPc(c, ChangePcs) /\ UNCHANGED <<tables_, segment_seg, acked>>
    BY <1>1 DEF InPc, ChangePcs, FlushPcs
  <2> QED  BY <1>7, <2>1, ContentsKept
<1> QED  BY <1>7, <1>10, <1>11, <1>12, <1>13, <1>14 DEF IInv, Threads

LEMMA SaveCloseHolds ==
  ASSUME IInv, NEW c \in Conns, SaveClose(c)
  PROVE  IInv'
<1> DEFINE t == [th[c] EXCEPT !.pc = "emplace"]
<1>1. /\ th[c].pc = "save_close" /\ catalog_dat' = [open |-> FALSE, map |-> name_to_id_]
      /\ UNCHANGED <<tables_, name_to_id_, next_id_, segment_seg, acked, created>>
  BY DEF SaveClose, shared, ghosts, At
<1>2. th \in [Conns -> ThreadType] /\ Working(c) /\ NewTable(c)
  BY DEF IInv, Types, Threads
<1>4. /\ t \in ThreadType /\ t.pc = "emplace" /\ t.col = th[c].col
      /\ t.name = th[c].name /\ t.id = th[c].id
  <2>1. th[c] \in ThreadType /\ "emplace" \in Labels
    BY <1>2 DEF Labels
  <2> QED  BY <2>1, MoveType
<1>5. th' = [th EXCEPT ![c] = t]
  BY <1>2 DEF SaveClose, Goto
<1> HIDE DEF t
<1>6. Creating(c)
  BY <1>1 DEF Creating
<1>7. /\ th'[c] = t /\ th' \in [Conns -> ThreadType] /\ Lone' /\ Ours'
      /\ \A d \in Conns \ {c} :
           th'[d] = th[d] /\ th[d].pc = "idle" /\ (NewTable(d) /\ Working(d))'
  BY <1>4, <1>5, <1>6, OthersIdle
<1>10. Types'
  BY <1>1, <1>7 DEF IInv, Types
<1>11. Identity'
  BY <1>1 DEF IInv, Identity, Live
<1>12. NewTable(c)'
  BY <1>1, <1>2, <1>4, <1>7 DEF NewTable, InPc, Live
<1>13. Working(c)'
  BY <1>1, <1>2, <1>4, <1>7 DEF Working, InPc, UsePcs, ChangePcs, FlushPcs, Loops,
     Inserts, OpenPcs
<1>14. Contents'
  <2>1. ~InPc(c, ChangePcs) /\ UNCHANGED <<tables_, segment_seg, acked>>
    BY <1>1 DEF InPc, ChangePcs, FlushPcs
  <2> QED  BY <1>7, <2>1, ContentsKept
<1> QED  BY <1>7, <1>10, <1>11, <1>12, <1>13, <1>14 DEF IInv, Threads

LEMMA EmplaceHolds ==
  ASSUME IInv, NEW c \in Conns, Emplace(c)
  PROVE  IInv'
<1> DEFINE t == [th[c] EXCEPT !.pc = "create_open"]
           name == th[c].name
           id == th[c].id
<1>1. /\ th[c].pc = "emplace"
      /\ UNCHANGED <<name_to_id_, next_id_, catalog_dat, segment_seg, acked, created>>
  BY DEF Emplace, files, ghosts, At
<1>2. /\ th \in [Conns -> ThreadType] /\ Working(c) /\ NewTable(c)
  BY DEF IInv, Types, Threads
<1>3. /\ ~Live(name) /\ id \in Ids /\ id < next_id_ /\ name_to_id_[name] = id
      /\ catalog_dat.map[name] = id /\ \A n \in Names : tables_[n].id # id
  BY <1>1, <1>2 DEF NewTable, InPc
<1>4. /\ t \in ThreadType /\ t.pc = "create_open" /\ t.col = th[c].col
      /\ t.name = name
  <2>1. th[c] \in ThreadType /\ "create_open" \in Labels
    BY <1>2 DEF Labels
  <2> QED  BY <2>1, MoveType
<1>5. /\ th' = [th EXCEPT ![c] = t]
      /\ tables_' = [tables_ EXCEPT ![name] = [id |-> id, cols |-> NoRows]]
  BY <1>2, <1>3 DEF Emplace, Goto
<1> HIDE DEF t
<1>6. Creating(c) /\ name \in Names
  BY <1>1 DEF Creating, IInv, Ours, InPc
<1>7. /\ th'[c] = t /\ th' \in [Conns -> ThreadType] /\ Lone' /\ Ours'
      /\ \A d \in Conns \ {c} :
           th'[d] = th[d] /\ th[d].pc = "idle" /\ (NewTable(d) /\ Working(d))'
  BY <1>4, <1>5, <1>6, OthersIdle
<1>0. tables_ \in [Names -> [id : Ids \cup {NoId}, cols : [Cols -> Seq(Rows)]]]
  BY DEF IInv, Types
<1>8. /\ tables_'[name].id = id /\ tables_'[name].cols = NoRows
      /\ tables_[name].cols = NoRows
      /\ \A n \in Names \ {name} : tables_'[n] = tables_[n]
  <2>1. tables_[name].cols = NoRows
    BY <1>3, <1>6 DEF IInv, Contents
  <2> QED  BY <1>0, <1>5, <1>6, <2>1
<1>9. \A n \in Names : Live(n)' <=> (n = name \/ Live(n))
  <2>1. id # NoId
    BY <1>3, BoundsAssumption DEF Ids, NoId
  <2> QED  BY <1>8, <2>1 DEF Live
<1>10. Types'
  <2>1. tables_' \in [Names -> [id : Ids \cup {NoId}, cols : [Cols -> Seq(Rows)]]]
    BY <1>0, <1>3, <1>5, <1>6, NoRowsType
  <2> QED  BY <1>1, <1>7, <2>1 DEF IInv, Types
<1>11. Identity'
  <2>1. \A d \in Conns : ~At(d, "save_close")
    BY <1>1, <1>7 DEF At
  <2>2. \A n \in Names : Live(n) =>
          name_to_id_[n] = tables_[n].id /\ catalog_dat.map[n] = tables_[n].id
    BY <2>1 DEF IInv, Identity
  <2>3. \A m, n \in Names : Live(m) /\ tables_[m].id = tables_[n].id => m = n
    BY DEF IInv, Identity
  <2>4. \A m, n \in Names : Live(m)' /\ tables_'[m].id = tables_'[n].id => m = n
    BY <1>3, <1>8, <1>9, <2>3
  <2>5. \A n \in Names : tables_'[n].id < next_id_
    BY <1>3, <1>8 DEF IInv, Identity
  <2>6. ASSUME NEW n \in Names, Live(n)'
        PROVE  name_to_id_[n] = tables_'[n].id /\ catalog_dat.map[n] = tables_'[n].id
    <3>1. CASE n = name
      BY <1>3, <1>8, <3>1
    <3>2. CASE n # name
      BY <1>8, <1>9, <2>2, <2>6, <3>2
    <3> QED  BY <3>1, <3>2
  <2>7. \A n \in Names : created[n] > 0 => Live(n)'
    BY <1>9 DEF IInv, Identity
  <2> QED  BY <1>1, <2>4, <2>5, <2>6, <2>7 DEF Identity
<1>12. NewTable(c)'
  BY <1>4, <1>7 DEF NewTable, InPc
<1>13. Working(c)'
  <2>1. tables_'[th'[c].name].id # NoId
    BY <1>3, <1>4, <1>7, <1>8, BoundsAssumption DEF Ids, NoId
  <2> QED  BY <1>1, <1>2, <1>4, <1>7, <2>1 DEF Working, InPc, UsePcs, ChangePcs,
           FlushPcs, Loops, Inserts, OpenPcs, Live
<1>14. Contents'
  <2>1. \A n \in Names : tables_'[n].cols = tables_[n].cols
    BY <1>8
  <2>3. \A n \in Names : \A v \in acked[n] : Has(n, v)'
    BY <2>1 DEF IInv, Contents, Has
  <2>4. \A n \in Names : ~Changes(c, {"append"}, n) /\ ~Changes(c, ChangePcs, n)
    BY <1>1 DEF Changes, InPc, ChangePcs, FlushPcs
  <2>5. \A n \in Names : \A d \in Conns :
          ~Changes(d, {"append"}, n) /\ ~Changes(d, ChangePcs, n)
    BY <1>7, <2>4 DEF Changes, InPc, ChangePcs, FlushPcs
  <2>6. \A n \in Names : n = name => Changes(c, ChangePcs, n)'
    BY <1>4, <1>7 DEF Changes, InPc, ChangePcs, FlushPcs
  <2>7. ASSUME NEW n \in Names
        PROVE  /\ ~Live(n)' => tables_'[n].cols = NoRows
               /\ \A i, j \in Cols : tables_'[n].cols[i] = tables_'[n].cols[j]
               /\ Live(n)' /\ n # name =>
                    segment_seg[tables_'[n].id] =
                      Whole(Len(tables_'[n].cols[1]), tables_'[n].cols)
    <3>1. n # name => tables_'[n] = tables_[n] /\ (Live(n)' <=> Live(n))
      BY <1>8, <1>9
    <3>2. /\ \A i, j \in Cols : tables_[n].cols[i] = tables_[n].cols[j]
          /\ Live(n) => segment_seg[tables_[n].id] =
                          Whole(Len(tables_[n].cols[1]), tables_[n].cols)
          /\ ~Live(n) => tables_[n].cols = NoRows
      BY <2>5 DEF IInv, Contents
    <3>3. ~Live(n)' => tables_'[n].cols = NoRows
      BY <1>9, <2>1, <3>1, <3>2
    <3>4. \A i, j \in Cols : tables_'[n].cols[i] = tables_'[n].cols[j]
      BY <2>1, <3>2
    <3>5. Live(n)' /\ n # name =>
            segment_seg[tables_'[n].id] =
              Whole(Len(tables_'[n].cols[1]), tables_'[n].cols)
      BY <3>1, <3>2
    <3> QED  BY <3>3, <3>4, <3>5
  <2>8. segment_seg' = segment_seg /\ acked' = acked
    BY <1>1
  <2> QED  BY <2>3, <2>6, <2>7, <2>8 DEF Contents
<1> QED  BY <1>7, <1>10, <1>11, <1>12, <1>13, <1>14 DEF IInv, Threads

----------------------------------------------------------------------------
(* Steps on a table that is the thread's own *)

\* What a thread changes of its table and of its segment is no matter of the
\* other threads.
LEMMA OthersApart ==
  ASSUME IInv, Discipline, NEW c \in Conns, InPc(c, ChangePcs),
         NEW t \in ThreadType, th' = [th EXCEPT ![c] = t],
         UNCHANGED <<next_id_, name_to_id_, catalog_dat>>,
         Creating(c) \/ created' = created,
         \A n \in Names : tables_'[n].id = tables_[n].id
                          /\ (n # th[c].name => tables_'[n] = tables_[n]),
         \A i \in Ids : i # Table(c).id => segment_seg'[i] = segment_seg[i]
  PROVE  /\ th'[c] = t /\ th' \in [Conns -> ThreadType]
         /\ \A d \in Conns \ {c} : th'[d] = th[d] /\ (NewTable(d) /\ Working(d))'
         /\ th[c].name \in Names /\ c \in Home[th[c].name] /\ Live(th[c].name)
         /\ Table(c).id \in Ids
         /\ \A n \in Names \ {th[c].name} :
              Live(n) => segment_seg'[tables_[n].id] = segment_seg[tables_[n].id]
<1>1. /\ th \in [Conns -> ThreadType]
      /\ tables_ \in [Names -> [id : Ids \cup {NoId}, cols : [Cols -> Seq(Rows)]]]
  BY DEF IInv, Types
<1>2. th'[c] = t /\ th' \in [Conns -> ThreadType] /\ \A d \in Conns \ {c} : th'[d] = th[d]
  BY <1>1
<1>3. /\ th[c].name \in Names /\ c \in Home[th[c].name]
      /\ ~InPc(c, {"idle", "show", "send_names"})
  BY DEF IInv, Ours, InPc, ChangePcs, FlushPcs
<1>4. Live(th[c].name) /\ Table(c).id \in Ids
  <2>1. Live(th[c].name)
    BY DEF IInv, Threads, Working, InPc, UsePcs
  <2> QED  BY <1>1, <1>3, <2>1 DEF Live, Table
<1>5. ASSUME NEW n \in Names \ {th[c].name}, Live(n)
      PROVE  segment_seg'[tables_[n].id] = segment_seg[tables_[n].id]
  <2>1. tables_[n].id # Table(c).id
    BY <1>3, <1>5 DEF IInv, Identity, Table
  <2>2. tables_[n].id \in Ids
    BY <1>1, <1>5 DEF Live
  <2> QED  BY <2>1, <2>2
<1>6. ASSUME NEW d \in Conns \ {c}  PROVE (NewTable(d) /\ Working(d))'
  <2>1. NewTable(d) /\ Working(d)
    BY DEF IInv, Threads
  <2>2. th'[d] = th[d]
    BY <1>2
  <2>3. ~Creating(d)
    BY <1>3 DEF IInv, Lone, At, InPc
  <2>4. NewTable(d)'
    BY <2>2, <2>3 DEF NewTable, InPc, Creating
  <2>5. CASE InPc(d, {"idle", "find_insert", "find_select"})
    BY <2>1, <2>2, <2>4, <2>5 DEF Working, InPc, UsePcs, ChangePcs, FlushPcs, Loops,
       Inserts, OpenPcs
  <2>6. CASE InPc(d, {"show", "send_names"})
    <3>1. created' = created
      BY <2>6 DEF IInv, Lone, At, InPc
    <3> QED
      BY <2>1, <2>2, <2>4, <2>6, <3>1 DEF Working, InPc, UsePcs, ChangePcs, FlushPcs,
         Loops, Inserts, OpenPcs
  <2>7. CASE InPc(d, {"append", "num_rows", "scan", "send"} \cup Inserts)
    <3>1. ~InPc(d, {"idle", "show", "send_names"})
      BY <2>7 DEF InPc, Inserts
    <3>2. th[c].name # th[d].name /\ th[d].name \in Names
      BY <1>3, <3>1, Alone
    <3>3. tables_'[th[d].name] = tables_[th[d].name]
      BY <3>2
    <3>4. Table(d)' = Table(d) /\ (Live(th[d].name)' <=> Live(th[d].name))
          /\ \A v : Has(th[d].name, v)' <=> Has(th[d].name, v)
      BY <2>2, <3>3 DEF Table, Live, Has
    <3>5. Live(th[d].name)
      BY <2>1, <2>7 DEF Working, InPc, UsePcs, ChangePcs, FlushPcs, Inserts
    <3>6. segment_seg'[Table(d).id] = segment_seg[Table(d).id]
      BY <1>5, <3>2, <3>5 DEF Table
    <3>7. ~InPc(d, {"send_names"})
      BY <3>1 DEF InPc
    <3>8. InPc(d, {"append"}) => Appending(d)'
      BY <2>1, <2>2, <3>4 DEF Working, Appending
    <3>9. Working(d)'
      BY <2>1, <2>2, <3>4, <3>6, <3>7, <3>8 DEF Working, InPc
    <3> QED  BY <2>4, <3>9
  <2>8. th[d].pc \in Labels
    BY <1>1 DEF ThreadType
  <2> QED  BY <2>3, <2>5, <2>6, <2>7, <2>8 DEF InPc, Creating, Labels, Inserts
<1> QED  BY <1>2, <1>3, <1>4, <1>5, <1>6

LEMMA AppendColumnHolds ==
  ASSUME IInv, Discipline, NEW c \in Conns, AppendColumn(c)
  PROVE  IInv'
<1> DEFINE k == th[c].col
           row == th[c].row
           t == IF k < NumCols THEN [th[c] EXCEPT !.col = @ + 1]
                ELSE [th[c] EXCEPT !.col = 1, !.pc = "insert_open"]
<1>0. tables_' = [tables_ EXCEPT ![th[c].name].cols[k] = Append(@, row)]
  BY DEF AppendColumn
<1>1. /\ th[c].pc = "append"
      /\ UNCHANGED <<name_to_id_, next_id_, catalog_dat, segment_seg, acked, created>>
  BY DEF AppendColumn, files, ghosts, At
<1>2. /\ th \in [Conns -> ThreadType] /\ th[c] \in ThreadType /\ Working(c)
      /\ k \in Cols /\ row \in Rows /\ Appending(c)
  <2>1. th \in [Conns -> ThreadType] /\ Working(c)
    BY DEF IInv, Types, Threads
  <2> QED  BY <1>1, <2>1 DEF Working, InPc, ThreadType
<1>3. tables_ \in [Names -> [id : Ids \cup {NoId}, cols : [Cols -> Seq(Rows)]]]
  BY DEF IInv, Types
<1>4. t \in ThreadType /\ t.name = th[c].name /\ t.row = row /\ t.buf = th[c].buf
  <2>1. k < NumCols => k + 1 \in Cols
    BY <1>2, NumColsAssumption DEF Cols
  <2>2. 1 \in Cols /\ "insert_open" \in Labels
    BY NumColsAssumption DEF Cols, Labels
  <2> QED  BY <1>2, <2>1, <2>2 DEF ThreadType
<1>5. /\ k < NumCols => t.pc = "append" /\ t.col = k + 1
      /\ ~(k < NumCols) => t.pc = "insert_open" /\ t.col = 1
  BY <1>1, <1>2 DEF ThreadType
<1>6. th' = [th EXCEPT ![c] = t]
  BY <1>2 DEF AppendColumn
<1> HIDE DEF t
<1>7. PICK name \in Names : name = th[c].name
  BY <1>1 DEF IInv, Ours, InPc
<1>8. /\ \A n \in Names : tables_'[n].id = tables_[n].id
      /\ \A n \in Names \ {name} : tables_'[n] = tables_[n]
      /\ tables_'[name].cols = [tables_[name].cols EXCEPT ![k] = Append(@, row)]
      /\ tables_' \in [Names -> [id : Ids \cup {NoId}, cols : [Cols -> Seq(Rows)]]]
  <2>1. Append(tables_[name].cols[k], row) \in Seq(Rows)
    BY <1>2, <1>3
  <2> QED  BY <1>0, <1>2, <1>3, <1>7, <2>1
<1>9. /\ th'[c] = t /\ th' \in [Conns -> ThreadType] /\ Live(name)
      /\ \A d \in Conns \ {c} : th'[d] = th[d] /\ (NewTable(d) /\ Working(d))'
  <2>1. InPc(c, ChangePcs)
    BY <1>1 DEF InPc, ChangePcs
  <2> QED  BY <1>1, <1>4, <1>6, <1>7, <1>8, <2>1, OthersApart
<1>10. Lone' /\ Ours'
  BY <1>1, <1>4, <1>5, <1>6, GoOn DEF At, InPc
<1>11. Types'
  BY <1>1, <1>8, <1>9 DEF IInv, Types
<1>12. \A n \in Names : Live(n)' <=> Live(n)
  BY <1>8 DEF Live
<1>13. Identity'
  <2>1. (\A d \in Conns : ~At(d, "save_close"))' => \A d \in Conns : ~At(d, "save_close")
    BY <1>1, <1>9 DEF At
  <2>2. \A n \in Names : tables_'[n].id = tables_[n].id
    BY <1>8
  <2> QED  BY <1>1, <1>12, <2>1, <2>2 DEF IInv, Identity
\* the columns of the table
<1> DEFINE old == tables_[name].cols[NumCols]
           cols == tables_'[name].cols
<1>14. /\ old \in Seq(Rows) /\ NumCols \in Cols /\ 1 \in Cols
       /\ \A i \in Cols : tables_[name].cols[i] =
            IF i < k THEN Append(old, row) ELSE old
  <2>1. NumCols \in Cols /\ 1 \in Cols
    BY NumColsAssumption DEF Cols
  <2> QED  BY <1>2, <1>3, <1>7, <2>1 DEF Appending, Table
<1>15. \A i \in Cols : cols[i] = IF i <= k THEN Append(old, row) ELSE old
  <2> SUFFICES ASSUME NEW i \in Cols
               PROVE  cols[i] = IF i <= k THEN Append(old, row) ELSE old
    OBVIOUS
  <2>1. i \in Nat /\ k \in Nat
    BY <1>2, NumColsAssumption DEF Cols
  <2>2. tables_[name].cols \in [Cols -> Seq(Rows)]
    BY <1>3
  <2>3. i # k => cols[i] = tables_[name].cols[i]
    BY <1>8, <2>2
  <2>4. cols[k] = Append(tables_[name].cols[k], row)
    BY <1>2, <1>8, <2>2
  <2> HIDE DEF cols
  <2>5. CASE i = k
    <3>1. tables_[name].cols[k] = old /\ i <= k
      BY <1>14, <2>1, <2>5
    <3> QED  BY <2>4, <2>5, <3>1
  <2>6. CASE i < k
    BY <1>14, <2>1, <2>3, <2>6
  <2>7. CASE i > k
    BY <1>14, <2>1, <2>3, <2>7
  <2> QED  BY <2>1, <2>5, <2>6, <2>7
<1> HIDE DEF old
<1>16. NewTable(c)'
  <2>1. th'[c].pc \in {"append", "insert_open"}
    BY <1>5, <1>9
  <2> QED  BY <2>1 DEF NewTable, InPc
<1>17. Working(c)'
  <2>1. tables_'[th'[c].name].id # NoId /\ th'[c].name = name
    BY <1>4, <1>7, <1>8, <1>9 DEF Live
  <2>2. CASE k < NumCols
    <3>1. cols[NumCols] = old
      BY <1>2, <1>14, <1>15, <2>2 DEF Cols
    <3>2. \A i \in Cols : cols[i] = IF i < k + 1 THEN Append(old, row) ELSE old
      BY <1>2, <1>15, NumColsAssumption DEF Cols
    <3>3. Appending(c)'
      BY <1>4, <1>5, <1>9, <2>1, <2>2, <3>1, <3>2 DEF Appending, Table
    <3>4. th'[c].pc = "append" /\ th'[c].row \in Rows
      BY <1>2, <1>4, <1>5, <1>9, <2>2
    <3> QED
      BY <2>1, <3>3, <3>4 DEF Working, InPc, Loops, Inserts, OpenPcs, Live
  <2>3. CASE ~(k < NumCols)
    <3>1. cols[1] = Append(old, row)
      <4>1. 1 <= k /\ 1 \in Cols
        BY <1>2, <1>14, NumColsAssumption DEF Cols
      <4> HIDE DEF cols, k
      <4>2. cols[1] = IF 1 <= k THEN Append(old, row) ELSE old
        BY <1>15, <4>1
      <4> QED  BY <4>1, <4>2
    <3>2. Len(cols[1]) = Len(old) + 1 /\ cols[1][Len(old) + 1] = row /\ Len(old) \in Nat
      BY <1>2, <1>14, <3>1
    <3>3. Has(th[c].name, th[c].row)'
      BY <1>4, <1>9, <2>1, <3>2 DEF Has
    <3>4. th'[c].pc = "insert_open" /\ th'[c].row \in Rows /\ th'[c].col = 1
      BY <1>2, <1>4, <1>5, <1>9, <2>3
    <3>5. Has(th[c].name, th[c].row)' /\ Live(th[c].name)'
      BY <2>1, <3>3 DEF Live
    <3> QED
      BY <3>4, <3>5 DEF Working, InPc, Loops, Inserts, OpenPcs
  <2> QED  BY <2>2, <2>3
<1>18. Contents'
  <2>1. ASSUME NEW n \in Names \ {name}
        PROVE  /\ ~Live(n) => tables_[n].cols = NoRows
               /\ (\A d \in Conns : ~Changes(d, {"append"}, n)') =>
                    \A i, j \in Cols : tables_[n].cols[i] = tables_[n].cols[j]
               /\ Live(n) /\ (\A d \in Conns : ~Changes(d, ChangePcs, n)') =>
                    segment_seg[tables_[n].id] =
                      Whole(Len(tables_[n].cols[1]), tables_[n].cols)
    <3>1. /\ \A d \in Conns \ {c} :
               /\ Changes(d, {"append"}, n)' <=> Changes(d, {"append"}, n)
               /\ Changes(d, ChangePcs, n)' <=> Changes(d, ChangePcs, n)
          /\ ~Changes(c, {"append"}, n) /\ ~Changes(c, ChangePcs, n)
      BY <1>7, <1>9, <2>1 DEF Changes, InPc
    <3> QED  BY <3>1 DEF IInv, Contents
  <2>2. /\ Changes(c, ChangePcs, name)'
        /\ k < NumCols => Changes(c, {"append"}, name)'
    BY <1>4, <1>5, <1>7, <1>9 DEF Changes, InPc, ChangePcs, FlushPcs
  <2>3. ~(k < NumCols) => \A i, j \in Cols : cols[i] = cols[j]
    BY <1>2, <1>15, NumColsAssumption DEF Cols
  <2>4. ASSUME NEW n \in Names, NEW v \in acked[n]  PROVE Has(n, v)'
    <3>1. PICK r \in 1 .. Len(tables_[n].cols[1]) : tables_[n].cols[1][r] = v
      BY DEF IInv, Contents, Has
    <3>2. CASE n # name
      BY <1>8, <3>1, <3>2 DEF Has
    <3>3. CASE n = name
      <4>1. tables_[name].cols[1] \in Seq(Rows)
        BY <1>3, <1>14
      <4>2. cols[1] = IF k = 1 THEN Append(tables_[name].cols[1], row)
                      ELSE tables_[name].cols[1]
        <5>1. tables_[name].cols \in [Cols -> Seq(Rows)] /\ 1 \in Cols
          BY <1>3, <1>14
        <5>2. cols = [tables_[name].cols EXCEPT ![k] = Append(@, row)]
          BY <1>8
        <5> HIDE DEF cols
        <5> QED  BY <5>1, <5>2
      <4>3. r \in 1 .. Len(cols[1]) /\ cols[1][r] = tables_[name].cols[1][r]
        <5>1. /\ r \in 1 .. Len(tables_[name].cols[1])
              /\ Len(tables_[name].cols[1]) \in Nat
          BY <3>1, <3>3, <4>1
        <5> DEFINE first == tables_[name].cols[1]
                   longer == Append(first, row)
        <5>2. /\ Len(longer) = Len(first) + 1
              /\ \A i \in 1 .. Len(first) : longer[i] = first[i]
          BY <1>2, <4>1, AppendProperties
        <5>3. cols[1] = first \/ cols[1] = longer
          BY <4>2
        <5> HIDE DEF cols, first, longer
        <5>4. r \in 1 .. Len(cols[1]) /\ cols[1][r] = first[r]
          BY <5>1, <5>2, <5>3 DEF first
        <5> QED  BY <5>4 DEF first
      <4> QED  BY <3>1, <3>3, <4>3 DEF Has
    <3> QED  BY <3>2, <3>3
  <2>5. segment_seg' = segment_seg /\ acked' = acked
    BY <1>1
  <2>6. Live(name)'
    BY <1>9, <1>12
  <2>7. ASSUME NEW n \in Names
        PROVE  /\ ~Live(n)' => tables_'[n].cols = NoRows
               /\ (\A d \in Conns : ~Changes(d, {"append"}, n)') =>
                    \A i, j \in Cols : tables_'[n].cols[i] = tables_'[n].cols[j]
               /\ Live(n)' /\ (\A d \in Conns : ~Changes(d, ChangePcs, n)') =>
                    segment_seg[tables_'[n].id] =
                      Whole(Len(tables_'[n].cols[1]), tables_'[n].cols)
    <3>1. CASE n = name
      BY <2>2, <2>3, <2>6, <3>1
    <3>2. CASE n # name
      <4>1. tables_'[n] = tables_[n] /\ (Live(n)' <=> Live(n))
        BY <1>8, <1>12, <3>2
      <4> QED  BY <2>1, <3>2, <4>1
    <3> QED  BY <3>1, <3>2
  <2> QED  BY <2>4, <2>5, <2>7 DEF Contents
<1> QED  BY <1>9, <1>10, <1>11, <1>13, <1>16, <1>17, <1>18 DEF IInv, Threads

\* A step of a flush, which changes the segment of the thread's table.
LEMMA FlushStep ==
  ASSUME IInv, Discipline, NEW c \in Conns, InPc(c, FlushPcs),
         NEW t \in ThreadType, th' = [th EXCEPT ![c] = t], Lone', Ours',
         NewTable(c)', Working(c)', ~(t.pc \in {"save_close", "append"}),
         UNCHANGED <<tables_, next_id_, name_to_id_, catalog_dat>>,
         Creating(c) \/ created' = created,
         created' \in [Names -> Nat],
         \A n \in Names : created'[n] > 0 => Live(n),
         acked' \in [Names -> SUBSET Rows],
         \A n \in Names : \A v \in acked'[n] : Has(n, v),
         NEW seg \in [state : {"none", "empty", "mixed", "whole"},
                      num_rows : Nat, cols : [Cols -> Seq(Cells)]],
         segment_seg' = [segment_seg EXCEPT ![Table(c).id] = seg],
         \/ t.pc \in ChangePcs /\ t.name = th[c].name
         \/ seg = Whole(Len(Table(c).cols[1]), Table(c).cols)
  PROVE  IInv'
<1>1. /\ segment_seg \in [Ids -> [state : {"none", "empty", "mixed", "whole"},
                                  num_rows : Nat, cols : [Cols -> Seq(Cells)]]]
      /\ th \in [Conns -> ThreadType]
  BY DEF IInv, Types
<1>2. \A i \in Ids : i # Table(c).id => segment_seg'[i] = segment_seg[i]
  BY <1>1
<1>3. /\ th'[c] = t /\ th' \in [Conns -> ThreadType]
      /\ \A d \in Conns \ {c} : th'[d] = th[d] /\ (NewTable(d) /\ Working(d))'
      /\ th[c].name \in Names /\ Live(th[c].name) /\ Table(c).id \in Ids
      /\ \A n \in Names \ {th[c].name} :
           Live(n) => segment_seg'[tables_[n].id] = segment_seg[tables_[n].id]
  <2>1. InPc(c, ChangePcs)
    BY DEF InPc, ChangePcs
  <2>2. \A n \in Names : tables_'[n].id = tables_[n].id
                         /\ (n # th[c].name => tables_'[n] = tables_[n])
    OBVIOUS
  <2> QED  BY <1>2, <2>1, <2>2, OthersApart
<1>4. segment_seg'[Table(c).id] = seg
  BY <1>1, <1>3
<1>5. \A n : (Live(n)' <=> Live(n)) /\ \A v : Has(n, v)' <=> Has(n, v)
  BY DEF Live, Has
<1>6. Types'
  <2>1. segment_seg' \in [Ids -> [state : {"none", "empty", "mixed", "whole"},
                                  num_rows : Nat, cols : [Cols -> Seq(Cells)]]]
    BY <1>1
  <2> QED  BY <1>3, <2>1 DEF IInv, Types
<1>7. Identity'
  <2>1. (\A d \in Conns : ~At(d, "save_close"))' => \A d \in Conns : ~At(d, "save_close")
    BY <1>3 DEF At, InPc, FlushPcs
  <2> QED  BY <1>5, <2>1 DEF IInv, Identity
<1>8. Threads'
  BY <1>3 DEF Threads
<1>9. Contents'
  <2> DEFINE name == th[c].name
  <2>1. \A n \in Names :
          /\ ~Live(n) => tables_[n].cols = NoRows
          /\ (\A d \in Conns : ~Changes(d, {"append"}, n)) =>
               \A i, j \in Cols : tables_[n].cols[i] = tables_[n].cols[j]
          /\ Live(n) /\ (\A d \in Conns : ~Changes(d, ChangePcs, n)) =>
               segment_seg[tables_[n].id] =
                 Whole(Len(tables_[n].cols[1]), tables_[n].cols)
    BY DEF IInv, Contents
  <2>2. \A n \in Names : (\A d \in Conns : ~Changes(d, {"append"}, n)') =>
                            \A d \in Conns : ~Changes(d, {"append"}, n)
    BY <1>3 DEF Changes, InPc, FlushPcs
  <2>3. ASSUME NEW n \in Names, Live(n), \A d \in Conns : ~Changes(d, ChangePcs, n)'
        PROVE  segment_seg'[tables_[n].id] =
                 Whole(Len(tables_[n].cols[1]), tables_[n].cols)
    <3>1. CASE n = name
      <4>1. ~(t.pc \in ChangePcs /\ t.name = name)
        BY <1>3, <2>3, <3>1 DEF Changes, InPc
      <4> QED  BY <1>4, <3>1, <4>1 DEF Table
    <3>2. CASE n # name
      <4>1. \A d \in Conns : ~Changes(d, ChangePcs, n)
        BY <1>3, <2>3, <3>2 DEF Changes, InPc
      <4> QED  BY <1>3, <2>1, <2>3, <3>2, <4>1
    <3> QED  BY <3>1, <3>2
  <2>4. \A n \in Names : \A v \in acked'[n] : Has(n, v)'
    BY <1>5
  <2>5. tables_' = tables_
    OBVIOUS
  <2>6. ASSUME NEW n \in Names
        PROVE  /\ ~Live(n)' => tables_'[n].cols = NoRows
               /\ (\A d \in Conns : ~Changes(d, {"append"}, n)') =>
                    \A i, j \in Cols : tables_'[n].cols[i] = tables_'[n].cols[j]
               /\ Live(n)' /\ (\A d \in Conns : ~Changes(d, ChangePcs, n)') =>
                    segment_seg'[tables_'[n].id] =
                      Whole(Len(tables_'[n].cols[1]), tables_'[n].cols)
    <3>1. Live(n)' <=> Live(n)
      BY <1>5
    <3>2. ~Live(n)' => tables_'[n].cols = NoRows
      BY <2>1, <2>5, <3>1
    <3>3. ASSUME \A d \in Conns : ~Changes(d, {"append"}, n)'
          PROVE  \A i, j \in Cols : tables_'[n].cols[i] = tables_'[n].cols[j]
      <4>1. \A d \in Conns : ~Changes(d, {"append"}, n)
        BY <2>2, <3>3
      <4>2. \A i, j \in Cols : tables_[n].cols[i] = tables_[n].cols[j]
        BY <2>1, <4>1
      <4> QED  BY <2>5, <4>2
    <3>4. Live(n)' /\ (\A d \in Conns : ~Changes(d, ChangePcs, n)') =>
            segment_seg'[tables_'[n].id] =
              Whole(Len(tables_'[n].cols[1]), tables_'[n].cols)
      BY <2>3, <2>5, <3>1
    <3> QED  BY <3>2, <3>3, <3>4
  <2> QED  BY <2>4, <2>6 DEF Contents
<1> QED  BY <1>6, <1>7, <1>8, <1>9 DEF IInv

LEMMA FlushOpenHolds ==
  ASSUME IInv, Discipline, NEW c \in Conns, NEW open, NEW col,
         \/ open = "create_open" /\ col = "create_col"
         \/ open = "insert_open" /\ col = "insert_col",
         FlushOpen(c, open, col), UNCHANGED ghosts
  PROVE  IInv'
<1> DEFINE t == [th[c] EXCEPT !.pc = col]
<1>1. /\ th[c].pc = open
      /\ UNCHANGED <<tables_, next_id_, name_to_id_, catalog_dat, acked, created>>
      /\ segment_seg' = [segment_seg EXCEPT ![Table(c).id] = Truncated]
  BY DEF FlushOpen, shared, ghosts, At
<1>2. th \in [Conns -> ThreadType] /\ th[c] \in ThreadType /\ Working(c)
  BY DEF IInv, Types, Threads
<1>3. /\ t \in ThreadType /\ t.pc = col /\ t.name = th[c].name
      /\ t.row = th[c].row /\ t.col = th[c].col
  BY <1>2 DEF ThreadType, Labels
<1>4. th' = [th EXCEPT ![c] = t]
  BY <1>2 DEF FlushOpen, Goto
<1> HIDE DEF t
<1>5. Lone' /\ Ours' /\ th'[c] = t
  BY <1>1, <1>3, <1>4, GoOn DEF At, InPc, Creating
<1>6. /\ InPc(c, FlushPcs) /\ t.pc \in ChangePcs /\ Live(th[c].name)
      /\ th[c].name \in Names
  BY <1>1, <1>2, <1>3 DEF InPc, FlushPcs, ChangePcs, UsePcs, Working, IInv, Ours
<1>7. /\ Truncated \in [state : {"none", "empty", "mixed", "whole"},
                        num_rows : Nat, cols : [Cols -> Seq(Cells)]]
  BY NoRowsType DEF Truncated
<1>8. segment_seg'[Table(c).id] = Truncated
  <2>1. Table(c).id \in Ids
    BY <1>6 DEF IInv, Types, Table, Live
  <2> QED  BY <1>1, <2>1 DEF IInv, Types
<1>9. NewTable(c)'
  BY <1>3, <1>5 DEF NewTable, InPc
<1>10. Working(c)'
  <2>1. th'[c].pc \in {"create_col", "insert_col"} /\ th'[c].col = 1
    BY <1>1, <1>2, <1>3, <1>5 DEF Working, InPc, Loops
  <2>2. \A k \in Cols : ~(k < th'[c].col)
    BY <2>1, NumColsAssumption DEF Cols
  <2>3. th'[c].pc = "insert_col" => th'[c].row \in Rows /\ Has(th'[c].name, th'[c].row)
    BY <1>1, <1>2, <1>3, <1>5 DEF Working, InPc, Inserts
  <2>4. Has(th[c].name, th[c].row)' <=> Has(th'[c].name, th'[c].row)
    BY <1>1 DEF Has
  <2>5. segment_seg'[Table(c)'.id] = Truncated /\ Live(th[c].name)'
    BY <1>1, <1>3, <1>5, <1>6, <1>8 DEF Table, Live
  <2> QED  BY <2>1, <2>2, <2>3, <2>4, <2>5 DEF Working, InPc, Inserts, Loops
<1>11. /\ created' \in [Names -> Nat] /\ acked' \in [Names -> SUBSET Rows]
       /\ \A n \in Names : created'[n] > 0 => Live(n)
       /\ \A n \in Names : \A v \in acked'[n] : Has(n, v)
  BY <1>1 DEF IInv, Types, Identity, Contents
<1>12. ~(t.pc \in {"save_close", "append"})
  BY <1>3
<1> QED
  BY <1>1, <1>3, <1>4, <1>5, <1>6, <1>7, <1>9, <1>10, <1>11, <1>12, FlushStep

\* A flush over a truncated segment leaves no tail of an older one.
LEMMA FlushedWhole ==
  ASSUME NEW k, NEW cols \in [Cols -> Seq(Cells)]
  PROVE  Flushed(k, cols, Truncated) = Whole(k, cols)
<1>1. Size(NoRows) = 0
  <2>1. UNION {{k1} \X DOMAIN NoRows[k1] : k1 \in Cols} = {}
    BY DEF NoRows
  <2> QED  BY <2>1, FS_EmptySet DEF Size
<1>2. Size(cols) \in Nat
  <2> DEFINE part == [i \in Cols |-> {i} \X DOMAIN cols[i]]
             parts == {part[i] : i \in Cols}
  <2>1. IsFiniteSet(Cols)
    BY FS_Interval, NumColsAssumption DEF Cols
  <2>2. part \in Surjection(Cols, parts)
    BY DEF Surjection
  <2>3. IsFiniteSet(parts)
    BY <2>1, <2>2, FS_Surjection
  <2>4. \A i \in Cols : IsFiniteSet({i} \X DOMAIN cols[i])
    <3> TAKE i \in Cols
    <3>1. DOMAIN cols[i] = 1 .. Len(cols[i]) /\ Len(cols[i]) \in Nat
      OBVIOUS
    <3>2. IsFiniteSet(DOMAIN cols[i])
      BY <3>1, FS_Interval
    <3>3. IsFiniteSet({i})
      BY FS_Singleton
    <3> QED  BY <3>2, <3>3, FS_Product
  <2>5. IsFiniteSet(UNION parts)
    <3>1. \A T \in parts : IsFiniteSet(T)
      BY <2>4
    <3> HIDE DEF parts
    <3> QED  BY <2>3, <3>1, FS_UNION
  <2>6. parts = {{i} \X DOMAIN cols[i] : i \in Cols}
    OBVIOUS
  <2> QED  BY <2>5, <2>6, FS_CardinalityType DEF Size
<1>3. ~(Size(NoRows) > Size(cols))
  BY <1>1, <1>2
<1> QED  BY <1>3 DEF Flushed, Truncated

\* The flush is closed over the segment that this thread has truncated.
LEMMA FlushCloseStep ==
  ASSUME IInv, Discipline, NEW c \in Conns, NEW close,
         close \in {"create_close", "insert_close"}, FlushClose(c, close),
         close = "create_close" \/ created' = created,
         created' \in [Names -> Nat],
         \A n \in Names : created'[n] > 0 => Live(n),
         acked' \in [Names -> SUBSET Rows],
         \A n \in Names : \A v \in acked'[n] : Has(n, v)
  PROVE  IInv'
<1> DEFINE seg == Whole(Len(Table(c).cols[1]), Table(c).cols)
<1>1. /\ th[c].pc = close /\ th' = [th EXCEPT ![c] = Idle]
      /\ UNCHANGED <<tables_, next_id_, name_to_id_, catalog_dat>>
  BY DEF FlushClose, Finish, shared, At
<1>2. Working(c) /\ InPc(c, FlushPcs) /\ (close = "create_close" => Creating(c))
  BY <1>1 DEF IInv, Threads, InPc, FlushPcs, Creating
<1>3. /\ th[c].num_rows = Len(Table(c).cols[1]) /\ th[c].buf = Table(c).cols
      /\ segment_seg[Table(c).id] = Truncated /\ Live(th[c].name)
      /\ th[c].name \in Names
  BY <1>1, <1>2 DEF Working, InPc, UsePcs, ChangePcs, FlushPcs, OpenPcs, IInv, Ours
<1>4. Table(c).id \in Ids /\ Table(c).cols \in [Cols -> Seq(Rows)]
  BY <1>3 DEF IInv, Types, Table, Live
<1>5. Table(c).cols \in [Cols -> Seq(Cells)] /\ Len(Table(c).cols[1]) \in Nat
  BY <1>4, SeqMonotonic, NumColsAssumption DEF Cells, Cols
<1>6. segment_seg' = [segment_seg EXCEPT ![Table(c).id] = seg]
  <2>1. Flushed(th[c].num_rows, th[c].buf, segment_seg[Table(c).id]) = seg
    BY <1>3, <1>5, FlushedWhole
  <2> QED  BY <2>1 DEF FlushClose
<1>7. seg \in [state : {"none", "empty", "mixed", "whole"}, num_rows : Nat,
               cols : [Cols -> Seq(Cells)]]
  BY <1>5 DEF Whole
<1>8. Idle \in ThreadType /\ Idle.pc = "idle" /\ Idle.col = 1
  BY IdleType DEF Idle
<1>9. Lone' /\ Ours' /\ th'[c] = Idle
  BY <1>1, <1>8, GoOn DEF At
<1>10. NewTable(c)' /\ Working(c)'
  BY <1>8, <1>9 DEF NewTable, Working, InPc, UsePcs, ChangePcs, FlushPcs, Loops,
     Inserts, OpenPcs
<1> HIDE DEF seg
<1>11. ~(Idle.pc \in {"save_close", "append"})
  BY <1>8
<1>12. Creating(c) \/ created' = created
  BY <1>2
<1>13. seg = Whole(Len(Table(c).cols[1]), Table(c).cols)
  BY DEF seg
<1> QED
  BY <1>1, <1>2, <1>6, <1>7, <1>8, <1>9, <1>10, <1>11, <1>12, <1>13, FlushStep

LEMMA CreateFlushHolds ==
  ASSUME IInv, Discipline, NEW c \in Conns, CreateFlush(c)
  PROVE  IInv'
<1>1. CASE FlushOpen(c, "create_open", "create_col") /\ UNCHANGED ghosts
  BY <1>1, FlushOpenHolds
<1>2. CASE FlushColumn(c, "create_col", "create_footer")
  BY <1>2, FlushColumnHolds
<1>3. CASE FlushFooter(c, "create_footer", "create_close")
  BY <1>3, FlushFooterHolds
<1>4. CASE /\ FlushClose(c, "create_close")
           /\ created' = [created EXCEPT ![th[c].name] = @ + 1]
           /\ UNCHANGED acked
  <2>1. Live(th[c].name)
    BY <1>4 DEF IInv, Threads, Working, FlushClose, At, InPc, UsePcs, ChangePcs, FlushPcs
  <2>2. /\ created \in [Names -> Nat] /\ acked \in [Names -> SUBSET Rows]
        /\ \A n \in Names : created[n] > 0 => Live(n)
        /\ \A n \in Names : \A v \in acked[n] : Has(n, v)
    BY DEF IInv, Types, Identity, Contents
  <2>3. created' \in [Names -> Nat] /\ \A n \in Names : created'[n] > 0 => Live(n)
    <3> DEFINE name == th[c].name
    <3>1. created' = [created EXCEPT ![name] = created[name] + 1]
      BY <1>4
    <3> HIDE DEF name
    <3>2. \A n \in Names : created'[n] \in Nat /\ (n # name => created'[n] = created[n])
      BY <2>2, <3>1
    <3>3. created' \in [Names -> Nat]
      <4>1. created \in [Names -> Nat]
        BY <2>2
      <4>2. created' = [n \in Names |-> created'[n]]
        BY <3>1, <4>1
      <4> QED  BY <3>2, <4>2
    <3>4. Live(name)
      BY <2>1 DEF name
    <3> QED  BY <2>2, <3>2, <3>3, <3>4
  <2> QED  BY <1>4, <2>2, <2>3, FlushCloseStep
<1> QED  BY <1>1, <1>2, <1>3, <1>4 DEF CreateFlush, FlushOpen, ghosts

LEMMA InsertFlushHolds ==
  ASSUME IInv, Discipline, NEW c \in Conns, InsertFlush(c)
  PROVE  IInv'
<1>1. CASE FlushOpen(c, "insert_open", "insert_col") /\ UNCHANGED ghosts
  BY <1>1, FlushOpenHolds
<1>2. CASE FlushColumn(c, "insert_col", "insert_footer")
  BY <1>2, FlushColumnHolds
<1>3. CASE FlushFooter(c, "insert_footer", "insert_close")
  BY <1>3, FlushFooterHolds
<1>4. CASE /\ FlushClose(c, "insert_close")
           /\ acked' = [acked EXCEPT ![th[c].name] = @ \cup {th[c].row}]
           /\ UNCHANGED created
  <2>1. th[c].row \in Rows /\ Has(th[c].name, th[c].row)
    BY <1>4 DEF IInv, Threads, Working, FlushClose, At, InPc, Inserts
  <2>2. /\ created \in [Names -> Nat] /\ acked \in [Names -> SUBSET Rows]
        /\ \A n \in Names : created[n] > 0 => Live(n)
        /\ \A n \in Names : \A v \in acked[n] : Has(n, v)
    BY DEF IInv, Types, Identity, Contents
  <2>3. acked' \in [Names -> SUBSET Rows] /\ \A n \in Names : \A v \in acked'[n] : Has(n, v)
    BY <1>4, <2>1, <2>2
  <2> QED  BY <1>4, <2>2, <2>3, FlushCloseStep
<1> QED  BY <1>1, <1>2, <1>3, <1>4 DEF InsertFlush, FlushOpen, ghosts

----------------------------------------------------------------------------
(* Every step *)

LEMMA StepHolds ==
  ASSUME IInv, Discipline, NEW c \in Conns, Step(c)
  PROVE  IInv'
<1>1. CASE CheckFree(c) \/ AssignRead(c) \/ AssignWrite(c)
  BY <1>1, CheckFreeHolds, AssignReadHolds, AssignWriteHolds
<1>2. CASE SaveOpen(c) \/ SaveClose(c) \/ Emplace(c)
  BY <1>2, SaveOpenHolds, SaveCloseHolds, EmplaceHolds
<1>3. CASE CreateFlush(c) \/ InsertFlush(c)
  BY <1>3, CreateFlushHolds, InsertFlushHolds
<1>4. CASE FindForInsert(c) \/ AppendColumn(c)
  BY <1>4, FindForInsertHolds, AppendColumnHolds
<1>5. CASE FindForSelect(c) \/ ScanRows(c) \/ ScanColumn(c) \/ SendRows(c)
  BY <1>5, FindForSelectHolds, ScanRowsHolds, ScanColumnHolds, SendHolds
<1>6. CASE ShowTables(c) \/ SendNames(c)
  BY <1>6, ShowTablesHolds, SendHolds
<1> QED  BY <1>1, <1>2, <1>3, <1>4, <1>5, <1>6 DEF Step

LEMMA StutterHolds == IInv /\ UNCHANGED vars => IInv'
<1> SUFFICES ASSUME IInv, UNCHANGED vars  PROVE IInv'
  OBVIOUS
<1> USE DEF vars, shared, files, ghosts
<1>1. Types' /\ Lone' /\ Ours' /\ Identity'
  BY DEF IInv, Types, Lone, Creating, At, Ours, InPc, Identity, Live
<1>2. ASSUME NEW c \in Conns  PROVE NewTable(c)' /\ Working(c)'
  BY DEF IInv, Threads, NewTable, Working, InPc, Live, Appending, Table, Has
<1>3. Threads'
  BY <1>2 DEF Threads
<1>4. Contents'
  BY DEF IInv, Contents, Live, Changes, InPc, Has
<1> QED  BY <1>1, <1>3, <1>4 DEF IInv

LEMMA IInvHolds == ASSUME Discipline  PROVE Spec => []IInv
<1>1. IInv /\ [Next]_vars => IInv'
  BY BeginHolds, StepHolds, StutterHolds DEF Next
<1> QED  BY <1>1, InitHolds, PTL DEF Spec

----------------------------------------------------------------------------
(* What the invariant is for *)

\* TypeOK: also, no thread ever works on the segment of a table that is not
\* there.
THEOREM TypeHolds == ASSUME Discipline  PROVE Spec => []TypeOK
<1>1. IInv => TypeOK
  <2> SUFFICES ASSUME IInv  PROVE TypeOK
    OBVIOUS
  <2>1. Types
    BY DEF IInv
  <2>2. ASSUME NEW c \in Conns
        PROVE  /\ th[c].pc \in Labels
               /\ th[c].pc \notin {"idle", "show", "send_names"} => c \in Home[th[c].name]
               /\ <<"segment", NoId>> \notin Writes(c)
    <3>1. th[c].pc \in Labels
      BY <2>1 DEF Types, ThreadType
    <3>2. th[c].pc \notin {"idle", "show", "send_names"} => c \in Home[th[c].name]
      BY DEF IInv, Ours, InPc
    <3>3. InPc(c, FlushPcs) => Table(c).id # NoId
      BY DEF IInv, Threads, Working, InPc, UsePcs, ChangePcs, Live, Table
    <3>4. <<"segment", NoId>> \notin Writes(c)
      BY <3>3 DEF Writes, If
    <3> QED  BY <3>1, <3>2, <3>4
  <2>3. ASSUME NEW n \in Names
        PROVE  /\ tables_[n].id \in Ids \cup {NoId}
               /\ name_to_id_[n] \in Ids \cup {NoId}
               /\ catalog_dat.map[n] \in Ids \cup {NoId}
               /\ \A k \in Cols : tables_[n].cols[k] \in Seq(Rows)
    BY <2>1 DEF Types, MapType
  <2>4. /\ next_id_ \in 1 .. MaxId + 1
        /\ \A i \in Ids : segment_seg[i].state \in {"none", "empty", "mixed", "whole"}
    BY <2>1 DEF Types
  <2> QED  BY <2>2, <2>3, <2>4 DEF TypeOK
<1> QED  BY <1>1, IInvHolds, PTL

\* RaceFree: no two threads are about to use one object or file with one of
\* them writing, although nothing is locked.
THEOREM NoRaces == ASSUME Discipline  PROVE Spec => []RaceFree
<1>1. IInv => RaceFree
  <2> SUFFICES ASSUME IInv, NEW c \in Conns, NEW d \in Conns, c # d
               PROVE  Writes(c) \cap (Reads(d) \cup Writes(d)) = {}
    BY DEF RaceFree
  <2>1. CASE InPc(d, {"idle"})
    BY <2>1 DEF Reads, Writes, InPc, If, FlushPcs
  <2>2. CASE Creating(c) /\ ~InPc(d, {"idle"})
    BY <2>2 DEF IInv, Lone, At, InPc
  <2>3. CASE Creating(d) /\ ~InPc(c, {"idle"})
    BY <2>3 DEF IInv, Lone, At, InPc
  <2>4. CASE ~Creating(c) /\ ~InPc(c, {"append"} \cup Inserts)
    BY <2>4 DEF Writes, InPc, If, FlushPcs, Creating, Inserts
  <2>5. CASE /\ ~Creating(d) /\ InPc(c, {"append"} \cup Inserts)
             /\ ~InPc(d, {"append", "num_rows", "scan"} \cup Inserts)
    BY <2>5 DEF Reads, Writes, InPc, If, FlushPcs, Creating, Inserts
  <2>6. CASE /\ InPc(c, {"append"} \cup Inserts)
             /\ InPc(d, {"append", "num_rows", "scan"} \cup Inserts)
    <3>1. /\ ~InPc(c, {"idle", "show", "send_names"})
          /\ ~InPc(d, {"idle", "show", "send_names"})
      BY <2>6 DEF InPc, Inserts
    <3>2. /\ th[c].name # th[d].name /\ th[c].name \in Names /\ th[d].name \in Names
      BY <3>1, Alone
    <3>3. Live(th[c].name) /\ Live(th[d].name)
      BY <2>6, <3>2 DEF IInv, Threads, Working, InPc, UsePcs, ChangePcs, FlushPcs, Inserts
    <3>4. Table(c).id # Table(d).id
      BY <3>2, <3>3 DEF IInv, Identity, Table
    <3> QED  BY <2>6, <3>2, <3>4 DEF Reads, Writes, InPc, If, FlushPcs, Inserts
  <2> QED  BY <2>1, <2>2, <2>3, <2>4, <2>5, <2>6 DEF InPc, Inserts
<1> QED  BY <1>1, IInvHolds, PTL

\* QuietIsDurable: once no statement is running, what a restart would find is
\* what is in memory.
THEOREM Durable == ASSUME Discipline  PROVE Spec => []QuietIsDurable
<1>1. IInv => QuietIsDurable
  <2> SUFFICES ASSUME IInv, Quiet, NEW n \in Names, created[n] > 0
               PROVE  LET seg == segment_seg[catalog_dat.map[n]] IN
                      /\ catalog_dat.map[n] = tables_[n].id
                      /\ seg.state = "whole"
                      /\ seg.cols = tables_[n].cols
                      /\ SameRows(seg.cols, seg.num_rows)
    BY DEF QuietIsDurable
  <2>1. \A c \in Conns : th[c].pc = "idle"
    BY DEF Quiet, At
  <2>2. Live(n) /\ catalog_dat.map[n] = tables_[n].id
    BY <2>1 DEF IInv, Identity, At
  <2>3. \A c \in Conns : ~Changes(c, {"append"}, n) /\ ~Changes(c, ChangePcs, n)
    BY <2>1 DEF Changes, InPc, ChangePcs, FlushPcs
  <2>4. segment_seg[tables_[n].id] = Whole(Len(tables_[n].cols[1]), tables_[n].cols)
    BY <2>2, <2>3 DEF IInv, Contents
  <2>5. \A i, j \in Cols : tables_[n].cols[i] = tables_[n].cols[j]
    BY <2>3 DEF IInv, Contents
  <2>6. SameRows(tables_[n].cols, Len(tables_[n].cols[1]))
    <3>1. 1 \in Cols
      BY NumColsAssumption DEF Cols
    <3> QED  BY <2>5, <3>1 DEF SameRows
  <2> QED  BY <2>2, <2>4, <2>6 DEF Whole
<1> QED  BY <1>1, IInvHolds, PTL

\* ReadsAcked: a SELECT returns whole rows, and every one that was answered OK
\* before; SHOW TABLES names every table that was.
THEOREM ReadsHold == ASSUME Discipline  PROVE Spec => []ReadsAcked
<1>1. IInv => ReadsAcked
  <2> SUFFICES ASSUME IInv, NEW c \in Conns
               PROVE  /\ At(c, "send") =>
                           /\ SameRows(th[c].buf, th[c].num_rows)
                           /\ acked[th[c].name] \subseteq
                                {th[c].buf[1][r] : r \in 1 .. th[c].num_rows}
                      /\ At(c, "send_names") =>
                           {n \in Names : created[n] > 0} \subseteq th[c].names
    BY DEF ReadsAcked
  <2>1. Working(c)
    BY DEF IInv, Threads
  <2>2. ASSUME At(c, "send")
        PROVE  /\ SameRows(th[c].buf, th[c].num_rows)
               /\ acked[th[c].name] \subseteq
                    {th[c].buf[1][r] : r \in 1 .. th[c].num_rows}
    <3> DEFINE name == th[c].name
    <3>1. th[c].buf = tables_[name].cols /\ th[c].num_rows = Len(tables_[name].cols[1])
      BY <2>1, <2>2 DEF Working, At, InPc, Table
    <3>2. name \in Names
      BY <2>2 DEF IInv, Ours, At, InPc
    <3>3. \A d \in Conns : ~Changes(d, {"append"}, name)
      <4> SUFFICES ASSUME NEW d \in Conns, Changes(d, {"append"}, name)  PROVE FALSE
        OBVIOUS
      <4>1. /\ c # d /\ ~InPc(d, {"idle", "show", "send_names"})
            /\ ~InPc(c, {"idle", "show", "send_names"})
        BY <2>2 DEF Changes, InPc, At
      <4> QED  BY <4>1, Alone DEF Changes
    <3>4. /\ \A i, j \in Cols : tables_[name].cols[i] = tables_[name].cols[j]
          /\ \A v \in acked[name] : Has(name, v)
      BY <3>2, <3>3 DEF IInv, Contents
    <3>5. 1 \in Cols
      BY NumColsAssumption DEF Cols
    <3> HIDE DEF name
    <3>6. SameRows(th[c].buf, th[c].num_rows)
      BY <3>1, <3>4, <3>5 DEF SameRows
    <3>7. acked[name] \subseteq {th[c].buf[1][r] : r \in 1 .. th[c].num_rows}
      BY <3>1, <3>4 DEF Has
    <3> QED  BY <3>6, <3>7 DEF name
  <2>3. At(c, "send_names") => {n \in Names : created[n] > 0} \subseteq th[c].names
    BY <2>1 DEF Working, At, InPc
  <2> QED  BY <2>2, <2>3
<1> QED  BY <1>1, IInvHolds, PTL
=============================================================================
