------------------------ MODULE MetadataStoreProofs --------------------------
(***************************************************************************)
(* MetadataStore for every table, every number of operations and failures: *)
(* types, the order in which the server executes what the user did, the    *)
(* stacks of undo and redo, the table on the screen and the server's, and  *)
(* where undoing leads.                                                    *)
(***************************************************************************)
EXTENDS MetadataStore, TLAPS, SequenceTheorems, FiniteSetTheorems, WellFoundedInduction

(* Where the operations stand: what was executed, then the one under way,   *)
(* then the queue, each numbered higher than those before it.              *)
Ordered(q, m, ex) ==
    /\ \A i \in DOMAIN q : q[i].n <= m
    /\ \A i \in DOMAIN q, k \in DOMAIN ex : ex[k] < q[i].n
    /\ \A i, j \in DOMAIN q : i < j => q[i].n < q[j].n

FlightOrdered ==
    chain = "waiting" =>
        /\ inFlight.n <= made
        /\ \A i \in DOMAIN pending : inFlight.n < pending[i].n
        /\ request = "sent" => \A k \in DOMAIN executed : executed[k] < inFlight.n

OrderInv ==
    /\ InOrder
    /\ Ordered(pending, made, executed)
    /\ \A k \in DOMAIN executed : executed[k] <= made
    /\ FlightOrdered

Inv == TypeOK /\ OrderInv

(* No operation is on the stacks twice, nor under way to them: identifiers, *)
(* and what the answers to come will push.                                 *)
Ids(s) == {s[i].id : i \in DOMAIN s}
OnceEach(s) == \A i, j \in DOMAIN s : s[i].id = s[j].id => i = j
Apart(u, r) == OnceEach(u) /\ OnceEach(r) /\ Ids(u) \cap Ids(r) = {}
OnStacks == Ids(undo) \cup Ids(redos)

Inserts(e) == e.op.type = "insert_column"
Late(e) == e.op.type \in AfterServer

(* One insertion at most is undecided, and what its answer will push, the   *)
(* insertion itself or what was undone or redone, is on no stack.          *)
AnswersOK ==
    /\ \A i, j \in DOMAIN pending : Inserts(pending[i]) /\ Inserts(pending[j]) => i = j
    /\ chain = "waiting" /\ Inserts(inFlight) =>
           \A i \in DOMAIN pending : ~Inserts(pending[i])
    /\ handler.kind = "new" =>
           /\ chain = "waiting" /\ Inserts(inFlight) => inFlight.op.id \notin OnStacks
           /\ \A i \in DOMAIN pending :
                  Inserts(pending[i]) => pending[i].op.id \notin OnStacks
    /\ handler.kind # "new" =>
           /\ \A i \in DOMAIN pending : ~Late(pending[i])
           /\ chain = "waiting" /\ Late(inFlight) => handler.op.id \notin OnStacks

IdsOK ==
    /\ \A id \in OnStacks : id <= ops
    /\ \A i \in DOMAIN pending : pending[i].op.id <= ops
    /\ inFlight.op.id <= ops
    /\ handler.op.id <= ops

StackInv == IdsOK /\ ("hurried" \notin trouble => Apart(undo, redos) /\ AnswersOK)

Handlers == [kind : {"new"}, op : {NoOp}] \cup [kind : {"undo", "redo"}, op : StackOps]

(* What undo and redo take off the stacks *)
Popped(h, u, r) ==
    /\ Ids(u) \cup Ids(r) \cup {h.op.id} = OnStacks
    /\ Apart(undo, redos) => Apart(u, r) /\ h.op.id \notin Ids(u) \cup Ids(r)

(* What an operation may have for its item, which Ops says of columns alone, *)
(* and what a new one needs on the screen.                                 *)
Aimed(op) ==
    /\ op.type = "delete_records" => op.item \in Rows \cup Copies
    /\ op.type = "duplicate_record" => op.item \in Rows /\ op.new \in Copies
    /\ op.type = "modify_sorts" => op.item = View

Seen(op) ==
    /\ op.type \notin AfterServer \cup LocalOnly => data[op.item] # Gone
    /\ op.type = "duplicate_record" => data[op.new] = Gone

(* What a new one knows of the table before it: enough to go back. *)
Known(op) ==
    /\ op.type \in DOMAIN FieldOf => op.old = data[op.item][FieldOf[op.type]]
    /\ op.type = "delete_column" => op.old = data[op.item]
    /\ op.type = "insert_column" => data[op.item] = Gone
    /\ op.type \in {"modify_groupbys", "modify_column_order"} => op.item = View
    /\ op.type = "modify_records" => data[Rated] # Gone

Undoes(op, h, u, r) ==
    /\ undo # <<>> /\ h.op = Last(undo) /\ op = Invert(Last(undo), ops + 1)
    /\ u = Front(undo) /\ r = redos

Redoes(op, h, u, r) ==
    /\ redos # <<>> /\ h.op = Last(redos) /\ op = Last(redos)
    /\ u = undo /\ r = Front(redos)

(* The arguments that applyOperation is called with *)
Applies(op, h, u, r) ==
    /\ ApplyOperation(op, h, u, r)
    /\ Aimed(op)
    /\ h.kind = "new" => Seen(op) /\ Known(op)
    /\ h.kind = "undo" => Undoes(op, h, u, r)
    /\ h.kind = "redo" => Redoes(op, h, u, r)
    /\ h.kind # "new" => op.type \in Undoable
    /\ h.kind = "new" /\ op.type \in Undoable => op \in StackOps
    /\ h.kind = "new" => /\ u = undo /\ r = redos /\ op.id = ops + 1
                         /\ op.type = "insert_column" => ~InsertUndecided
    /\ h.kind # "new" => Popped(h, u, r) /\ op.id \in {ops + 1, h.op.id}

SomeApplies ==
    \E op \in Ops, h \in Handlers, u, r \in Seq(StackOps) : Applies(op, h, u, r)

-----------------------------------------------------------------------------
(* Operations and tables *)

(* A field of an item can be set. *)
LEMMA SetFieldMap ==
    ASSUME NEW t \in Tables, NEW i \in Items, NEW f, NEW v \in Values, t[i] # Gone
    PROVE  [t EXCEPT ![i][f] = v] \in Tables
BY DEF Tables, FieldMaps

LEMMA SetItem ==
    ASSUME NEW t \in Tables, NEW i, NEW m \in FieldMaps \cup {Gone}
    PROVE  [t EXCEPT ![i] = m] \in Tables
BY DEF Tables

(* What an operation does with a column that it deletes *)
LEMMA WithoutColumnType ==
    ASSUME NEW t \in Tables, NEW c \in Items
    PROVE  WithoutColumn(t, c) \in Tables
<1>1. ASSUME NEW m \in FieldMaps PROVE WithoutCell(m) \in FieldMaps
  BY FirstAssumption DEF WithoutCell, FieldMaps
<1>2. ASSUME NEW i \in Items
      PROVE  WithoutColumn(t, c)[i] \in FieldMaps \cup {Gone}
  <2>1. t[i] \in FieldMaps \cup {Gone}
    BY DEF Tables
  <2>2. \/ WithoutColumn(t, c)[i] \in {Gone, t[i]}
        \/ t[i] # Gone /\ WithoutColumn(t, c)[i] = WithoutCell(t[i])
    BY DEF WithoutColumn
  <2> QED
    BY <1>1, <2>1, <2>2
<1> QED
  BY <1>2 DEF WithoutColumn, Tables

(* Operations make tables of tables. *)
LEMMA ApplyType ==
    ASSUME NEW t \in Tables, NEW op \in Ops
    PROVE  Apply(t, op) \in Tables
<1>1. CASE op \in FieldOps
  <2>1. op.type \in DOMAIN FieldOf /\ op.item \in Items /\ op.new \in Values
    BY <1>1 DEF FieldOps
  <2>2. Apply(t, op) = IF t[op.item] = Gone THEN t
                       ELSE [t EXCEPT ![op.item][FieldOf[op.type]] = op.new]
    BY <2>1 DEF Apply, FieldOf
  <2>3. CASE t[op.item] = Gone
    BY <2>2, <2>3
  <2>4. CASE t[op.item] # Gone
    <3>1. [t EXCEPT ![op.item][FieldOf[op.type]] = op.new] \in Tables
      BY <2>1, <2>4, SetFieldMap
    <3> QED
      BY <2>2, <2>4, <3>1
  <2> QED
    BY <2>3, <2>4
<1>2. CASE op \in WidthOps
  <2>1. op.type = "modify_column_width"
    BY <1>2 DEF WidthOps, LocalOnly
  <2> QED
    BY <2>1 DEF Apply, FieldOf
<1>3. CASE op \in RecordOps
  <2>1. op.type \in {"delete_records", "duplicate_record"}
    BY <1>3 DEF RecordOps
  <2>2. Apply(t, op) \in {t, [t EXCEPT ![op.item] = Gone]}
    BY <2>1 DEF Apply, FieldOf
  <2> QED
    BY <2>2, SetItem
<1>4. CASE op \in InsertOps
  <2>1. op.type = "insert_column" /\ op.new \in FieldMaps
    BY <1>4 DEF InsertOps
  <2>2. Apply(t, op) = [t EXCEPT ![op.item] = op.new]
    BY <2>1 DEF Apply, FieldOf
  <2>3. [t EXCEPT ![op.item] = op.new] \in Tables
    BY <2>1, SetItem, Zenon
  <2> QED
    BY <2>2, <2>3
<1>5. CASE op \in DeleteOps
  <2>1. op.type = "delete_column" /\ op.item \in Items
    BY <1>5 DEF DeleteOps, Items
  <2>2. Apply(t, op) = IF t[op.item] = Gone THEN t ELSE WithoutColumn(t, op.item)
    BY <2>1 DEF Apply, FieldOf
  <2>3. WithoutColumn(t, op.item) \in Tables
    BY <2>1, WithoutColumnType
  <2> QED
    BY <2>2, <2>3
<1> QED
  BY <1>1, <1>2, <1>3, <1>4, <1>5 DEF Ops

LEMMA ApplyWidthType ==
    ASSUME NEW w \in [Columns -> Values], NEW op \in Ops
    PROVE  ApplyWidth(w, op) \in [Columns -> Values]
<1>1. CASE op \in WidthOps
  BY <1>1 DEF ApplyWidth, WidthOps
<1>2. CASE op \notin WidthOps
  BY <1>2 DEF ApplyWidth, Ops, FieldOps, RecordOps, InsertOps, DeleteOps, FieldOf
<1> QED
  BY <1>1, <1>2

(* What is on the stacks has an inverse that can be sent. *)
LEMMA InvertType ==
    ASSUME NEW op \in StackOps, NEW id \in Nat \ {0}
    PROVE  Invert(op, id) \in Ops /\ Invert(op, id).id = id
<1>1. CASE op \in FieldOps
  <2>1. CASE op.type = "modify_column_order"
    <3>1. Invert(op, id) = [NoOp EXCEPT !.id = id, !.type = "modify_column_width"]
      BY <2>1 DEF Invert
    <3>2. Invert(op, id) \in WidthOps /\ Invert(op, id).id = id
      BY <3>1, FirstAssumption DEF NoOp, WidthOps, LocalOnly
    <3> QED
      BY <3>2 DEF Ops
  <2>2. CASE op.type # "modify_column_order"
    <3>1. Invert(op, id) = [op EXCEPT !.id = id, !.new = op.old, !.old = op.new]
      BY <1>1, <2>2 DEF Invert, FieldOps, FieldOf
    <3>2. Invert(op, id) \in FieldOps /\ Invert(op, id).id = id
      BY <1>1, <3>1 DEF FieldOps
    <3> QED
      BY <3>2 DEF Ops
  <2> QED
    BY <2>1, <2>2
<1>2. CASE op \in WidthOps
  <2>1. Invert(op, id) = [op EXCEPT !.id = id, !.new = op.old, !.old = op.new]
    BY <1>2 DEF Invert, WidthOps, LocalOnly
  <2>2. Invert(op, id) \in WidthOps /\ Invert(op, id).id = id
    BY <1>2, <2>1 DEF WidthOps
  <2> QED
    BY <2>2 DEF Ops
<1>3. CASE op \in RecordOps
  BY <1>3 DEF RecordOps, StackOps, Undoable
<1>4. CASE op \in InsertOps
  <2>1. Invert(op, id) = [op EXCEPT !.id = id, !.type = "delete_column"]
    BY <1>4 DEF Invert, InsertOps
  <2>2. Invert(op, id) \in DeleteOps /\ Invert(op, id).id = id
    BY <1>4, <2>1 DEF InsertOps, DeleteOps
  <2> QED
    BY <2>2 DEF Ops
<1>5. CASE op \in DeleteOps
  <2>1. /\ Invert(op, id) = [op EXCEPT !.id = id, !.type = "insert_column", !.new = op.old]
        /\ op.old \in FieldMaps
    BY <1>5 DEF Invert, DeleteOps, StackOps
  <2>2. Invert(op, id) \in InsertOps /\ Invert(op, id).id = id
    BY <1>5, <2>1 DEF InsertOps, DeleteOps
  <2> QED
    BY <2>2 DEF Ops
<1> QED
  BY <1>1, <1>2, <1>3, <1>4, <1>5 DEF StackOps, Ops

LEMMA InvertUndoable ==
    ASSUME NEW op \in StackOps, NEW id
    PROVE  Invert(op, id).type \in Undoable
<1>1. op.type \in Undoable
  BY DEF StackOps
<1>2. CASE op.type \in {"insert_column", "delete_column", "modify_column_order"}
  BY <1>2 DEF Invert, Undoable, StackOps, Ops, FieldOps, WidthOps, RecordOps, InsertOps,
              DeleteOps, NoOp
<1>3. CASE op.type \notin {"insert_column", "delete_column", "modify_column_order"}
  <2>1. Invert(op, id) = [op EXCEPT !.id = id, !.new = op.old, !.old = op.new]
    BY <1>3 DEF Invert
  <2> QED
    BY <1>1, <2>1 DEF StackOps, Ops, FieldOps, WidthOps, RecordOps, InsertOps, DeleteOps
<1> QED
  BY <1>2, <1>3

-----------------------------------------------------------------------------
(* Stacks *)

LEMMA FrontLast ==
    ASSUME NEW S, NEW s \in Seq(S), s # <<>>
    PROVE  Front(s) \in Seq(S) /\ Last(s) \in S
<1>1. Len(s) \in Nat /\ Len(s) >= 1
  OBVIOUS
<1>2. SubSeq(s, 1, Len(s) - 1) \in Seq(S)
  BY <1>1, SubSeqProperties
<1> QED
  BY <1>1, <1>2 DEF Front, Last

LEMMA KeptType ==
    ASSUME NEW S, NEW u \in Seq(S)
    PROVE  Kept(u) \in Seq(S)
<1>1. CASE Len(u) > UndoLimit
  <2>1. SubSeq(u, Len(u) - UndoLimit + 1, Len(u)) \in Seq(S)
    BY <1>1, UndoLimitAssumption, SubSeqProperties
  <2> QED
    BY <1>1, <2>1 DEF Kept
<1>2. CASE ~(Len(u) > UndoLimit)
  BY <1>2 DEF Kept
<1> QED
  BY <1>1, <1>2

(* What is popped is on the stack no more, if it was there once. *)
LEMMA FrontIds ==
    ASSUME NEW S, NEW s \in Seq(S), s # <<>>
    PROVE  /\ Ids(Front(s)) \cup {Last(s).id} = Ids(s)
           /\ OnceEach(s) => OnceEach(Front(s)) /\ Last(s).id \notin Ids(Front(s))
<1>1. /\ Len(s) \in Nat /\ Len(s) >= 1 /\ DOMAIN s = 1 .. Len(s)
      /\ Last(s) = s[Len(s)]
  BY DEF Last
<1>2. /\ Front(s) \in Seq(S) /\ Len(Front(s)) = Len(s) - 1
      /\ DOMAIN Front(s) = 1 .. (Len(s) - 1)
      /\ \A i \in 1 .. (Len(s) - 1) : Front(s)[i] = s[i]
  BY <1>1, SubSeqProperties DEF Front
<1>3. \A i \in DOMAIN s : i \in DOMAIN Front(s) \/ i = Len(s)
  BY <1>1, <1>2
<1>4. \A i \in DOMAIN Front(s) : i \in DOMAIN s /\ i # Len(s) /\ Front(s)[i] = s[i]
  BY <1>1, <1>2
<1>5. Len(s) \in DOMAIN s
  BY <1>1
<1> QED
  BY <1>1, <1>3, <1>4, <1>5 DEF Ids, OnceEach

LEMMA AppendIds ==
    ASSUME NEW S, NEW s \in Seq(S), NEW x \in S
    PROVE  /\ Ids(Append(s, x)) = Ids(s) \cup {x.id}
           /\ OnceEach(s) /\ x.id \notin Ids(s) => OnceEach(Append(s, x))
<1> DEFINE t == Append(s, x)
<1>1. /\ Len(s) \in Nat /\ DOMAIN s = 1 .. Len(s)
      /\ DOMAIN t = 1 .. (Len(s) + 1)
      /\ \A i \in 1 .. Len(s) : t[i] = s[i]
      /\ t[Len(s) + 1] = x
  OBVIOUS
<1>2. \A i \in DOMAIN t : (i \in DOMAIN s /\ t[i] = s[i]) \/ (i = Len(s) + 1 /\ t[i] = x)
  BY <1>1
<1>3. \A i \in DOMAIN s : i \in DOMAIN t /\ t[i] = s[i]
  BY <1>1
<1>4. Len(s) + 1 \in DOMAIN t /\ t[Len(s) + 1] = x
  BY <1>1
<1> HIDE DEF t
<1>5. Ids(t) = Ids(s) \cup {x.id}
  BY <1>2, <1>3, <1>4 DEF Ids
<1>6. OnceEach(s) /\ x.id \notin Ids(s) => OnceEach(t)
  BY <1>2 DEF Ids, OnceEach
<1> QED
  BY <1>5, <1>6 DEF t

LEMMA KeptIds ==
    ASSUME NEW S, NEW u \in Seq(S)
    PROVE  Ids(Kept(u)) \subseteq Ids(u) /\ (OnceEach(u) => OnceEach(Kept(u)))
<1>1. CASE Len(u) > UndoLimit
  <2> DEFINE d == Len(u) - UndoLimit
  <2>1. d \in Nat /\ Len(u) \in Nat /\ DOMAIN u = 1 .. Len(u) /\ Len(u) = d + UndoLimit
    BY <1>1, UndoLimitAssumption
  <2>2. Kept(u) = SubSeq(u, d + 1, Len(u))
    BY <1>1 DEF Kept
  <2>3. /\ DOMAIN Kept(u) = 1 .. (Len(u) - d)
        /\ \A i \in 1 .. (Len(u) - d) : Kept(u)[i] = u[i + d]
    BY <2>1, <2>2, UndoLimitAssumption
  <2>4. \A i \in DOMAIN Kept(u) : i + d \in DOMAIN u /\ Kept(u)[i] = u[i + d]
    BY <2>1, <2>3
  <2>5. \A i, j \in DOMAIN Kept(u) : i + d = j + d => i = j
    BY <2>1, <2>3
  <2> QED
    BY <2>4, <2>5 DEF Ids, OnceEach
<1>2. CASE ~(Len(u) > UndoLimit)
  BY <1>2 DEF Kept
<1> QED
  BY <1>1, <1>2

(* What handleUndoRedos pushes *)
Pushed(h, op) == IF h.kind # "new" THEN {h.op.id}
                 ELSE IF op.type \in Undoable THEN {op.id} ELSE {}

LEMMA StacksHold ==
    ASSUME NEW h \in Handlers, NEW op \in Ops,
           NEW u \in Seq(StackOps), NEW r \in Seq(StackOps),
           h.kind = "new" /\ op.type \in Undoable => op \in StackOps
    PROVE  /\ Ids(UndoAfter(h, op, u)) \cup Ids(RedosAfter(h, r))
                 \subseteq Ids(u) \cup Ids(r) \cup Pushed(h, op)
           /\ Apart(u, r) /\ (Ids(u) \cup Ids(r)) \cap Pushed(h, op) = {} =>
                 Apart(UndoAfter(h, op, u), RedosAfter(h, r))
<1>1. CASE h.kind = "new"
  <2>1. RedosAfter(h, r) = <<>> /\ Ids(<<>>) = {} /\ OnceEach(<<>>)
    BY <1>1 DEF RedosAfter, Ids, OnceEach
  <2>2. /\ Kept(u) \in Seq(StackOps) /\ Ids(Kept(u)) \subseteq Ids(u)
        /\ OnceEach(u) => OnceEach(Kept(u))
    BY KeptType, KeptIds
  <2>3. CASE op.type \in Undoable
    <3>1. UndoAfter(h, op, u) = Append(Kept(u), op) /\ Pushed(h, op) = {op.id}
      BY <1>1, <2>3 DEF UndoAfter, Pushed
    <3>2. /\ Ids(Append(Kept(u), op)) = Ids(Kept(u)) \cup {op.id}
          /\ OnceEach(Kept(u)) /\ op.id \notin Ids(Kept(u)) => OnceEach(Append(Kept(u), op))
      BY <1>1, <2>2, <2>3, AppendIds
    <3> QED
      BY <2>1, <2>2, <3>1, <3>2 DEF Apart
  <2>4. CASE op.type \notin Undoable
    <3>1. UndoAfter(h, op, u) = Kept(u)
      BY <1>1, <2>4 DEF UndoAfter
    <3> QED
      BY <2>1, <2>2, <3>1 DEF Apart
  <2> QED
    BY <2>3, <2>4
<1>2. CASE h.kind = "redo"
  <2>1. /\ UndoAfter(h, op, u) = Append(u, h.op) /\ RedosAfter(h, r) = r
        /\ Pushed(h, op) = {h.op.id} /\ h.op \in StackOps
    BY <1>2 DEF UndoAfter, RedosAfter, Pushed, Handlers
  <2> QED
    BY <2>1, AppendIds DEF Apart
<1>3. CASE h.kind = "undo"
  <2>1. /\ RedosAfter(h, r) = Append(r, h.op) /\ UndoAfter(h, op, u) = u
        /\ Pushed(h, op) = {h.op.id} /\ h.op \in StackOps
    BY <1>3 DEF UndoAfter, RedosAfter, Pushed, Handlers
  <2> QED
    BY <2>1, AppendIds DEF Apart
<1> QED
  BY <1>1, <1>2, <1>3 DEF Handlers

(* What handleUndoRedos pushes can be inverted later. *)
LEMMA StacksType ==
    ASSUME NEW h \in Handlers, NEW op \in Ops,
           NEW u \in Seq(StackOps), NEW r \in Seq(StackOps),
           h.kind = "new" /\ op.type \in Undoable => op \in StackOps
    PROVE  UndoAfter(h, op, u) \in Seq(StackOps) /\ RedosAfter(h, r) \in Seq(StackOps)
<1>1. CASE h.kind = "new"
  <2>1. Kept(u) \in Seq(StackOps)
    BY KeptType
  <2>2. UndoAfter(h, op, u) \in Seq(StackOps)
    BY <1>1, <2>1 DEF UndoAfter
  <2> QED
    BY <1>1, <2>2 DEF RedosAfter
<1>2. CASE h.kind = "redo"
  BY <1>2 DEF UndoAfter, RedosAfter, Handlers
<1>3. CASE h.kind = "undo"
  BY <1>3 DEF UndoAfter, RedosAfter, Handlers
<1> QED
  BY <1>1, <1>2, <1>3 DEF Handlers

-----------------------------------------------------------------------------
(* The queue *)

LEMMA TailOrdered ==
    ASSUME NEW q \in Seq(Entries), q # <<>>, NEW m \in Nat, NEW ex \in Seq(Nat),
           Ordered(q, m, ex)
    PROVE  /\ Head(q) \in Entries
           /\ Tail(q) \in Seq(Entries)
           /\ Ordered(Tail(q), m, ex)
           /\ Head(q).n <= m
           /\ \A k \in DOMAIN ex : ex[k] < Head(q).n
           /\ \A i \in DOMAIN Tail(q) : Head(q).n < Tail(q)[i].n
<1>1. /\ Head(q) = q[1] /\ 1 \in DOMAIN q /\ Head(q) \in Entries
      /\ Tail(q) \in Seq(Entries)
      /\ \A i \in DOMAIN Tail(q) : i + 1 \in DOMAIN q /\ Tail(q)[i] = q[i + 1] /\ 1 < i + 1
  OBVIOUS
<1>2. \A i, j \in DOMAIN Tail(q) : i < j => i + 1 < j + 1
  OBVIOUS
<1> QED
  BY <1>1, <1>2 DEF Ordered

Passes == /\ UNCHANGED <<handler, made, executed>>
          /\ Ordered(pending, made, executed)
          /\ QueueOK /\ ServerOK /\ InOrder
          /\ \A k \in DOMAIN executed : executed[k] <= made

QueueGoesOn == /\ QueueOK' /\ OrderInv'
               /\ request' \in {"none", "sent"}

LEMMA StopKeeps ==
    ASSUME Passes, NEW c \in {"idle", "wedged"}, NEW q \in Seq(Entries),
           c = "idle" => q = <<>>, Ordered(q, made, executed), Stop(c, q)
    PROVE  QueueGoesOn
BY DEF Passes, QueueGoesOn, Stop, QueueOK, OrderInv, FlightOrdered, InOrder, Ordered

LEMMA SendKeeps ==
    ASSUME Passes, NEW q \in Seq(Entries), q # <<>>, Ordered(q, made, executed),
           Send(Head(q), Tail(q))
    PROVE  QueueGoesOn
<1> DEFINE e == Head(q)
           r == Tail(q)
<1>1. /\ e \in Entries /\ r \in Seq(Entries) /\ Ordered(r, made, executed)
      /\ e.n <= made
      /\ \A k \in DOMAIN executed : executed[k] < e.n
      /\ \A i \in DOMAIN r : e.n < r[i].n
  BY TailOrdered DEF Passes, QueueOK, ServerOK
<1>2. /\ chain' = "waiting" /\ inFlight' = e /\ pending' = r /\ request' = "sent"
      /\ UNCHANGED <<handler, made, executed>>
  BY DEF Send, Passes
<1>3. QueueOK'
  BY <1>1, <1>2 DEF QueueOK, Passes
<1>4. OrderInv'
  BY <1>1, <1>2 DEF OrderInv, FlightOrdered, InOrder, Ordered, Passes
<1> QED
  BY <1>2, <1>3, <1>4 DEF QueueGoesOn

(* sendNextOperation keeps the order, whichever exception it meets. *)
LEMMA SendNextKeeps ==
    ASSUME Passes, NEW t, NEW caught \in BOOLEAN, SendNextOperation(t, caught)
    PROVE  QueueGoesOn
<1> DEFINE rest == Tail(pending)
<1>1. pending \in Seq(Entries) /\ Ordered(pending, made, executed) /\ made \in Nat
        /\ executed \in Seq(Nat)
  BY DEF Passes, QueueOK, ServerOK
<1>2. pending # <<>> => rest \in Seq(Entries) /\ Ordered(rest, made, executed)
  BY <1>1, TailOrdered
<1>3. CASE pending = <<>>
  <2>1. Stop("idle", <<>>)
    BY <1>3 DEF SendNextOperation
  <2>2. Ordered(<<>>, made, executed) /\ <<>> \in Seq(Entries)
    BY <1>1, <1>3
  <2> QED
    BY <2>1, <2>2, StopKeeps
<1>4. CASE pending # <<>> /\ Sendable(Head(pending), t)
  <2>1. Send(Head(pending), Tail(pending))
    BY <1>4 DEF SendNextOperation
  <2> QED
    BY <1>1, <1>4, <2>1, SendKeeps
<1>5. CASE pending # <<>> /\ ~Sendable(Head(pending), t) /\ ~caught
  <2>1. Stop("wedged", rest)
    BY <1>5 DEF SendNextOperation
  <2> QED
    BY <1>2, <1>5, <2>1, StopKeeps
<1>6. CASE pending # <<>> /\ ~Sendable(Head(pending), t) /\ caught /\ rest = <<>>
  <2>1. Stop("idle", <<>>)
    BY <1>6 DEF SendNextOperation
  <2> QED
    BY <1>2, <1>6, <2>1, StopKeeps
<1>7. CASE pending # <<>> /\ ~Sendable(Head(pending), t) /\ caught /\ rest # <<>>
  <2>1. \/ Send(Head(rest), Tail(rest))
        \/ Stop("wedged", Tail(rest))
    BY <1>7 DEF SendNextOperation
  <2>2. Tail(rest) \in Seq(Entries) /\ Ordered(Tail(rest), made, executed)
    BY <1>1, <1>2, <1>7, TailOrdered
  <2> QED
    BY <1>2, <1>7, <2>1, <2>2, SendKeeps, StopKeeps
<1> QED
  BY <1>3, <1>4, <1>5, <1>6, <1>7

(* addPendingOperations gives the new operation the highest number. *)
LEMMA AddKeeps ==
    ASSUME Inv, NEW op \in Ops, NEW h \in Handlers, NEW t,
           AddPendingOperation(op, h, t), UNCHANGED executed
    PROVE  QueueOK' /\ OrderInv' /\ request' \in {"none", "sent", "done", "refused", "lost"}
<1> DEFINE e == [n |-> made + 1, op |-> op]
<1>1. /\ made \in Nat /\ pending \in Seq(Entries) /\ executed \in Seq(Nat)
      /\ e \in Entries /\ made' = made + 1 /\ made' \in Nat
      /\ Ordered(pending, made, executed)
      /\ \A k \in DOMAIN executed : executed[k] \in Nat /\ executed[k] <= made
  BY DEF Inv, TypeOK, QueueOK, ServerOK, OrderInv, Entries, AddPendingOperation
<1>2. \A k \in DOMAIN executed : executed[k] < e.n /\ executed[k] <= made'
  BY <1>1
<1>3. InOrder'
  BY DEF Inv, OrderInv, InOrder
<1>4. CASE Busy
  <2>1. /\ pending' = Append(pending, e)
        /\ UNCHANGED <<chain, inFlight, handler, request>>
    BY <1>4 DEF AddPendingOperation
  <2>2. pending' \in Seq(Entries)
    BY <1>1, <2>1
  <2>3. QueueOK'
    BY <1>1, <1>4, <2>1, <2>2 DEF Inv, TypeOK, QueueOK, Busy
  <2>4. /\ DOMAIN pending' = 1 .. (Len(pending) + 1)
        /\ \A i \in 1 .. Len(pending) : pending'[i] = pending[i]
        /\ pending'[Len(pending) + 1] = e
        /\ DOMAIN pending = 1 .. Len(pending) /\ Len(pending) \in Nat
    BY <1>1, <2>1
  <2>5. \A i \in DOMAIN pending : pending[i].n \in Nat /\ pending[i].n <= made
    <3> TAKE i \in DOMAIN pending
    <3>1. pending[i] \in Entries
      BY <1>1, <2>4
    <3>2. pending[i].n \in Nat
      BY <3>1 DEF Entries
    <3> QED
      BY <1>1, <3>2 DEF Ordered
  <2>6. Ordered(pending', made', executed')
    <3>1. \A i \in DOMAIN pending' : pending'[i].n <= made'
      <4> TAKE i \in DOMAIN pending'
      <4>1. CASE i \in DOMAIN pending
        <5>1. pending[i].n \in Nat /\ pending[i].n <= made /\ pending'[i] = pending[i]
          BY <2>4, <2>5, <4>1
        <5> QED
          BY <1>1, <5>1
      <4>2. CASE i = Len(pending) + 1
        <5>1. pending'[i].n = made'
          BY <1>1, <2>4, <4>2
        <5> QED
          BY <1>1, <5>1
      <4> QED
        BY <2>4, <4>1, <4>2
    <3>2. \A i \in DOMAIN pending', k \in DOMAIN executed : executed[k] < pending'[i].n
      <4> TAKE i \in DOMAIN pending', k \in DOMAIN executed
      <4>1. CASE i \in DOMAIN pending
        <5>1. pending'[i] = pending[i]
          BY <2>4, <4>1
        <5>2. executed[k] < pending[i].n
          BY <1>1, <4>1 DEF Ordered
        <5> QED
          BY <5>1, <5>2
      <4>2. CASE i = Len(pending) + 1
        <5>1. pending'[i] = e
          BY <2>4, <4>2
        <5> QED
          BY <1>2, <5>1
      <4> QED
        BY <2>4, <4>1, <4>2
    <3>3. \A i, j \in DOMAIN pending' : i < j => pending'[i].n < pending'[j].n
      <4> SUFFICES ASSUME NEW i \in DOMAIN pending', NEW j \in DOMAIN pending', i < j
                   PROVE  pending'[i].n < pending'[j].n
        OBVIOUS
      <4>1. i \in DOMAIN pending
        BY <2>4
      <4>2. CASE j \in DOMAIN pending
        BY <1>1, <2>4, <4>1, <4>2 DEF Ordered
      <4>3. CASE j = Len(pending) + 1
        <5>1. pending[i].n <= made /\ pending[i].n \in Nat
          BY <2>5, <4>1
        <5>2. pending'[i] = pending[i] /\ pending'[j] = e
          BY <2>4, <4>1, <4>3
        <5> QED
          BY <1>1, <5>1, <5>2
      <4> QED
        BY <2>4, <4>2, <4>3
    <3> QED
      BY <3>1, <3>2, <3>3 DEF Ordered
  <2>7. FlightOrdered'
    <3> SUFFICES ASSUME chain' = "waiting"
                 PROVE  /\ inFlight'.n <= made'
                        /\ \A i \in DOMAIN pending' : inFlight'.n < pending'[i].n
                        /\ request' = "sent" =>
                             \A k \in DOMAIN executed' : executed'[k] < inFlight'.n
      BY DEF FlightOrdered
    <3>1. /\ inFlight.n \in Nat /\ inFlight.n <= made
          /\ \A i \in DOMAIN pending : inFlight.n < pending[i].n
          /\ request = "sent" => \A k \in DOMAIN executed : executed[k] < inFlight.n
      BY <2>1 DEF Inv, TypeOK, QueueOK, OrderInv, FlightOrdered, Entries
    <3>2. inFlight.n < e.n
      BY <1>1, <3>1
    <3> QED
      BY <1>1, <2>1, <2>4, <3>1, <3>2
  <2> QED
    BY <1>2, <1>3, <2>1, <2>3, <2>6, <2>7 DEF OrderInv, Inv, TypeOK, ServerOK
<1>5. CASE ~Busy
  <2>1. /\ handler' = h /\ pending' = <<>>
        /\ \/ chain' = "waiting" /\ inFlight' = e /\ request' = "sent"
           \/ chain' = "wedged" /\ inFlight' = NoEntry /\ request' = "none"
    BY <1>5 DEF AddPendingOperation, Send, Stop
  <2>2. QueueOK'
    BY <1>1, <2>1 DEF QueueOK, Handlers
  <2>3. Ordered(pending', made', executed')
    BY <1>1, <2>1 DEF Ordered
  <2>4. FlightOrdered'
    BY <1>1, <1>2, <2>1 DEF FlightOrdered
  <2> QED
    BY <1>2, <1>3, <2>1, <2>2, <2>3, <2>4 DEF OrderInv
<1> QED
  BY <1>4, <1>5

-----------------------------------------------------------------------------
(* Steps *)

(* applyOperation, whatever it is called with *)
LEMMA ApplyOperationKeeps ==
    ASSUME Inv, NEW op \in Ops, NEW h \in Handlers,
           NEW u \in Seq(StackOps), NEW r \in Seq(StackOps),
           h.kind = "new" /\ op.type \in Undoable => op \in StackOps,
           ApplyOperation(op, h, u, r)
    PROVE  Inv'
<1> DEFINE late == op.type \in AfterServer
           t == IF late THEN data ELSE Apply(data, op)
<1>1. t \in Tables
  BY ApplyType DEF Inv, TypeOK, StoreOK
<1>2. data' = t /\ undo' = (IF late THEN u ELSE UndoAfter(h, op, u))
        /\ redos' = (IF late THEN r ELSE RedosAfter(h, r))
  BY DEF ApplyOperation
<1>3. undo' \in Seq(StackOps) /\ redos' \in Seq(StackOps)
  BY <1>2, StacksType
<1>4. /\ ops' = ops + 1 /\ loading' = (op.type \in NeedLoading)
      /\ UNCHANGED <<timer, reloads, server, executed, failures>>
  BY DEF ApplyOperation
<1>7. emptied' \subseteq Rows \cup Copies
  BY DEF ApplyOperation, Losing, Inv, TypeOK, StoreOK
<1>5. CASE op.type \in LocalOnly
  <2>1. /\ widths' = ApplyWidth(widths, op)
        /\ UNCHANGED <<pending, chain, inFlight, handler, made, request>>
    BY <1>5 DEF ApplyOperation, queue
  <2>2. widths' \in [Columns -> Values]
    BY <2>1, ApplyWidthType DEF Inv, TypeOK, StoreOK
  <2>3. QueueOK' /\ OrderInv'
    BY <1>4, <2>1 DEF Inv, TypeOK, QueueOK, OrderInv, InOrder, FlightOrdered
  <2>4. ServerOK' /\ ScreenOK'
    BY <1>4, <2>1 DEF Inv, TypeOK, ServerOK, ScreenOK
  <2> QED
    BY <1>1, <1>2, <1>3, <1>7, <2>2, <2>3, <2>4 DEF Inv, TypeOK, StoreOK
<1>6. CASE op.type \notin LocalOnly
  <2>1. AddPendingOperation(op, h, t) /\ UNCHANGED widths
    BY <1>6 DEF ApplyOperation
  <2>2. QueueOK' /\ OrderInv' /\ request' \in {"none", "sent", "done", "refused", "lost"}
    BY <1>4, <2>1, AddKeeps
  <2>3. ServerOK' /\ ScreenOK'
    BY <1>4, <2>2 DEF Inv, TypeOK, ServerOK, ScreenOK
  <2> QED
    BY <1>1, <1>2, <1>3, <1>7, <2>1, <2>2, <2>3 DEF Inv, TypeOK, StoreOK
<1> QED
  BY <1>5, <1>6

LEMMA MakeApplies ==
    ASSUME Inv, NEW type, NEW item, NEW new, NEW old, Make(type, item, new, old),
           [id |-> ops + 1, type |-> type, item |-> item, new |-> new, old |-> old] \in Ops,
           type = "delete_column" => old \in FieldMaps,
           type = "insert_column" => ~InsertUndecided,
           type = "delete_records" => item \in Rows \cup Copies,
           type = "duplicate_record" => item \in Rows /\ new \in Copies /\ data[new] = Gone,
           type = "modify_sorts" => item = View,
           type \notin AfterServer \cup LocalOnly => data[item] # Gone,
           type \in DOMAIN FieldOf => old = data[item][FieldOf[type]],
           type = "delete_column" => old = data[item],
           type = "insert_column" => data[item] = Gone,
           type \in {"modify_groupbys", "modify_column_order"} => item = View,
           type = "modify_records" => data[Rated] # Gone
    PROVE  SomeApplies
<1> DEFINE op == [id |-> ops + 1, type |-> type, item |-> item, new |-> new, old |-> old]
<1>1. New \in Handlers /\ New.kind = "new"
  BY DEF New, Handlers
<1>2. op.type \in Undoable => op \in StackOps
  BY DEF StackOps
<1>3. ApplyOperation(op, New, undo, redos)
  BY DEF Make
<1>4. op.id = ops + 1 /\ (op.type = "insert_column" => ~InsertUndecided)
  OBVIOUS
<1>5. undo \in Seq(StackOps) /\ redos \in Seq(StackOps)
  BY DEF Inv, TypeOK, StoreOK
<1>6. op \in Ops
  OBVIOUS
<1>7. Aimed(op) /\ Seen(op) /\ Known(op)
  BY DEF Aimed, Seen, Known
<1> HIDE DEF op
<1>8. Applies(op, New, undo, redos)
  BY <1>1, <1>2, <1>3, <1>4, <1>7 DEF Applies
<1> QED
  BY <1>1, <1>5, <1>6, <1>8 DEF SomeApplies

LEMMA SetFieldApplies ==
    ASSUME Inv, NEW type \in DOMAIN FieldOf, NEW items \in SUBSET Items,
           SetField(type, items),
           type \in {"modify_sorts", "modify_groupbys", "modify_column_order"} => items = {View},
           type = "modify_records" => data[Rated] # Gone
    PROVE  SomeApplies
<1>1. PICK i \in items, v \in Values :
          /\ data[i] # Gone
          /\ Make(type, i, v, data[i][FieldOf[type]])
  BY DEF SetField
<1>2. data[i] \in FieldMaps
  BY <1>1 DEF Inv, TypeOK, StoreOK, Tables
<1>3. FieldOf[type] \in Fields
  BY DEF FieldOf, Fields
<1>4. data[i][FieldOf[type]] \in Values
  BY <1>2, <1>3 DEF FieldMaps
<1>5. [id |-> ops + 1, type |-> type, item |-> i, new |-> v,
       old |-> data[i][FieldOf[type]]] \in FieldOps
  BY <1>4 DEF FieldOps, Inv, TypeOK, ServerOK
<1>6. type \notin {"delete_column", "insert_column", "delete_records", "duplicate_record"}
  BY DEF FieldOf
<1>7. type \in {"modify_sorts", "modify_groupbys", "modify_column_order"} => i = View
  OBVIOUS
<1> QED
  BY <1>1, <1>5, <1>6, <1>7, MakeApplies DEF Ops

(* What the user does goes through applyOperation: one lemma for what sets a *)
(* field, one each for the others.                                         *)
LEMMA FieldApplies ==
    ASSUME Inv, \/ ModifyRecords \/ RenameFile \/ RenameColumn \/ ModifyColumnData
                \/ ModifySorts \/ ModifyGroupbys \/ ModifyColumnOrder
    PROVE  SomeApplies
<1> USE SetFieldApplies DEF FieldOf, Items
<1>1. CASE ModifyRecords
  BY <1>1 DEF ModifyRecords
<1>2. CASE RenameFile
  BY <1>2 DEF RenameFile
<1>3. CASE RenameColumn
  BY <1>3 DEF RenameColumn
<1>4. CASE ModifyColumnData
  BY <1>4 DEF ModifyColumnData
<1>5. CASE ModifySorts
  BY <1>5 DEF ModifySorts
<1>6. CASE ModifyGroupbys
  BY <1>6 DEF ModifyGroupbys
<1>7. CASE ModifyColumnOrder
  BY <1>7 DEF ModifyColumnOrder
<1> QED
  BY <1>1, <1>2, <1>3, <1>4, <1>5, <1>6, <1>7

LEMMA DeleteRecordsApplies == Inv /\ DeleteRecords => SomeApplies
<1> SUFFICES ASSUME Inv, DeleteRecords PROVE SomeApplies
  OBVIOUS
<1>1. PICK i \in Rows \cup Copies :
          data[i] # Gone /\ Make("delete_records", i, First, First)
  BY DEF DeleteRecords
<1>2. [id |-> ops + 1, type |-> "delete_records", item |-> i,
       new |-> First, old |-> First] \in RecordOps
  BY FirstAssumption DEF RecordOps, Items, Inv, TypeOK, ServerOK
<1> QED
  BY <1>1, <1>2, MakeApplies DEF Ops, AfterServer, FieldOf

LEMMA DuplicateRecordApplies == Inv /\ DuplicateRecord => SomeApplies
<1> SUFFICES ASSUME Inv, DuplicateRecord PROVE SomeApplies
  OBVIOUS
<1>1. PICK i \in Rows, c \in Copies :
          data[c] = Gone /\ Make("duplicate_record", i, c, First)
  BY DEF DuplicateRecord
<1>2. [id |-> ops + 1, type |-> "duplicate_record", item |-> i,
       new |-> c, old |-> First] \in RecordOps
  BY FirstAssumption DEF RecordOps, Items, Inv, TypeOK, ServerOK
<1> QED
  BY <1>1, <1>2, MakeApplies DEF Ops, AfterServer, FieldOf

LEMMA InsertColumnApplies == Inv /\ InsertColumn => SomeApplies
<1> SUFFICES ASSUME Inv, InsertColumn PROVE SomeApplies
  OBVIOUS
<1>1. PICK c \in Columns, v \in Values :
          /\ data[c] = Gone /\ ~InsertUndecided
          /\ Make("insert_column", c, [f \in Fields |-> v], First)
  BY DEF InsertColumn
<1>2. [id |-> ops + 1, type |-> "insert_column", item |-> c,
       new |-> [f \in Fields |-> v], old |-> First] \in InsertOps
  BY FirstAssumption DEF InsertOps, FieldMaps, Inv, TypeOK, ServerOK
<1> QED
  BY <1>1, <1>2, MakeApplies DEF Ops, AfterServer, FieldOf

LEMMA DeleteColumnApplies == Inv /\ DeleteColumn => SomeApplies
<1> SUFFICES ASSUME Inv, DeleteColumn PROVE SomeApplies
  OBVIOUS
<1>1. PICK c \in Columns :
          data[c] # Gone /\ Make("delete_column", c, First, data[c])
  BY DEF DeleteColumn
<1>2. data[c] \in FieldMaps
  BY <1>1 DEF Items, Inv, TypeOK, StoreOK, Tables
<1>3. [id |-> ops + 1, type |-> "delete_column", item |-> c,
       new |-> First, old |-> data[c]] \in DeleteOps
  BY <1>2, FirstAssumption DEF DeleteOps, Inv, TypeOK, ServerOK
<1> QED
  BY <1>1, <1>2, <1>3, MakeApplies DEF Ops, FieldOf

LEMMA ModifyColumnWidthApplies == Inv /\ ModifyColumnWidth => SomeApplies
<1> SUFFICES ASSUME Inv, ModifyColumnWidth PROVE SomeApplies
  OBVIOUS
<1>1. PICK c \in Columns, v \in Values :
          Make("modify_column_width", c, v, widths[c])
  BY DEF ModifyColumnWidth
<1>2. widths[c] \in Values
  BY DEF Inv, TypeOK, StoreOK
<1>3. [id |-> ops + 1, type |-> "modify_column_width", item |-> c,
       new |-> v, old |-> widths[c]] \in WidthOps
  BY <1>2 DEF WidthOps, LocalOnly, Inv, TypeOK, ServerOK
<1> QED
  BY <1>1, <1>3, MakeApplies DEF Ops, LocalOnly, FieldOf

LEMMA UndoApplies == Inv /\ UndoOperation => SomeApplies
<1> SUFFICES ASSUME Inv, UndoOperation PROVE SomeApplies
  OBVIOUS
<1> DEFINE h == [kind |-> "undo", op |-> Last(undo)]
           op == Invert(Last(undo), ops + 1)
<1>1. undo \in Seq(StackOps) /\ redos \in Seq(StackOps) /\ undo # <<>> /\ ops \in Nat
  BY DEF UndoOperation, Inv, TypeOK, StoreOK, ServerOK
<1>2. Front(undo) \in Seq(StackOps) /\ Last(undo) \in StackOps
  BY <1>1, FrontLast
<1>3. op \in Ops /\ op.id = ops + 1
  BY <1>1, <1>2, InvertType
<1>4. h \in Handlers /\ h.kind = "undo" /\ h.op = Last(undo)
  BY <1>2 DEF Handlers
<1>5. ApplyOperation(op, h, Front(undo), redos)
  BY DEF UndoOperation
<1> HIDE DEF h, op
<1>6. Popped(h, Front(undo), redos) /\ Undoes(op, h, Front(undo), redos)
  BY <1>1, <1>4, FrontIds DEF Popped, Apart, OnStacks, Undoes, op
<1>7. op.type \in Undoable
  BY <1>2, InvertUndoable DEF op
<1>8. Applies(op, h, Front(undo), redos)
  BY <1>3, <1>4, <1>5, <1>6, <1>7 DEF Applies, Aimed, Undoable
<1> QED
  BY <1>1, <1>2, <1>3, <1>4, <1>8 DEF SomeApplies

LEMMA RedoApplies == Inv /\ RedoOperation => SomeApplies
<1> SUFFICES ASSUME Inv, RedoOperation PROVE SomeApplies
  OBVIOUS
<1> DEFINE h == [kind |-> "redo", op |-> Last(redos)]
           op == Last(redos)
<1>1. undo \in Seq(StackOps) /\ redos \in Seq(StackOps) /\ redos # <<>>
  BY DEF RedoOperation, Inv, TypeOK, StoreOK
<1>2. Front(redos) \in Seq(StackOps) /\ Last(redos) \in StackOps
  BY <1>1, FrontLast
<1>3. op \in Ops
  BY <1>2 DEF StackOps
<1>4. h \in Handlers /\ h.kind = "redo" /\ h.op = op /\ op = Last(redos)
  BY <1>2 DEF Handlers
<1>5. ApplyOperation(op, h, undo, Front(redos))
  BY DEF RedoOperation
<1> HIDE DEF h, op
<1>6. Popped(h, undo, Front(redos)) /\ Redoes(op, h, undo, Front(redos))
  BY <1>1, <1>4, FrontIds DEF Popped, Apart, OnStacks, Redoes
<1>7. op.type \in Undoable
  BY <1>2, <1>4 DEF StackOps
<1>8. Applies(op, h, undo, Front(redos))
  BY <1>3, <1>4, <1>5, <1>6, <1>7 DEF Applies, Aimed, Undoable
<1> QED
  BY <1>1, <1>2, <1>3, <1>4, <1>8 DEF SomeApplies

LEMMA UserApplies == Inv /\ User => SomeApplies
BY FieldApplies, DeleteRecordsApplies, DuplicateRecordApplies, InsertColumnApplies,
   DeleteColumnApplies, ModifyColumnWidthApplies, UndoApplies, RedoApplies DEF User

(* The server executes what is under way, whose number is above those of    *)
(* what it executed before.                                                *)
LEMMA ExecuteKeeps ==
    ASSUME Inv, request = "sent", Execute, request' \in {"done", "lost"},
           UNCHANGED <<store, queue, screen, ops>>, failures' \in Nat
    PROVE  Inv'
<1>1. /\ chain = "waiting" /\ inFlight \in Entries /\ inFlight.n \in Nat
      /\ executed \in Seq(Nat) /\ made \in Nat /\ inFlight.n <= made
      /\ \A k \in DOMAIN executed : executed[k] < inFlight.n /\ executed[k] \in Nat
      /\ \A i \in DOMAIN pending : inFlight.n < pending[i].n
      /\ \A k \in DOMAIN executed : executed[k] <= made
      /\ \A k, j \in DOMAIN executed : k < j => executed[k] < executed[j]
  BY DEF Inv, TypeOK, QueueOK, ServerOK, OrderInv, FlightOrdered, Entries, InOrder
<1>2. /\ executed' = Append(executed, inFlight.n) /\ executed' \in Seq(Nat)
      /\ server' = Executed(inFlight.op)
      /\ DOMAIN executed' = 1 .. (Len(executed) + 1)
      /\ DOMAIN executed = 1 .. Len(executed) /\ Len(executed) \in Nat
      /\ \A k \in DOMAIN executed : executed'[k] = executed[k]
      /\ executed'[Len(executed) + 1] = inFlight.n
  BY <1>1 DEF Execute
<1>3. /\ UNCHANGED <<data, widths, undo, redos, emptied, pending, chain, inFlight, handler,
                      made, loading, timer, reloads, ops>>
  BY DEF store, queue, screen
<1>4. server' \in Tables
  <2>1. inFlight.op \in Ops /\ server \in Tables
    BY <1>1 DEF Entries, Inv, TypeOK, ServerOK
  <2>2. CASE inFlight.op.type = "duplicate_record"
    <3>1. inFlight.op.item \in Items
      BY <2>1, <2>2 DEF Ops, FieldOps, FieldOf, WidthOps, LocalOnly, RecordOps,
                        InsertOps, DeleteOps
    <3>2. server[inFlight.op.item] \in FieldMaps \cup {Gone}
      BY <2>1, <3>1 DEF Tables
    <3>3. [server EXCEPT ![inFlight.op.new] = server[inFlight.op.item]] \in Tables
      BY <2>1, <3>2, SetItem, Zenon
    <3> QED
      BY <1>2, <2>2, <3>3 DEF Executed
  <2>3. CASE inFlight.op.type # "duplicate_record"
    <3>1. Executed(inFlight.op) \in {server, Apply(server, inFlight.op)}
      BY <2>3 DEF Executed
    <3> QED
      BY <1>2, <2>1, <3>1, ApplyType
  <2> QED
    BY <2>2, <2>3
<1>5. TypeOK'
  BY <1>2, <1>3, <1>4 DEF Inv, TypeOK, QueueOK, StoreOK, ScreenOK, ServerOK
<1>6. \A k \in DOMAIN executed' : executed'[k] <= inFlight.n
  <2> TAKE k \in DOMAIN executed'
  <2>1. k \in DOMAIN executed \/ k = Len(executed) + 1
    BY <1>2
  <2> QED
    BY <1>1, <1>2, <2>1
<1>7. InOrder'
  <2> SUFFICES ASSUME NEW k \in DOMAIN executed', NEW j \in DOMAIN executed', k < j
               PROVE  executed'[k] < executed'[j]
    BY DEF InOrder
  <2>1. k \in DOMAIN executed
    BY <1>2
  <2>2. CASE j \in DOMAIN executed
    BY <1>1, <1>2, <2>1, <2>2
  <2>3. CASE j = Len(executed) + 1
    BY <1>1, <1>2, <2>1, <2>3
  <2> QED
    BY <1>2, <2>2, <2>3
<1>8. Ordered(pending', made', executed')
  <2>1. \A i \in DOMAIN pending : pending[i].n \in Nat
    <3> TAKE i \in DOMAIN pending
    <3>1. pending[i] \in Entries
      BY DEF Inv, TypeOK, QueueOK
    <3> QED
      BY <3>1 DEF Entries
  <2>2. \A i \in DOMAIN pending, k \in DOMAIN executed' : executed'[k] < pending[i].n
    <3> TAKE i \in DOMAIN pending, k \in DOMAIN executed'
    <3>1. executed'[k] \in Nat /\ executed'[k] <= inFlight.n /\ inFlight.n < pending[i].n
      BY <1>1, <1>2, <1>6
    <3> QED
      BY <1>1, <2>1, <3>1
  <2> QED
    BY <1>3, <2>2 DEF Ordered, Inv, OrderInv
<1>9. FlightOrdered' /\ \A k \in DOMAIN executed' : executed'[k] <= made'
  <2>1. \A k \in DOMAIN executed' : executed'[k] <= made'
    <3> TAKE k \in DOMAIN executed'
    <3>1. executed'[k] \in Nat /\ executed'[k] <= inFlight.n
      BY <1>2, <1>6
    <3> QED
      BY <1>1, <1>3, <3>1
  <2> QED
    BY <1>1, <1>3, <2>1 DEF FlightOrdered
<1> QED
  BY <1>5, <1>7, <1>8, <1>9 DEF Inv, OrderInv

(* An answer that comes with nothing executed *)
LEMMA NoneExecutedKeeps ==
    ASSUME Inv, request = "sent", request' \in {"refused", "lost"},
           UNCHANGED <<store, queue, screen, ops, server, executed>>, failures' \in Nat
    PROVE  Inv'
<1>1. UNCHANGED <<data, widths, undo, redos, emptied, pending, chain, inFlight, handler,
                  made, loading, timer, reloads, ops, server, executed>>
  BY DEF store, queue, screen
<1>2. TypeOK'
  BY <1>1 DEF Inv, TypeOK, QueueOK, StoreOK, ScreenOK, ServerOK
<1> QED
  BY <1>1, <1>2 DEF Inv, OrderInv, InOrder, FlightOrdered

LEMMA ServerStep == Inv /\ (ServerExecutes \/ RequestFails) => Inv'
<1>1. ASSUME Inv, ServerExecutes PROVE Inv'
  <2>1. /\ request = "sent"
        /\ UNCHANGED <<store, queue, screen, ops, failures>>
        /\ \/ request' = "refused" /\ UNCHANGED <<server, executed>>
           \/ request' = "done" /\ Execute
    BY <1>1 DEF ServerExecutes
  <2>2. failures' \in Nat
    BY <1>1, <2>1 DEF Inv, TypeOK, ServerOK
  <2> QED
    BY <1>1, <2>1, <2>2, ExecuteKeeps, NoneExecutedKeeps
<1>2. ASSUME Inv, RequestFails PROVE Inv'
  <2>1. /\ request = "sent"
        /\ UNCHANGED <<store, queue, screen, ops>>
        /\ failures' = failures + 1
        /\ \/ request' \in {"refused", "lost"} /\ UNCHANGED <<server, executed>>
           \/ request' = "lost" /\ Execute
    BY <1>2 DEF RequestFails
  <2>2. failures' \in Nat
    BY <1>2, <2>1 DEF Inv, TypeOK, ServerOK
  <2> QED
    BY <1>2, <2>1, <2>2, ExecuteKeeps, NoneExecutedKeeps
<1> QED
  BY <1>1, <1>2

LEMMA StartReloadType ==
    ASSUME NEW t \in Tables, reloads \in Seq(Reloads)
    PROVE  StartReload(t) \in Seq(Reloads)
<1>1. t[View] \in FieldMaps \cup {Gone}
  BY DEF Tables, Items
<1>2. [view |-> t[View], read |-> <<>>, seen |-> 0] \in Reloads
  BY <1>1 DEF Reloads
<1> QED
  BY <1>2 DEF StartReload

LEMMA RemoveAtType ==
    ASSUME NEW S, NEW s \in Seq(S), NEW i \in DOMAIN s
    PROVE  RemoveAt(s, i) \in Seq(S)
<1>1. i \in Nat /\ 1 <= i /\ i <= Len(s) /\ Len(s) \in Nat
  OBVIOUS
<1>2. SubSeq(s, 1, i - 1) \in Seq(S)
  BY <1>1, SubSeqProperties
<1>3. SubSeq(s, i + 1, Len(s)) \in Seq(S)
  BY <1>1, SubSeqProperties
<1> QED
  BY <1>2, <1>3 DEF RemoveAt

(* The answer: its operation may now be applied and pushed, and the next one *)
(* is sent.                                                                *)
LEMMA AnswerStep == Inv /\ Answer => Inv'
<1> SUFFICES ASSUME Inv, Answer PROVE Inv'
  OBVIOUS
<1> DEFINE op == inFlight.op
           late == op.type \in AfterServer
           t == IF late THEN Apply(data, op) ELSE data
<1>1. op \in Ops /\ handler \in Handlers
  BY DEF Inv, TypeOK, QueueOK, Entries, Handlers, Answer
<1>2. t \in Tables
  BY <1>1, ApplyType DEF Inv, TypeOK, StoreOK
<1>3. Passes
  BY DEF Passes, Inv, TypeOK, OrderInv, Answer
<1>4. QueueGoesOn
  <2>1. SendNextOperation(t, op.type # "rename_file")
    BY DEF Answer
  <2> QED
    BY <1>3, <2>1, SendNextKeeps
<1>5. StoreOK'
  <2>1. CASE late
    <3>1. op.type \in Undoable => op \in StackOps
      BY <1>1, <2>1 DEF AfterServer, Undoable, StackOps
    <3>2. /\ undo' = UndoAfter(handler, op, undo)
          /\ redos' = RedosAfter(handler, redos)
      BY <2>1 DEF Answer
    <3>3. undo' \in Seq(StackOps) /\ redos' \in Seq(StackOps)
      BY <1>1, <3>1, <3>2, StacksType DEF Inv, TypeOK, StoreOK
    <3>4. data' = t /\ UNCHANGED <<widths, emptied>>
      BY DEF Answer
    <3> QED
      BY <1>2, <3>3, <3>4 DEF Inv, TypeOK, StoreOK
  <2>2. CASE ~late
    <3>1. UNCHANGED <<widths, undo, redos, emptied>> /\ data' = data
      BY <2>2 DEF Answer
    <3> QED
      BY <3>1 DEF Inv, TypeOK, StoreOK
  <2> QED
    BY <2>1, <2>2
<1>6. ScreenOK'
  <2>1. reloads' \in {reloads, StartReload(t)}
    BY DEF Answer
  <2>2. StartReload(t) \in Seq(Reloads)
    BY <1>2, StartReloadType DEF Inv, TypeOK, ScreenOK
  <2>3. timer' \in BOOLEAN /\ loading' \in BOOLEAN
    BY DEF Answer, Inv, TypeOK, ScreenOK
  <2> QED
    BY <2>1, <2>2, <2>3 DEF Inv, TypeOK, ScreenOK
<1>7. ServerOK'
  <2>1. UNCHANGED <<ops, failures, server, executed>>
    BY DEF Answer
  <2> QED
    BY <1>4, <2>1 DEF QueueGoesOn, Inv, TypeOK, ServerOK
<1> QED
  BY <1>4, <1>5, <1>6, <1>7 DEF QueueGoesOn, Inv, TypeOK

LEMMA AnswerErrorStep == Inv /\ AnswerError => Inv'
<1> SUFFICES ASSUME Inv, AnswerError PROVE Inv'
  OBVIOUS
<1>1. Passes
  BY DEF Passes, Inv, TypeOK, OrderInv, AnswerError
<1>2. QueueGoesOn
  <2>1. CASE request = "lost" /\ inFlight.op.type = "rename_file"
    <3>1. Stop("wedged", pending)
      BY <2>1 DEF AnswerError
    <3>2. pending \in Seq(Entries) /\ Ordered(pending, made, executed)
      BY <1>1 DEF Passes, QueueOK
    <3> QED
      BY <1>1, <3>1, <3>2, StopKeeps
  <2>2. CASE ~(request = "lost" /\ inFlight.op.type = "rename_file")
    BY <1>1, <2>2, SendNextKeeps DEF AnswerError
  <2> QED
    BY <2>1, <2>2
<1>3. UNCHANGED <<data, widths, undo, redos, emptied, loading, timer, reloads, ops,
                  server, executed, failures>>
  BY DEF AnswerError, store, screen
<1> QED
  BY <1>2, <1>3 DEF QueueGoesOn, Inv, TypeOK, StoreOK, ScreenOK, ServerOK

(* Reloads touch no part of the queue. *)
LEMMA ReloadKeeps ==
    ASSUME Inv, UNCHANGED <<widths, undo, redos, emptied, queue, remote, ops>>,
           data' \in Tables, loading' \in BOOLEAN, timer' \in BOOLEAN,
           reloads' \in Seq(Reloads)
    PROVE  Inv'
<1>1. UNCHANGED <<pending, chain, inFlight, handler, made, server, request,
                  executed, failures>>
  BY DEF queue, remote
<1>2. QueueOK' /\ StoreOK' /\ ScreenOK' /\ ServerOK'
  BY <1>1 DEF Inv, TypeOK, QueueOK, StoreOK, ScreenOK, ServerOK
<1> QED
  BY <1>1, <1>2 DEF Inv, TypeOK, OrderInv, InOrder, FlightOrdered

LEMMA ReloadStep == Inv /\ (TimerReloads \/ ServerReads \/ ReloadMetadata) => Inv'
<1>1. ASSUME Inv, TimerReloads PROVE Inv'
  <2>1. StartReload(data) \in Seq(Reloads)
    BY <1>1, StartReloadType DEF Inv, TypeOK, StoreOK, ScreenOK
  <2> QED
    BY <1>1, <2>1, ReloadKeeps DEF TimerReloads, store, Inv, TypeOK, StoreOK
<1>2. ASSUME Inv, ServerReads PROVE Inv'
  <2>1. PICK i \in DOMAIN reloads :
            /\ reloads' = [reloads EXCEPT ![i].read = <<server>>,
                                          ![i].seen = Len(executed)]
            /\ UNCHANGED <<store, queue, loading, timer, remote, ops>>
    BY <1>2 DEF ServerReads
  <2>2. reloads \in Seq(Reloads) /\ server \in Tables /\ executed \in Seq(Nat)
    BY <1>2 DEF Inv, TypeOK, ScreenOK, ServerOK
  <2>3. reloads[i] \in Reloads
    BY <2>2
  <2>4. [reloads[i] EXCEPT !.read = <<server>>, !.seen = Len(executed)] \in Reloads
    <3>1. <<server>> \in Seq(Tables) /\ Len(executed) \in Nat
      BY <2>2
    <3> QED
      BY <2>3, <3>1 DEF Reloads
  <2>5. reloads' = [reloads EXCEPT ![i] =
                      [reloads[i] EXCEPT !.read = <<server>>, !.seen = Len(executed)]]
    BY <2>1, <2>2, <2>3 DEF Reloads
  <2>6. reloads' \in Seq(Reloads)
    BY <2>2, <2>4, <2>5
  <2> QED
    BY <1>2, <2>1, <2>6, ReloadKeeps DEF store, Inv, TypeOK, StoreOK, ScreenOK
<1>3. ASSUME Inv, ReloadMetadata PROVE Inv'
  <2>1. PICK i \in DOMAIN reloads :
            /\ reloads[i].read # <<>>
            /\ data' = [Head(reloads[i].read) EXCEPT ![View] = reloads[i].view]
            /\ reloads' = RemoveAt(reloads, i)
            /\ loading' = FALSE
            /\ UNCHANGED <<widths, undo, redos, emptied, queue, timer, remote, ops>>
    BY <1>3 DEF ReloadMetadata
  <2>2. reloads \in Seq(Reloads) /\ reloads[i] \in Reloads
    BY <1>3 DEF Inv, TypeOK, ScreenOK
  <2>3. Head(reloads[i].read) \in Tables /\ reloads[i].view \in FieldMaps \cup {Gone}
    BY <2>1, <2>2 DEF Reloads
  <2>4. data' \in Tables
    BY <2>1, <2>3, SetItem, Zenon
  <2>5. RemoveAt(reloads, i) \in Seq(Reloads)
    BY <2>2, RemoveAtType
  <2> QED
    BY <1>3, <2>1, <2>4, <2>5, ReloadKeeps DEF Inv, TypeOK, ScreenOK
<1> QED
  BY <1>1, <1>2, <1>3

-----------------------------------------------------------------------------

LEMMA InitInv == Init => Inv
<1> SUFFICES ASSUME Init PROVE Inv
  OBVIOUS
<1>1. FirstTable \in Tables
  BY FirstAssumption DEF FirstTable, Tables, FieldMaps
<1>2. QueueOK
  BY DEF Init, QueueOK, NoEntry, New
<1>3. StoreOK
  BY <1>1, FirstAssumption DEF Init, StoreOK
<1>4. ScreenOK /\ ServerOK
  <2>1. reloads \in Seq(Reloads) /\ executed \in Seq(Nat)
    BY DEF Init
  <2> QED
    BY <1>1, <2>1 DEF Init, ScreenOK, ServerOK
<1>5. OrderInv
  BY DEF Init, OrderInv, InOrder, Ordered, FlightOrdered
<1> QED
  BY <1>2, <1>3, <1>4, <1>5 DEF Inv, TypeOK

LEMMA NextInv == Inv /\ [Next]_vars => Inv'
<1> SUFFICES ASSUME Inv, [Next]_vars PROVE Inv'
  OBVIOUS
<1>1. CASE User
  BY <1>1, UserApplies, ApplyOperationKeeps DEF SomeApplies, Applies
<1>2. CASE ServerExecutes \/ RequestFails
  BY <1>2, ServerStep
<1>3. CASE Answers
  BY <1>3, AnswerStep, AnswerErrorStep DEF Answers
<1>4. CASE TimerReloads \/ ServerReads \/ ReloadMetadata
  BY <1>4, ReloadStep
<1>5. CASE UNCHANGED vars
  <2>1. UNCHANGED <<data, widths, undo, redos, emptied, pending, chain, inFlight,
                    handler, made, loading, timer, reloads, server, request, executed,
                    failures, ops>>
    BY <1>5 DEF vars, store, queue, screen, remote
  <2>2. TypeOK'
    BY <2>1 DEF Inv, TypeOK, QueueOK, StoreOK, ScreenOK, ServerOK
  <2> QED
    BY <2>1, <2>2 DEF Inv, OrderInv, InOrder, FlightOrdered
<1> QED
  BY <1>1, <1>2, <1>3, <1>4, <1>5 DEF Next, Finished

LEMMA Invariance == Spec => []Inv
<1> QED
  BY InitInv, NextInv, PTL DEF Spec

(* Whatever the user does and whatever fails, what is on the stacks can be  *)
(* inverted and sent, and nothing waits in the queue of an idle store.     *)
THEOREM TypeCorrect == Spec => []TypeOK
<1>1. Inv => TypeOK
  BY DEF Inv
<1> QED
  BY <1>1, Invariance, PTL

(* However many operations wait, fail or throw, the server executes them in *)
(* the order in which the user made them, and none twice.                  *)
THEOREM ServerFollowsOrder == Spec => []InOrder
<1>1. Inv => InOrder
  BY DEF Inv, OrderInv
<1> QED
  BY <1>1, Invariance, PTL

-----------------------------------------------------------------------------
(* The stacks of undo and redo *)

LEMMA OpsId ==
    /\ \A op \in Ops : op.id \in Nat
    /\ Inv => /\ inFlight.op.id \in Nat /\ handler.op.id \in Nat
              /\ \A i \in DOMAIN pending : pending[i] \in Entries /\ pending[i].op.id \in Nat
<1>1. \A op \in Ops : op.id \in Nat
  BY DEF Ops, FieldOps, WidthOps, RecordOps, InsertOps, DeleteOps
<1>2. Inv => inFlight.op.id \in Nat /\ handler.op.id \in Nat
  BY <1>1 DEF Inv, TypeOK, QueueOK, Entries, NoEntry, NoOp, StackOps
<1>3. Inv => \A i \in DOMAIN pending : pending[i] \in Entries /\ pending[i].op.id \in Nat
  <2> SUFFICES ASSUME Inv, NEW i \in DOMAIN pending
               PROVE  pending[i] \in Entries /\ pending[i].op.id \in Nat
    OBVIOUS
  <2>1. pending[i] \in Entries
    BY DEF Inv, TypeOK, QueueOK
  <2> QED
    BY <1>1, <2>1 DEF Entries
<1> QED
  BY <1>1, <1>2, <1>3

LEMMA NoneUndecided ==
    ASSUME ~InsertUndecided
    PROVE  /\ chain = "waiting" => ~Inserts(inFlight)
           /\ \A i \in DOMAIN pending : ~Inserts(pending[i])
BY DEF InsertUndecided, Undecided, Inserts

(* The queue as it was, and at most the new operation more on the stacks *)
LEMMA SameAnswers ==
    ASSUME Inv, IdsOK, AnswersOK, UNCHANGED <<pending, chain, inFlight, handler>>,
           OnStacks' \subseteq OnStacks \cup {ops + 1}
    PROVE  AnswersOK'
<1>1. /\ inFlight.op.id # ops + 1 /\ handler.op.id # ops + 1
      /\ \A i \in DOMAIN pending : pending[i].op.id # ops + 1
  BY OpsId DEF IdsOK, Inv, TypeOK, ServerOK
<1> QED
  BY <1>1 DEF AnswersOK, Inserts, Late

(* addPendingOperations: an operation that is handled after the answer is   *)
(* the only one, or new among new ones.                                    *)
LEMMA AddAnswers ==
    ASSUME Inv, IdsOK, AnswersOK, NEW op \in Ops, NEW h \in Handlers, NEW t,
           AddPendingOperation(op, h, t), ~Hurries(op, h),
           OnStacks' \subseteq OnStacks \cup {ops + 1},
           op.type = "insert_column" /\ h.kind = "new" =>
               ~InsertUndecided /\ op.id \notin OnStacks',
           op.type \in AfterServer /\ h.kind # "new" => h.op.id \notin OnStacks'
    PROVE  AnswersOK'
<1> DEFINE e == [n |-> made + 1, op |-> op]
<1>1. /\ inFlight.op.id # ops + 1 /\ handler.op.id # ops + 1
      /\ \A i \in DOMAIN pending : pending[i].op.id # ops + 1
  BY OpsId DEF IdsOK, Inv, TypeOK, ServerOK
<1>2. e.op = op
  OBVIOUS
<1>3. CASE Busy
  <2>1. /\ pending' = Append(pending, e)
        /\ UNCHANGED <<chain, inFlight, handler>>
    BY <1>3 DEF AddPendingOperation
  <2>2. pending \in Seq(Entries)
    BY DEF Inv, TypeOK, QueueOK
  <2>3. \A i \in DOMAIN pending' : \/ i \in DOMAIN pending /\ pending'[i] = pending[i]
                                   \/ i = Len(pending) + 1 /\ pending'[i] = e
    BY <2>1, <2>2
  <2> HIDE DEF e
  <2>4. CASE op.type \in AfterServer
    <3>1. h.kind = "new" /\ handler.kind = "new"
      BY <1>3, <2>4 DEF Hurries
    <3>2. handler'.kind = "new"
      BY <2>1, <3>1
    <3>3. op.type = "insert_column" => /\ chain = "waiting" => ~Inserts(inFlight)
                                       /\ \A i \in DOMAIN pending : ~Inserts(pending[i])
      BY <3>1, NoneUndecided
    <3> QED
      BY <1>1, <1>2, <2>1, <2>3, <3>1, <3>2, <3>3 DEF AnswersOK, Inserts
  <2>5. CASE op.type \notin AfterServer
    <3>1. ~Late(e) /\ ~Inserts(e)
      BY <1>2, <2>5 DEF Late, Inserts, AfterServer
    <3> QED
      BY <1>1, <2>1, <2>3, <3>1 DEF AnswersOK, Inserts, Late
  <2> QED
    BY <2>4, <2>5
<1>4. CASE ~Busy
  <2>1. /\ handler' = h /\ pending' = <<>>
        /\ \/ chain' = "waiting" /\ inFlight' = e
           \/ chain' = "wedged" /\ inFlight' = NoEntry
    BY <1>4 DEF AddPendingOperation, Send, Stop
  <2> QED
    BY <1>2, <2>1 DEF AnswersOK, Inserts, Late
<1> QED
  BY <1>3, <1>4

(* applyOperation moves an operation from one stack to the other, or adds a *)
(* new one.                                                                *)
LEMMA ApplyStacks ==
    ASSUME Inv, StackInv, NEW op \in Ops, NEW h \in Handlers,
           NEW u \in Seq(StackOps), NEW r \in Seq(StackOps), Applies(op, h, u, r)
    PROVE  StackInv'
<1> DEFINE late == op.type \in AfterServer
           t == IF late THEN data ELSE Apply(data, op)
           e == [n |-> made + 1, op |-> op]
<1>1. /\ undo' = (IF late THEN u ELSE UndoAfter(h, op, u))
      /\ redos' = (IF late THEN r ELSE RedosAfter(h, r))
      /\ trouble \subseteq trouble' /\ ("hurried" \notin trouble' => ~Hurries(op, h))
  BY DEF Applies, ApplyOperation
<1>2. /\ op.type \in LocalOnly => UNCHANGED <<pending, chain, inFlight, handler>>
      /\ op.type \notin LocalOnly => AddPendingOperation(op, h, t)
  BY DEF Applies, ApplyOperation, queue
<1>3. ops \in Nat /\ ops' = ops + 1
  BY DEF Applies, ApplyOperation, Inv, TypeOK, ServerOK
<1>4. /\ OnStacks' \subseteq Ids(u) \cup Ids(r) \cup
             (IF late THEN {} ELSE Pushed(h, op))
      /\ Apart(u, r) /\ (~late => (Ids(u) \cup Ids(r)) \cap Pushed(h, op) = {}) =>
             Apart(undo', redos')
  BY <1>1, StacksHold DEF Applies, OnStacks
<1>5. \A id \in OnStacks : id # ops + 1 /\ id <= ops
  <2>1. \A id \in OnStacks : id \in Nat
    BY OpsId DEF OnStacks, Ids, Inv, TypeOK, StoreOK, StackOps
  <2> QED
    BY <1>3, <2>1 DEF StackInv, IdsOK
<1>6. /\ OnStacks' \subseteq OnStacks \cup {ops + 1}
      /\ op.id <= ops + 1 /\ h.op.id <= ops
      /\ Apart(undo, redos) =>
           /\ Apart(undo', redos')
           /\ op.type = "insert_column" /\ h.kind = "new" =>
                  ~InsertUndecided /\ op.id \notin OnStacks'
           /\ late /\ h.kind # "new" => h.op.id \notin OnStacks'
  <2>1. CASE h.kind = "new"
    <3>1. /\ u = undo /\ r = redos /\ op.id = ops + 1
          /\ op.type = "insert_column" => ~InsertUndecided
      BY <2>1 DEF Applies
    <3>2. Pushed(h, op) \subseteq {ops + 1}
      BY <2>1, <3>1 DEF Pushed
    <3>3. h.op.id = 0
      BY <2>1 DEF Handlers, NoOp
    <3>4. op.type = "insert_column" => late
      BY DEF AfterServer
    <3>5. (Ids(u) \cup Ids(r)) \cap Pushed(h, op) = {}
      BY <1>5, <3>1, <3>2 DEF OnStacks
    <3>6. late => OnStacks' \subseteq OnStacks
      BY <1>4, <3>1 DEF OnStacks
    <3>7. OnStacks' \subseteq OnStacks \cup {ops + 1}
      BY <1>4, <3>1, <3>2 DEF OnStacks
    <3>8. op.id <= ops + 1 /\ h.op.id <= ops
      BY <1>3, <3>1, <3>3
    <3> QED
      BY <1>4, <1>5, <2>1, <3>1, <3>4, <3>5, <3>6, <3>7, <3>8
  <2>2. CASE h.kind # "new"
    <3>1. Popped(h, u, r) /\ op.id \in {ops + 1, h.op.id} /\ Pushed(h, op) = {h.op.id}
      BY <2>2 DEF Applies, Pushed
    <3>2. /\ Ids(u) \cup Ids(r) \cup {h.op.id} = OnStacks
          /\ Apart(undo, redos) => Apart(u, r) /\ h.op.id \notin Ids(u) \cup Ids(r)
      BY <3>1 DEF Popped
    <3>3. h.op.id <= ops /\ h.op.id \in Nat
      BY <1>5, <2>2, <3>2, OpsId DEF Handlers, StackOps
    <3>4. op.id <= ops + 1
      BY <1>3, <3>1, <3>3
    <3> QED
      BY <1>4, <2>2, <3>1, <3>2, <3>3, <3>4
  <2> QED
    BY <2>1, <2>2
<1>7. IdsOK'
  <2>1. \A id \in OnStacks' : id <= ops'
    <3> TAKE id \in OnStacks'
    <3>1. id = ops + 1 \/ (id <= ops /\ id \in OnStacks)
      BY <1>5, <1>6
    <3>2. id \in OnStacks => id \in Nat
      BY OpsId DEF OnStacks, Ids, Inv, TypeOK, StoreOK, StackOps
    <3> QED
      BY <1>3, <3>1, <3>2
  <2>2. /\ \A i \in DOMAIN pending' : (i \in DOMAIN pending /\ pending'[i] = pending[i])
                                       \/ pending'[i].op = op
        /\ inFlight' \in {inFlight, NoEntry} \/ inFlight'.op = op
        /\ handler' \in {handler, h}
    <3>1. CASE op.type \in LocalOnly
      BY <1>2, <3>1
    <3>2. CASE op.type \notin LocalOnly /\ Busy
      <4>1. pending' = Append(pending, e) /\ UNCHANGED <<inFlight, handler>>
        BY <1>2, <3>2 DEF AddPendingOperation
      <4>2. pending \in Seq(Entries)
        BY DEF Inv, TypeOK, QueueOK
      <4> QED
        BY <4>1, <4>2
    <3>3. CASE op.type \notin LocalOnly /\ ~Busy
      <4>1. AddPendingOperation(op, h, t)
        BY <1>2, <3>3
      <4>2. /\ handler' = h /\ pending' = <<>>
            /\ inFlight' = e \/ inFlight' = NoEntry
        BY <3>3, <4>1 DEF AddPendingOperation, Send, Stop
      <4> QED
        BY <4>2
    <3> QED
      BY <3>1, <3>2, <3>3
  <2>3. op.id \in Nat /\ h.op.id \in Nat /\ NoEntry.op.id = 0
    BY OpsId DEF Handlers, StackOps, NoOp, NoEntry
  <2>4. \A i \in DOMAIN pending' : pending'[i].op.id <= ops'
    <3> TAKE i \in DOMAIN pending'
    <3>1. \/ pending'[i].op.id = op.id
          \/ pending'[i].op.id \in Nat /\ pending'[i].op.id <= ops
      BY <2>2, OpsId DEF StackInv, IdsOK
    <3> QED
      BY <1>3, <1>6, <2>3, <3>1
  <2>5. inFlight'.op.id <= ops' /\ handler'.op.id <= ops'
    <3>1. /\ inFlight.op.id \in Nat /\ inFlight.op.id <= ops
          /\ handler.op.id \in Nat /\ handler.op.id <= ops
      BY OpsId DEF StackInv, IdsOK
    <3>2. inFlight'.op.id \in {inFlight.op.id, 0, op.id}
      BY <2>2, <2>3
    <3>3. handler'.op.id \in {handler.op.id, h.op.id}
      BY <2>2
    <3> QED
      BY <1>3, <1>6, <2>3, <3>1, <3>2, <3>3
  <2> QED
    BY <2>1, <2>4, <2>5 DEF IdsOK
<1>8. ASSUME "hurried" \notin trouble'
      PROVE  Apart(undo', redos') /\ AnswersOK'
  <2>1. "hurried" \notin trouble /\ ~Hurries(op, h)
    BY <1>1, <1>8
  <2>2. Apart(undo, redos) /\ AnswersOK /\ IdsOK
    BY <2>1 DEF StackInv
  <2>3. CASE op.type \in LocalOnly
    BY <1>2, <1>6, <2>2, <2>3, SameAnswers
  <2>4. CASE op.type \notin LocalOnly
    <3>1. AddPendingOperation(op, h, t)
      BY <1>2, <2>4
    <3> HIDE DEF t
    <3> QED
      BY <1>6, <2>1, <2>2, <3>1, AddAnswers
  <2> QED
    BY <1>6, <2>2, <2>3, <2>4
<1> QED
  BY <1>7, <1>8 DEF StackInv

(* sendNextOperation takes operations from the front of the queue alone. *)
TakesFrom(d) ==
    /\ \A i \in DOMAIN pending' : i + d \in DOMAIN pending /\ pending'[i] = pending[i + d]
    /\ chain' = "waiting" => d \in DOMAIN pending /\ inFlight' = pending[d]
    /\ chain' # "waiting" => inFlight' = NoEntry

LEMMA StopTakes ==
    ASSUME NEW c \in {"idle", "wedged"}, NEW q, Stop(c, q), NEW d \in Nat,
           \A i \in DOMAIN q : i + d \in DOMAIN pending /\ q[i] = pending[i + d]
    PROVE  TakesFrom(d)
BY DEF Stop, TakesFrom

LEMMA SendNextTakes ==
    ASSUME pending \in Seq(Entries), NEW t, NEW caught \in BOOLEAN,
           SendNextOperation(t, caught)
    PROVE  \E d \in Nat : TakesFrom(d)
<1> DEFINE rest == Tail(pending)
<1>1. CASE pending = <<>>
  <2>1. Stop("idle", <<>>)
    BY <1>1 DEF SendNextOperation
  <2>2. TakesFrom(0)
    BY <2>1, StopTakes
  <2> QED
    BY <2>2
<1>2. ASSUME pending # <<>>
      PROVE  /\ rest \in Seq(Entries) /\ Head(pending) = pending[1] /\ 1 \in DOMAIN pending
             /\ \A i \in DOMAIN rest : i + 1 \in DOMAIN pending /\ rest[i] = pending[i + 1]
  BY <1>2
<1>3. ASSUME pending # <<>>, rest # <<>>
      PROVE  /\ Head(rest) = pending[2] /\ 2 \in DOMAIN pending
             /\ \A i \in DOMAIN Tail(rest) : /\ i + 2 \in DOMAIN pending
                                             /\ Tail(rest)[i] = pending[i + 2]
  <2>1. /\ Head(rest) = rest[1] /\ 1 \in DOMAIN rest
        /\ \A i \in DOMAIN Tail(rest) : /\ i \in Nat /\ i + 1 \in DOMAIN rest
                                        /\ Tail(rest)[i] = rest[i + 1]
    BY <1>2, <1>3
  <2>2. \A i \in Nat : (i + 1) + 1 = i + 2
    OBVIOUS
  <2> QED
    BY <1>2, <1>3, <2>1, <2>2
<1>4. CASE pending # <<>> /\ Sendable(Head(pending), t)
  <2>1. Send(Head(pending), Tail(pending))
    BY <1>4 DEF SendNextOperation
  <2>2. TakesFrom(1)
    BY <1>2, <1>4, <2>1 DEF Send, TakesFrom
  <2> QED
    BY <2>2
<1>5. CASE pending # <<>> /\ ~Sendable(Head(pending), t) /\ ~caught
  <2>1. Stop("wedged", rest)
    BY <1>5 DEF SendNextOperation
  <2>2. TakesFrom(1)
    BY <1>2, <1>5, <2>1, StopTakes
  <2> QED
    BY <2>2
<1>6. CASE pending # <<>> /\ ~Sendable(Head(pending), t) /\ caught /\ rest = <<>>
  <2>1. Stop("idle", <<>>)
    BY <1>6 DEF SendNextOperation
  <2>2. TakesFrom(0)
    BY <2>1, StopTakes
  <2> QED
    BY <2>2
<1>7. CASE pending # <<>> /\ ~Sendable(Head(pending), t) /\ caught /\ rest # <<>>
  <2>1. \/ Send(Head(rest), Tail(rest))
        \/ Stop("wedged", Tail(rest))
    BY <1>7 DEF SendNextOperation
  <2>2. Send(Head(rest), Tail(rest)) => TakesFrom(2)
    BY <1>3, <1>7 DEF Send, TakesFrom
  <2>3. Stop("wedged", Tail(rest)) => TakesFrom(2)
    BY <1>3, <1>7, StopTakes
  <2>4. TakesFrom(2)
    BY <2>1, <2>2, <2>3
  <2> QED
    BY <2>4
<1> QED
  BY <1>1, <1>4, <1>5, <1>6, <1>7

(* An answer brings what was under way to the stacks, and the next one under *)
(* way.                                                                    *)
LEMMA TakesAnswers ==
    ASSUME Inv, Inv', AnswersOK, NEW d \in Nat, TakesFrom(d), handler' = handler,
           NEW P, OnStacks' \subseteq OnStacks \cup P,
           handler.kind = "new" /\ P # {} => \A i \in DOMAIN pending : ~Inserts(pending[i])
    PROVE  AnswersOK'
<1>1. \A i \in DOMAIN pending' : i + d # d
  <2>1. DOMAIN pending' \subseteq Nat \ {0}
    BY DEF Inv, TypeOK, QueueOK
  <2> QED
    BY <2>1
<1>2. \A i, j \in DOMAIN pending' : i + d = j + d => i = j
  <2>1. DOMAIN pending' \subseteq Nat
    BY DEF Inv, TypeOK, QueueOK
  <2> QED
    BY <2>1
<1>3. \A i \in DOMAIN pending' : i + d \in DOMAIN pending /\ pending'[i] = pending[i + d]
  BY DEF TakesFrom
<1>4. chain' = "waiting" => d \in DOMAIN pending /\ inFlight' = pending[d]
  BY DEF TakesFrom
<1>5. \A i, j \in DOMAIN pending' :
          Inserts(pending'[i]) /\ Inserts(pending'[j]) => i = j
  BY <1>2, <1>3 DEF AnswersOK
<1>6. chain' = "waiting" /\ Inserts(inFlight') =>
          \A i \in DOMAIN pending' : ~Inserts(pending'[i])
  BY <1>1, <1>3, <1>4 DEF AnswersOK
<1>7. ASSUME handler.kind = "new"
      PROVE  \A i \in DOMAIN pending : Inserts(pending[i]) => pending[i].op.id \notin OnStacks'
  BY <1>7 DEF AnswersOK
<1>8. ASSUME handler.kind # "new"
      PROVE  /\ \A i \in DOMAIN pending' : ~Late(pending'[i])
             /\ chain' = "waiting" => ~Late(inFlight')
  BY <1>3, <1>4, <1>8 DEF AnswersOK
<1> QED
  BY <1>3, <1>4, <1>5, <1>6, <1>7, <1>8 DEF AnswersOK, Inserts, Late

LEMMA AnswerStacks ==
    ASSUME Inv, Inv', StackInv, Answer \/ AnswerError
    PROVE  StackInv'
<1> DEFINE op == inFlight.op
           late == Answer /\ op.type \in AfterServer
           P == IF late THEN Pushed(handler, op) ELSE {}
<1>1. PICK d \in Nat : TakesFrom(d)
  <2>1. CASE request = "lost" /\ inFlight.op.type = "rename_file" /\ AnswerError
    <3>1. Stop("wedged", pending)
      BY <2>1 DEF AnswerError
    <3>2. \A i \in DOMAIN pending : i + 0 = i
      BY DEF Inv, TypeOK, QueueOK
    <3>3. TakesFrom(0)
      BY <3>1, <3>2, StopTakes
    <3> QED
      BY <3>3
  <2>2. CASE ~(request = "lost" /\ inFlight.op.type = "rename_file" /\ AnswerError)
    <3>1. \E t, caught : caught \in BOOLEAN /\ SendNextOperation(t, caught)
      BY <2>2, Zenon DEF Answer, AnswerError
    <3> QED
      BY <3>1, SendNextTakes DEF Inv, TypeOK, QueueOK
  <2> QED
    BY <2>1, <2>2
<1>2. /\ UNCHANGED <<handler, ops>> /\ trouble \subseteq trouble'
      /\ "hurried" \in trouble' => "hurried" \in trouble
      /\ chain = "waiting"
      /\ late => /\ undo' = UndoAfter(handler, op, undo)
                 /\ redos' = RedosAfter(handler, redos)
      /\ ~late => UNCHANGED <<undo, redos>>
  BY DEF Answer, AnswerError, store, Inv, TypeOK, QueueOK
<1>3. op \in Ops /\ handler \in Handlers /\ (late /\ op.type \in Undoable => op \in StackOps)
      /\ (late /\ op.type \in Undoable => Inserts(inFlight))
  BY <1>2 DEF Inv, TypeOK, QueueOK, Entries, Handlers, AfterServer, Undoable, StackOps, Inserts
<1>4. /\ OnStacks' \subseteq OnStacks \cup P
      /\ Apart(undo, redos) /\ OnStacks \cap P = {} => Apart(undo', redos')
  BY <1>2, <1>3, StacksHold DEF OnStacks, Inv, TypeOK, StoreOK
<1>5. IdsOK'
  <2>1. ops' \in Nat /\ NoEntry.op.id = 0
    BY DEF Inv, TypeOK, ServerOK, NoEntry, NoOp
  <2>2. \A id \in OnStacks' : id <= ops'
    BY <1>2, <1>4 DEF StackInv, IdsOK, Pushed
  <2>3. inFlight'.op.id <= ops'
    BY <1>1, <1>2, <2>1 DEF StackInv, IdsOK, TakesFrom
  <2>4. \A i \in DOMAIN pending' : pending'[i].op.id <= ops'
    BY <1>1, <1>2 DEF StackInv, IdsOK, TakesFrom
  <2> QED
    BY <1>2, <2>2, <2>3, <2>4 DEF StackInv, IdsOK
<1>6. ASSUME "hurried" \notin trouble'
      PROVE  Apart(undo', redos') /\ AnswersOK'
  <2>1. Apart(undo, redos) /\ AnswersOK
    BY <1>2, <1>6 DEF StackInv
  <2>2. OnStacks \cap P = {}
    BY <1>2, <1>3, <2>1 DEF AnswersOK, Pushed, Late
  <2>3. handler.kind = "new" /\ P # {} => \A i \in DOMAIN pending : ~Inserts(pending[i])
    BY <1>2, <1>3, <2>1 DEF AnswersOK, Pushed
  <2> HIDE DEF P
  <2> QED
    BY <1>1, <1>2, <1>4, <2>1, <2>2, <2>3, TakesAnswers
<1> QED
  BY <1>5, <1>6 DEF StackInv

(* Nothing else touches the stacks or the queue. *)
LEMMA OthersStacks ==
    ASSUME StackInv, UNCHANGED <<undo, redos, queue, ops>>,
           "hurried" \in trouble => "hurried" \in trouble'
    PROVE  StackInv'
BY DEF StackInv, IdsOK, AnswersOK, OnStacks, queue

LEMMA NextStacks == Inv /\ Inv' /\ StackInv /\ [Next]_vars => StackInv'
<1> SUFFICES ASSUME Inv, Inv', StackInv, [Next]_vars PROVE StackInv'
  OBVIOUS
<1>1. CASE User
  BY <1>1, UserApplies, ApplyStacks DEF SomeApplies
<1>2. CASE Answers
  BY <1>2, AnswerStacks DEF Answers
<1>3. CASE ServerExecutes \/ RequestFails \/ TimerReloads \/ ServerReads \/ ReloadMetadata
  BY <1>3, OthersStacks DEF ServerExecutes, RequestFails, Execute, TimerReloads, ServerReads,
                            ReloadMetadata, store
<1>4. CASE UNCHANGED vars
  BY <1>4, OthersStacks DEF vars, store
<1> QED
  BY <1>1, <1>2, <1>3, <1>4 DEF Next, Finished

LEMMA InitStacks == Init => StackInv
<1> SUFFICES ASSUME Init PROVE StackInv
  OBVIOUS
<1>1. /\ undo = <<>> /\ redos = <<>> /\ pending = <<>> /\ chain = "idle" /\ ops = 0
      /\ inFlight.op.id = 0 /\ handler.op.id = 0 /\ handler.kind = "new"
  BY DEF Init, NoEntry, NoOp, New
<1> QED
  BY <1>1 DEF StackInv, IdsOK, AnswersOK, OnStacks, Apart, OnceEach, Ids

(* Stacks that have nothing in common and nothing twice have nothing twice  *)
(* one after the other.                                                    *)
LEMMA ApartMeansOnce ==
    ASSUME NEW S, NEW u \in Seq(S), NEW r \in Seq(S), Apart(u, r)
    PROVE  \A i, j \in DOMAIN (u \o r) : i # j => (u \o r)[i].id # (u \o r)[j].id
<1> DEFINE both == u \o r
<1>1. /\ Len(u) \in Nat /\ DOMAIN u = 1 .. Len(u)
      /\ Len(r) \in Nat /\ DOMAIN r = 1 .. Len(r)
      /\ DOMAIN both = 1 .. (Len(u) + Len(r))
      /\ \A i \in DOMAIN both : both[i] = IF i <= Len(u) THEN u[i] ELSE r[i - Len(u)]
  OBVIOUS
<1>2. \A i \in DOMAIN both : \/ i \in DOMAIN u /\ both[i] = u[i]
                             \/ i - Len(u) \in DOMAIN r /\ both[i] = r[i - Len(u)]
  BY <1>1
<1>3. \A i, j \in DOMAIN both : i - Len(u) = j - Len(u) => i = j
  BY <1>1
<1> HIDE DEF both
<1>4. \A i \in DOMAIN u, j \in DOMAIN r : u[i].id # r[j].id
  BY DEF Apart, Ids
<1>5. \A i, j \in DOMAIN both : both[i].id = both[j].id => i = j
  <2> SUFFICES ASSUME NEW i \in DOMAIN both, NEW j \in DOMAIN both, both[i].id = both[j].id
               PROVE  i = j
    OBVIOUS
  <2>1. CASE i \in DOMAIN u /\ both[i] = u[i]
    BY <1>2, <1>4, <2>1 DEF Apart, OnceEach
  <2>2. CASE i - Len(u) \in DOMAIN r /\ both[i] = r[i - Len(u)]
    <3> DEFINE m == i - Len(u)
               k == j - Len(u)
    <3>1. k \in DOMAIN r /\ both[j] = r[k]
      BY <1>2, <1>4, <2>2
    <3>2. m = k
      BY <2>2, <3>1 DEF Apart, OnceEach
    <3> QED
      BY <1>3, <3>2
  <2> QED
    BY <1>2, <2>1, <2>2
<1> QED
  BY <1>5 DEF both

(* Until something hurried, no operation is on the stacks twice, however    *)
(* many are undone, redone or still under way, and whatever fails.         *)
THEOREM StacksAreApart == Spec => []StacksHoldEachOnce
<1>1. Inv /\ StackInv => StacksHoldEachOnce
  <2> SUFFICES ASSUME Inv, StackInv, "hurried" \notin trouble
               PROVE  LET both == undo \o redos IN
                      \A i, j \in DOMAIN both : i # j => both[i].id # both[j].id
    BY DEF StacksHoldEachOnce
  <2>1. Apart(undo, redos) /\ undo \in Seq(StackOps) /\ redos \in Seq(StackOps)
    BY DEF StackInv, Inv, TypeOK, StoreOK
  <2> QED
    BY <2>1, ApartMeansOnce
<1> QED
  BY <1>1, Invariance, InitStacks, NextStacks, PTL DEF Spec

-----------------------------------------------------------------------------
(* The screen and the server: what the server makes of what it has still to *)
(* execute, a table for each operation, is what the browser shows once it   *)
(* knows the answers.                                                      *)

(* Executed and Refused of MetadataStore, for every table, when nothing is  *)
(* ignored                                                                 *)
Ran(t, op) == IF op.type = "duplicate_record" THEN [t EXCEPT ![op.new] = t[op.item]]
              ELSE Apply(t, op)

Refuses(t, op) ==
    IF op.type = "insert_column" THEN t[op.item] # Gone
    ELSE \/ op.type # "modify_records" /\ t[op.item] = Gone
         \/ op.type = "rename_file" /\ t[op.item].name # op.old

(* T holds the tables that the operations of q make of s, one by one. *)
Chain(T, s, q) ==
    /\ T \in [0 .. Len(q) -> Tables]
    /\ T[0] = s
    /\ \A k \in DOMAIN q : T[k] = Ran(T[k - 1], q[k].op)

Accepts(T, q) == \A k \in DOMAIN q : ~Refuses(T[k - 1], q[k].op)

InsertsAt(e, c) == Inserts(e) /\ e.op.item = c
Duplicates(e, c) == e.op.type = "duplicate_record" /\ e.op.new = c
Sorts(e) == e.op.type = "modify_sorts"

(* The table t that the server will have, the table d on the screen, the    *)
(* operations q whose answers are to come, and whether a reload is (more):  *)
(* rows are the same, a copy may be missing on the screen, a column too     *)
(* whose insertion is not answered, and so may the last change of sorting. *)
RowsAgree(t, d) == \A i \in Rows : t[i] = d[i]

CopiesAgree(t, d, q, more) ==
    \A c \in Copies :
        \/ t[c] = d[c]
        \/ d[c] = Gone /\ (more \/ \E k \in DOMAIN q : Duplicates(q[k], c))

ColumnsAgree(t, d, q) ==
    \A c \in Columns :
        /\ \A k \in DOMAIN q : InsertsAt(q[k], c) => d[c] = Gone /\ t[c] = q[k].op.new
        /\ (\A k \in DOMAIN q : ~InsertsAt(q[k], c)) => t[c] = d[c]

SortsDue(t, d, q) ==
    \/ /\ \A k \in DOMAIN q : ~Sorts(q[k])
       /\ t[View].sorts = d[View].sorts
    \/ \E k \in DOMAIN q : /\ Sorts(q[k]) /\ t[View].sorts = q[k].op.new
                           /\ \A j \in DOMAIN q : Sorts(q[j]) => j <= k

ViewAgrees(t, d, q) ==
    /\ t[View] \in FieldMaps /\ d[View] \in FieldMaps
    /\ \A f \in Fields \ {"sorts"} : t[View][f] = d[View][f]
    /\ SortsDue(t, d, q)

Agrees(t, d, q, more) == /\ RowsAgree(t, d)
                         /\ CopiesAgree(t, d, q, more)
                         /\ ColumnsAgree(t, d, q)
                         /\ ViewAgrees(t, d, q)

(* What is under way, then the queue *)
Unanswered == IF chain = "waiting" THEN <<inFlight>> \o pending ELSE pending
Unexecuted == IF request = "sent" THEN <<inFlight>> \o pending ELSE pending

Follows ==
    \E T : /\ Chain(T, server, Unexecuted)
           /\ Accepts(T, Unexecuted) =>
                  Agrees(T[Len(Unexecuted)], data, Unanswered, timer \/ reloads # <<>>)

(* A reload that has seen everything has the table of the server. *)
ReloadsKnow ==
    \A i \in DOMAIN reloads : reloads[i].read # <<>> =>
        /\ reloads[i].seen <= Len(executed)
        /\ reloads[i].seen = Len(executed) => Head(reloads[i].read) = server

InSync == /\ Len(executed) + Len(Unexecuted) = made
          /\ Follows

(* The server did not execute what is under way. *)
Missed == /\ request \in {"refused", "lost"}
          /\ Len(executed) + Len(Unexecuted) < made

SyncInv == /\ ReloadsKnow
           /\ \A k \in DOMAIN Unanswered : Aimed(Unanswered[k].op)
           /\ trouble = {} => chain # "wedged" /\ (InSync \/ Missed)

LEMMA RanType ==
    ASSUME NEW t \in Tables, NEW op \in Ops
    PROVE  Ran(t, op) \in Tables
<1>1. CASE op.type = "duplicate_record"
  <2>1. op.item \in Items
    BY <1>1 DEF Ops, FieldOps, FieldOf, WidthOps, LocalOnly, RecordOps, InsertOps, DeleteOps
  <2>2. t[op.item] \in FieldMaps \cup {Gone}
    BY <2>1 DEF Tables
  <2>3. [t EXCEPT ![op.new] = t[op.item]] \in Tables
    BY <2>2, SetItem, Zenon
  <2> QED
    BY <1>1, <2>3 DEF Ran
<1>2. CASE op.type # "duplicate_record"
  BY <1>2, ApplyType DEF Ran
<1> QED
  BY <1>1, <1>2

LEMMA ConsFacts ==
    ASSUME NEW e \in Entries, NEW q \in Seq(Entries)
    PROVE  /\ <<e>> \o q \in Seq(Entries)
           /\ Len(<<e>> \o q) = Len(q) + 1
           /\ (<<e>> \o q)[1] = e
           /\ \A k \in DOMAIN q : (<<e>> \o q)[k + 1] = q[k]
OBVIOUS

LEMMA AppendCons ==
    ASSUME NEW e \in Entries, NEW q \in Seq(Entries), NEW x \in Entries
    PROVE  Append(<<e>> \o q, x) = <<e>> \o Append(q, x)
OBVIOUS

(* One operation more: the server will execute it after the others. *)
LEMMA ChainLast ==
    ASSUME NEW q \in Seq(Entries), NEW e \in Entries, NEW T, NEW s, Chain(T, s, q)
    PROVE  \E U : /\ Chain(U, s, Append(q, e))
                  /\ U[Len(Append(q, e))] = Ran(T[Len(q)], e.op)
                  /\ Accepts(U, Append(q, e)) => /\ Accepts(T, q)
                                                 /\ ~Refuses(T[Len(q)], e.op)
<1> DEFINE n == Len(q)
           p == Append(q, e)
           U == [k \in 0 .. n + 1 |-> IF k <= n THEN T[k] ELSE Ran(T[n], e.op)]
<1>1. /\ n \in Nat /\ DOMAIN q = 1 .. n /\ DOMAIN p = 1 .. n + 1 /\ Len(p) = n + 1
      /\ p[n + 1] = e /\ \A k \in 1 .. n : p[k] = q[k]
  OBVIOUS
<1>2. /\ T \in [0 .. n -> Tables] /\ T[0] = s
      /\ \A k \in 1 .. n : T[k] = Ran(T[k - 1], q[k].op)
  BY <1>1 DEF Chain
<1>3. T[n] \in Tables /\ e.op \in Ops
  BY <1>1, <1>2 DEF Entries
<1>4. Ran(T[n], e.op) \in Tables
  BY <1>3, RanType
<1>5. U \in [0 .. n + 1 -> Tables] /\ U[n + 1] = Ran(T[n], e.op)
  BY <1>1, <1>2, <1>4
<1>6. \A k \in 0 .. n : U[k] = T[k]
  BY <1>1
<1>7. /\ \A k \in 1 .. n : k - 1 \in 0 .. n /\ k \in 0 .. n
      /\ n + 1 - 1 = n /\ n \in 0 .. n /\ 0 \in 0 .. n
      /\ \A k \in 1 .. n + 1 : k \in 1 .. n \/ k = n + 1
      /\ \A k \in 1 .. n : k \in 1 .. n + 1
      /\ n + 1 \in 1 .. n + 1
  BY <1>1
<1> HIDE DEF n, p, U
<1>8. \A k \in 1 .. n + 1 : U[k] = Ran(U[k - 1], p[k].op)
  <2> TAKE k \in 1 .. n + 1
  <2>1. CASE k \in 1 .. n
    BY <1>1, <1>2, <1>6, <1>7, <2>1
  <2>2. CASE k = n + 1
    BY <1>1, <1>5, <1>6, <1>7, <2>2
  <2> QED
    BY <1>7, <2>1, <2>2
<1>9. Chain(U, s, p)
  BY <1>1, <1>2, <1>5, <1>6, <1>7, <1>8 DEF Chain
<1>10. ASSUME Accepts(U, p) PROVE Accepts(T, q) /\ ~Refuses(T[n], e.op)
  <2>1. \A k \in 1 .. n + 1 : ~Refuses(U[k - 1], p[k].op)
    BY <1>1, <1>10 DEF Accepts
  <2>2. ~Refuses(T[n], e.op)
    BY <1>1, <1>6, <1>7, <2>1
  <2>3. \A k \in 1 .. n : ~Refuses(T[k - 1], q[k].op)
    BY <1>1, <1>6, <1>7, <2>1
  <2> QED
    BY <1>1, <2>2, <2>3 DEF Accepts
<1> QED
  BY <1>1, <1>5, <1>9, <1>10 DEF n, p

(* One operation less: the server executed the first. *)
LEMMA ChainFirst ==
    ASSUME NEW q \in Seq(Entries), NEW e \in Entries, NEW T, NEW s,
           Chain(T, s, <<e>> \o q)
    PROVE  \E U : /\ Chain(U, Ran(s, e.op), q)
                  /\ U[Len(q)] = T[Len(<<e>> \o q)]
                  /\ Accepts(U, q) /\ ~Refuses(s, e.op) => Accepts(T, <<e>> \o q)
<1> DEFINE n == Len(q)
           p == <<e>> \o q
           U == [k \in 0 .. n |-> T[k + 1]]
<1>1. /\ n \in Nat /\ DOMAIN q = 1 .. n /\ DOMAIN p = 1 .. n + 1 /\ Len(p) = n + 1
      /\ p[1] = e /\ \A k \in 1 .. n : p[k + 1] = q[k]
  BY ConsFacts
<1>2. /\ T \in [0 .. n + 1 -> Tables] /\ T[0] = s
      /\ \A k \in 1 .. n + 1 : T[k] = Ran(T[k - 1], p[k].op)
  BY <1>1 DEF Chain
<1>3. /\ \A k \in 1 .. n : /\ k + 1 \in 1 .. n + 1 /\ k + 1 - 1 = k
                           /\ k - 1 \in 0 .. n /\ k - 1 + 1 = k /\ k \in 0 .. n
      /\ 1 \in 1 .. n + 1 /\ 1 - 1 = 0 /\ 0 + 1 = 1 /\ 0 \in 0 .. n /\ n \in 0 .. n
      /\ \A k \in 1 .. n + 1 : k = 1 \/ (k - 1 \in 1 .. n /\ k - 1 + 1 = k)
  BY <1>1
<1>4. U \in [0 .. n -> Tables] /\ \A k \in 0 .. n : U[k] = T[k + 1]
  BY <1>1, <1>2
<1> HIDE DEF n, p, U
<1>5. \A k \in 1 .. n : U[k] = Ran(U[k - 1], q[k].op)
  <2> TAKE k \in 1 .. n
  <2>1. /\ k + 1 \in 1 .. n + 1 /\ k + 1 - 1 = k
        /\ k - 1 \in 0 .. n /\ k - 1 + 1 = k /\ k \in 0 .. n
    BY <1>3
  <2>2. U[k] = T[k + 1] /\ U[k - 1] = T[k]
    BY <1>4, <2>1
  <2>3. T[k + 1] = Ran(T[k], p[k + 1].op)
    BY <1>2, <2>1
  <2>4. p[k + 1] = q[k]
    BY <1>1
  <2> QED
    BY <2>2, <2>3, <2>4
<1>6. U[0] = Ran(s, e.op)
  BY <1>1, <1>2, <1>3, <1>4
<1>7. Chain(U, Ran(s, e.op), q)
  BY <1>1, <1>4, <1>5, <1>6 DEF Chain
<1>8. ASSUME Accepts(U, q), ~Refuses(s, e.op) PROVE Accepts(T, p)
  <2>1. \A k \in 1 .. n : ~Refuses(U[k - 1], q[k].op)
    BY <1>1, <1>8 DEF Accepts
  <2>2. \A k \in 1 .. n : ~Refuses(T[k], p[k + 1].op)
    BY <1>1, <1>3, <1>4, <2>1
  <2>3. ~Refuses(T[1 - 1], p[1].op)
    BY <1>1, <1>2, <1>3, <1>8
  <2>4. \A k \in 1 .. n + 1 : ~Refuses(T[k - 1], p[k].op)
    BY <1>3, <2>2, <2>3
  <2> QED
    BY <1>1, <2>4 DEF Accepts
<1> QED
  BY <1>1, <1>3, <1>4, <1>7, <1>8 DEF n, p

(* What operations have for their items and values *)
LEMMA OpKinds ==
    ASSUME NEW op \in Ops
    PROVE  /\ op.type \in DOMAIN FieldOf =>
                  /\ op.item \in Items /\ op.new \in Values
                  /\ FieldOf[op.type] \in Fields
                  /\ FieldOf[op.type] = "sorts" <=> op.type = "modify_sorts"
           /\ op.type = "insert_column" => op.item \in Columns /\ op.new \in FieldMaps
           /\ op.type = "delete_column" => op.item \in Columns
           /\ op.type \in DOMAIN FieldOf \cup LocalOnly
                  \cup {"insert_column", "delete_column", "delete_records", "duplicate_record"}
<1>1. CASE op \in FieldOps
  BY <1>1 DEF FieldOps, FieldOf, Fields
<1>2. CASE op \in WidthOps
  BY <1>2 DEF WidthOps, LocalOnly, FieldOf
<1>3. CASE op \in RecordOps
  BY <1>3 DEF RecordOps, FieldOf
<1>4. CASE op \in InsertOps
  BY <1>4 DEF InsertOps, FieldOf
<1>5. CASE op \in DeleteOps
  BY <1>5 DEF DeleteOps, FieldOf
<1> QED
  BY <1>1, <1>2, <1>3, <1>4, <1>5 DEF Ops

(* An operation more in the queue *)
LEMMA AppendFacts ==
    ASSUME NEW q \in Seq(Entries), NEW e \in Entries
    PROVE  /\ \A k \in DOMAIN q : /\ k \in DOMAIN Append(q, e)
                                  /\ Append(q, e)[k] = q[k]
                                  /\ k <= Len(q) + 1
           /\ Len(q) + 1 \in DOMAIN Append(q, e) /\ Append(q, e)[Len(q) + 1] = e
           /\ \A k \in DOMAIN Append(q, e) :
                  \/ k \in DOMAIN q /\ Append(q, e)[k] = q[k]
                  \/ k = Len(q) + 1 /\ Append(q, e)[k] = e
           /\ Len(q) + 1 <= Len(q) + 1
OBVIOUS

LEMMA CopiesLater ==
    ASSUME NEW q \in Seq(Entries), NEW e \in Entries, NEW more \in BOOLEAN,
           NEW t, NEW d, NEW t2, NEW d2, CopiesAgree(t, d, q, more),
           \A c \in Copies : \/ t2[c] = d2[c]
                             \/ d2[c] = Gone /\ t[c] # d[c]
                             \/ d2[c] = Gone /\ Duplicates(e, c)
    PROVE  CopiesAgree(t2, d2, Append(q, e), more)
<1> DEFINE p == Append(q, e)
<1>1. /\ \A k \in DOMAIN q : k \in DOMAIN p /\ p[k] = q[k]
      /\ \E k \in DOMAIN p : p[k] = e
  BY AppendFacts
<1> HIDE DEF p
<1>2. CopiesAgree(t2, d2, p, more)
  BY <1>1 DEF CopiesAgree
<1> QED
  BY <1>2 DEF p

LEMMA ColumnsLater ==
    ASSUME NEW q \in Seq(Entries), NEW e \in Entries, ~Inserts(e),
           NEW t, NEW d, NEW t2, NEW d2, ColumnsAgree(t, d, q),
           \A c \in Columns :
               \/ t2[c] = t[c] /\ d2[c] = d[c]
               \/ t2[c] = d2[c] /\ \A k \in DOMAIN q : ~InsertsAt(q[k], c)
    PROVE  ColumnsAgree(t2, d2, Append(q, e))
<1> DEFINE p == Append(q, e)
<1>1. /\ \A k \in DOMAIN q : k \in DOMAIN p /\ p[k] = q[k]
      /\ \A k \in DOMAIN p : (k \in DOMAIN q /\ p[k] = q[k]) \/ p[k] = e
  BY AppendFacts
<1>2. \A c : ~InsertsAt(e, c)
  BY DEF InsertsAt
<1> HIDE DEF p
<1>3. ColumnsAgree(t2, d2, p)
  BY <1>1, <1>2 DEF ColumnsAgree
<1> QED
  BY <1>3 DEF p

LEMMA SortsLater ==
    ASSUME NEW q \in Seq(Entries), NEW e \in Entries, NEW t, NEW d, NEW t2, NEW d2,
           \/ /\ ~Sorts(e) /\ SortsDue(t, d, q)
              /\ t2[View].sorts = t[View].sorts /\ d2[View].sorts = d[View].sorts
           \/ Sorts(e) /\ t2[View].sorts = e.op.new
    PROVE  SortsDue(t2, d2, Append(q, e))
<1> DEFINE p == Append(q, e)
           n == Len(q) + 1
<1>1. /\ \A k \in DOMAIN q : k \in DOMAIN p /\ p[k] = q[k] /\ k <= n
      /\ n \in DOMAIN p /\ p[n] = e /\ n <= n
      /\ \A k \in DOMAIN p : (k \in DOMAIN q /\ p[k] = q[k]) \/ (k = n /\ p[k] = e)
  BY AppendFacts
<1> HIDE DEF p, n
<1>2. CASE Sorts(e) /\ t2[View].sorts = e.op.new
  <2>1. \A j \in DOMAIN p : j <= n
    BY <1>1
  <2>2. Sorts(p[n]) /\ t2[View].sorts = p[n].op.new
    BY <1>1, <1>2
  <2> QED
    BY <1>1, <2>1, <2>2 DEF SortsDue, p
<1>3. CASE /\ ~Sorts(e) /\ SortsDue(t, d, q)
           /\ t2[View].sorts = t[View].sorts /\ d2[View].sorts = d[View].sorts
  <2>1. CASE /\ \A k \in DOMAIN q : ~Sorts(q[k])
             /\ t[View].sorts = d[View].sorts
    <3>1. \A k \in DOMAIN p : ~Sorts(p[k])
      BY <1>1, <1>3, <2>1
    <3> QED
      BY <1>3, <2>1, <3>1 DEF SortsDue, p
  <2>2. CASE \E k \in DOMAIN q : /\ Sorts(q[k]) /\ t[View].sorts = q[k].op.new
                                 /\ \A j \in DOMAIN q : Sorts(q[j]) => j <= k
    <3>1. PICK k \in DOMAIN q : /\ Sorts(q[k]) /\ t[View].sorts = q[k].op.new
                                /\ \A j \in DOMAIN q : Sorts(q[j]) => j <= k
      BY <2>2
    <3>2. \A j \in DOMAIN p : Sorts(p[j]) => j <= k
      BY <1>1, <1>3, <3>1
    <3>3. k \in DOMAIN p /\ Sorts(p[k]) /\ t2[View].sorts = p[k].op.new
      BY <1>1, <1>3, <3>1
    <3> QED
      BY <3>2, <3>3 DEF SortsDue, p
  <2> QED
    BY <1>3, <2>1, <2>2 DEF SortsDue
<1> QED
  BY <1>2, <1>3

(* The kinds of items have nothing in common. *)
LEMMA Kinds ==
    /\ \A i \in Rows : i \notin Copies /\ i \notin Columns /\ i # View /\ i \in Items
    /\ \A i \in Copies : i \notin Rows /\ i \notin Columns /\ i # View /\ i \in Items
    /\ \A i \in Columns : i \notin Rows /\ i \notin Copies /\ i # View /\ i \in Items
    /\ View \in Items
BY KindsAssumption DEF Items

(* What is left of an item when column c is deleted *)
Stripped(m, c, i) == IF i \in Holders(c) /\ m # Gone THEN WithoutCell(m) ELSE m

LEMMA WithoutColumnAt ==
    ASSUME NEW t, NEW c \in Columns
    PROVE  /\ WithoutColumn(t, c)[c] = Gone
           /\ \A j \in Items : j # c => WithoutColumn(t, c)[j] = Stripped(t[j], c, j)
           /\ \A j \in Columns \cup {View} : j # c => WithoutColumn(t, c)[j] = t[j]
<1>1. c \in Items /\ \A j \in Columns \cup {View} : j \in Items /\ j \notin Holders(c)
  BY Kinds DEF Holders
<1> QED
  BY <1>1 DEF WithoutColumn, Stripped

(* A field is set in both tables, of an item that is there or of none. *)
LEMMA SetAgrees ==
    ASSUME NEW q \in Seq(Entries), NEW e \in Entries, NEW more \in BOOLEAN,
           NEW t \in Tables, NEW d \in Tables, Agrees(t, d, q, more),
           e.op.type \in DOMAIN FieldOf, e.op.type # "modify_sorts",
           e.op.item \in Columns => \A k \in DOMAIN q : ~InsertsAt(q[k], e.op.item)
    PROVE  Agrees(Apply(t, e.op), Apply(d, e.op), Append(q, e), more)
<1> DEFINE i == e.op.item
           f == FieldOf[e.op.type]
           v == e.op.new
           t2 == Apply(t, e.op)
           d2 == Apply(d, e.op)
<1>1. /\ e.op \in Ops /\ i \in Items /\ v \in Values /\ f \in Fields /\ f # "sorts"
      /\ ~Inserts(e) /\ ~Sorts(e)
  BY OpKinds DEF Entries, Inserts, Sorts, FieldOf
<1>2. /\ t2 = IF t[i] = Gone THEN t ELSE [t EXCEPT ![i][f] = v]
      /\ d2 = IF d[i] = Gone THEN d ELSE [d EXCEPT ![i][f] = v]
  <2>1. \A s : Apply(s, e.op) = IF s[i] = Gone THEN s ELSE [s EXCEPT ![i][f] = v]
    BY DEF Apply, FieldOf
  <2> QED
    BY <2>1
<1>3. /\ \A j \in Items : j # i => t2[j] = t[j] /\ d2[j] = d[j]
      /\ t2[i] = IF t[i] = Gone THEN Gone ELSE [t[i] EXCEPT ![f] = v]
      /\ d2[i] = IF d[i] = Gone THEN Gone ELSE [d[i] EXCEPT ![f] = v]
  BY <1>1, <1>2 DEF Tables
<1> HIDE DEF t2, d2, f, v, i
<1>4. d[i] = t[i] => d2[i] = t2[i]
  BY <1>3 DEF i
<1>5. RowsAgree(t2, d2)
  BY <1>3, <1>4, Kinds DEF Agrees, RowsAgree
<1>6. CopiesAgree(t2, d2, Append(q, e), more)
  <2>1. \A c \in Copies : t2[c] = d2[c] \/ (d2[c] = Gone /\ t[c] # d[c])
    BY <1>3, <1>4, Kinds DEF Agrees, CopiesAgree
  <2> QED
    BY <2>1, CopiesLater DEF Agrees
<1>7. ColumnsAgree(t2, d2, Append(q, e))
  <2>1. i \in Columns => /\ t2[i] = d2[i]
                         /\ \A k \in DOMAIN q : ~InsertsAt(q[k], i)
    BY <1>4 DEF Agrees, ColumnsAgree, i
  <2>2. \A c \in Columns : \/ t2[c] = t[c] /\ d2[c] = d[c]
                           \/ t2[c] = d2[c] /\ \A k \in DOMAIN q : ~InsertsAt(q[k], c)
    BY <1>3, <2>1, Kinds
  <2> QED
    BY <1>1, <2>2, ColumnsLater DEF Agrees
<1>8. ViewAgrees(t2, d2, Append(q, e))
  <2>1. /\ t[View] \in FieldMaps /\ d[View] \in FieldMaps /\ SortsDue(t, d, q)
        /\ \A g \in Fields \ {"sorts"} : t[View][g] = d[View][g]
        /\ "sorts" \in Fields
    BY DEF Agrees, ViewAgrees, Fields
  <2>2. CASE i # View
    <3>1. t2[View] = t[View] /\ d2[View] = d[View]
      BY <1>3, <2>2, Kinds
    <3> QED
      BY <1>1, <2>1, <3>1, SortsLater DEF ViewAgrees
  <2>3. CASE i = View
    <3>1. d[View] # Gone /\ t[View] # Gone
      BY <2>1, GoneAssumption DEF FieldMaps
    <3>2. t2[View] = [t[View] EXCEPT ![f] = v] /\ d2[View] = [d[View] EXCEPT ![f] = v]
      BY <1>3, <2>3, <3>1
    <3>3. t2[View] \in FieldMaps /\ d2[View] \in FieldMaps
      BY <1>1, <2>1, <3>2 DEF FieldMaps
    <3>4. \A g \in Fields \ {"sorts"} : t2[View][g] = d2[View][g]
      BY <1>1, <2>1, <3>2 DEF FieldMaps
    <3>5. t2[View].sorts = t[View].sorts /\ d2[View].sorts = d[View].sorts
      BY <1>1, <2>1, <3>2 DEF FieldMaps
    <3> QED
      BY <1>1, <2>1, <3>3, <3>4, <3>5, SortsLater DEF ViewAgrees
  <2> QED
    BY <2>2, <2>3
<1> QED
  BY <1>5, <1>6, <1>7, <1>8 DEF Agrees, t2, d2

(* A change of sorting reaches the screen with its answer. *)
LEMMA SortAgrees ==
    ASSUME NEW q \in Seq(Entries), NEW e \in Entries, NEW more \in BOOLEAN,
           NEW t \in Tables, NEW d \in Tables, Agrees(t, d, q, more),
           e.op.type = "modify_sorts", e.op.item = View
    PROVE  Agrees(Apply(t, e.op), d, Append(q, e), more)
<1> DEFINE v == e.op.new
           t2 == Apply(t, e.op)
<1>1. /\ e.op \in Ops /\ v \in Values /\ "sorts" \in Fields /\ ~Inserts(e) /\ Sorts(e)
  BY OpKinds DEF Entries, Inserts, Sorts, FieldOf, Fields
<1>2. t[View] \in FieldMaps /\ t[View] # Gone /\ d[View] \in FieldMaps
  BY GoneAssumption DEF Agrees, ViewAgrees, FieldMaps
<1>3. t2 = [t EXCEPT ![View]["sorts"] = v]
  BY <1>2 DEF Apply, FieldOf
<1>4. /\ \A j \in Items : j # View => t2[j] = t[j]
      /\ t2[View] = [t[View] EXCEPT !["sorts"] = v]
  BY <1>3, Kinds DEF Tables
<1> HIDE DEF t2
<1>5. RowsAgree(t2, d)
  BY <1>4, Kinds DEF Agrees, RowsAgree
<1>6. CopiesAgree(t2, d, Append(q, e), more)
  <2>1. \A c \in Copies : t2[c] = d[c] \/ (d[c] = Gone /\ t[c] # d[c])
    BY <1>4, Kinds DEF Agrees, CopiesAgree
  <2> QED
    BY <2>1, CopiesLater DEF Agrees
<1>7. ColumnsAgree(t2, d, Append(q, e))
  <2>1. \A c \in Columns : t2[c] = t[c]
    BY <1>4, Kinds
  <2> QED
    BY <1>1, <2>1, ColumnsLater DEF Agrees
<1>8. ViewAgrees(t2, d, Append(q, e))
  <2>1. t2[View] \in FieldMaps /\ t2[View].sorts = v
    BY <1>1, <1>2, <1>4 DEF FieldMaps
  <2>2. \A g \in Fields \ {"sorts"} : t2[View][g] = d[View][g]
    BY <1>2, <1>4 DEF FieldMaps, Agrees, ViewAgrees
  <2> QED
    BY <1>1, <1>2, <2>1, <2>2, SortsLater DEF ViewAgrees
<1> QED
  BY <1>5, <1>6, <1>7, <1>8 DEF Agrees, t2

(* A row or a column is deleted from both tables. *)
LEMMA DeleteAgrees ==
    ASSUME NEW q \in Seq(Entries), NEW e \in Entries, NEW more \in BOOLEAN,
           NEW t \in Tables, NEW d \in Tables, Agrees(t, d, q, more),
           e.op.type \in {"delete_records", "delete_column"}, Aimed(e.op),
           e.op.item \in Columns => \A k \in DOMAIN q : ~InsertsAt(q[k], e.op.item)
    PROVE  Agrees(Apply(t, e.op), Apply(d, e.op), Append(q, e), more)
<1> DEFINE i == e.op.item
           t2 == Apply(t, e.op)
           d2 == Apply(d, e.op)
<1>1. /\ e.op \in Ops /\ i \in Rows \cup Copies \cup Columns
      /\ ~Inserts(e) /\ ~Sorts(e)
  BY OpKinds DEF Entries, Inserts, Sorts, Aimed
<1>2. /\ t2[i] = d2[i]
      /\ \A j \in Columns \cup {View} : j # i => t2[j] = t[j] /\ d2[j] = d[j]
      /\ \A j \in Rows \cup Copies :
             \/ t2[j] = Gone /\ d2[j] = Gone
             \/ t2[j] = t[j] /\ d2[j] = d[j]
             \/ t2[j] = Stripped(t[j], i, j) /\ d2[j] = Stripped(d[j], i, j)
  <2>1. CASE e.op.type = "delete_records"
    <3>1. t2 = [t EXCEPT ![i] = Gone] /\ d2 = [d EXCEPT ![i] = Gone]
      BY <2>1 DEF Apply, FieldOf
    <3> QED
      BY <1>1, <3>1, Kinds DEF Tables
  <2>2. CASE e.op.type = "delete_column"
    <3>1. i \in Columns /\ t[i] = d[i]
      BY <1>1, <2>2, OpKinds DEF Agrees, ColumnsAgree
    <3>2. /\ t2 = IF t[i] = Gone THEN t ELSE WithoutColumn(t, i)
          /\ d2 = IF d[i] = Gone THEN d ELSE WithoutColumn(d, i)
      BY <2>2 DEF Apply, FieldOf
    <3> HIDE DEF t2, d2, i
    <3>3. CASE t[i] = Gone
      BY <3>1, <3>2, <3>3
    <3>4. CASE t[i] # Gone
      <4>1. t2 = WithoutColumn(t, i) /\ d2 = WithoutColumn(d, i)
        BY <3>1, <3>2, <3>4
      <4> QED
        BY <3>1, <4>1, WithoutColumnAt, Kinds
    <3> QED
      BY <3>3, <3>4
  <2> QED
    BY <2>1, <2>2
<1>3. /\ \A j \in Columns \cup {View} : j # i => t2[j] = t[j] /\ d2[j] = d[j]
      /\ \A j \in Rows \cup Copies :
             /\ t[j] = d[j] => t2[j] = d2[j]
             /\ d[j] = Gone => d2[j] = Gone
      /\ t2[i] = d2[i]
  BY <1>2 DEF Stripped
<1> HIDE DEF t2, d2, i
<1>4. RowsAgree(t2, d2)
  <2>1. ASSUME NEW j \in Rows PROVE t2[j] = d2[j]
    <3>1. j \in Rows \cup Copies /\ t[j] = d[j]
      BY DEF Agrees, RowsAgree
    <3> QED
      BY <1>3, <3>1
  <2> QED
    BY <2>1 DEF RowsAgree
<1>5. CopiesAgree(t2, d2, Append(q, e), more)
  <2>1. ASSUME NEW c \in Copies
        PROVE  t2[c] = d2[c] \/ (d2[c] = Gone /\ t[c] # d[c])
    <3>1. /\ c \in Rows \cup Copies
          /\ t[c] = d[c] \/ d[c] = Gone
      BY DEF Agrees, CopiesAgree
    <3> QED
      BY <1>3, <3>1
  <2> QED
    BY <2>1, CopiesLater DEF Agrees
<1>6. ColumnsAgree(t2, d2, Append(q, e))
  <2>1. \A c \in Columns : \/ t2[c] = t[c] /\ d2[c] = d[c]
                           \/ t2[c] = d2[c] /\ \A k \in DOMAIN q : ~InsertsAt(q[k], c)
    BY <1>3, Kinds DEF i
  <2> QED
    BY <1>1, <2>1, ColumnsLater DEF Agrees
<1>7. ViewAgrees(t2, d2, Append(q, e))
  <2>1. t2[View] = t[View] /\ d2[View] = d[View]
    BY <1>1, <1>3, Kinds
  <2> QED
    BY <1>1, <2>1, SortsLater DEF ViewAgrees, Agrees
<1> QED
  BY <1>4, <1>5, <1>6, <1>7 DEF Agrees, t2, d2

(* A copy of a row reaches the screen with a reload. *)
LEMMA DuplicateAgrees ==
    ASSUME NEW q \in Seq(Entries), NEW e \in Entries, NEW more \in BOOLEAN,
           NEW t \in Tables, NEW d \in Tables, Agrees(t, d, q, more),
           e.op.type = "duplicate_record", Aimed(e.op), d[e.op.new] = Gone
    PROVE  Agrees(Ran(t, e.op), d, Append(q, e), more)
<1> DEFINE i == e.op.new
           t2 == Ran(t, e.op)
<1>1. /\ i \in Copies /\ ~Inserts(e) /\ ~Sorts(e) /\ Duplicates(e, i)
  BY DEF Inserts, Sorts, Aimed, Duplicates
<1>2. t2 = [t EXCEPT ![i] = t[e.op.item]]
  BY DEF Ran
<1>3. \A j \in Items : j # i => t2[j] = t[j]
  BY <1>2 DEF Tables
<1> HIDE DEF t2
<1>4. RowsAgree(t2, d)
  BY <1>1, <1>3, Kinds DEF Agrees, RowsAgree
<1>5. CopiesAgree(t2, d, Append(q, e), more)
  <2>1. \A c \in Copies : \/ t2[c] = d[c]
                          \/ d[c] = Gone /\ t[c] # d[c]
                          \/ d[c] = Gone /\ Duplicates(e, c)
    BY <1>1, <1>3, Kinds DEF Agrees, CopiesAgree
  <2> QED
    BY <2>1, CopiesLater DEF Agrees
<1>6. ColumnsAgree(t2, d, Append(q, e))
  <2>1. \A c \in Columns : t2[c] = t[c]
    BY <1>1, <1>3, Kinds
  <2> QED
    BY <1>1, <2>1, ColumnsLater DEF Agrees
<1>7. ViewAgrees(t2, d, Append(q, e))
  <2>1. t2[View] = t[View]
    BY <1>1, <1>3, Kinds
  <2> QED
    BY <1>1, <2>1, SortsLater DEF ViewAgrees, Agrees
<1> QED
  BY <1>4, <1>5, <1>6, <1>7 DEF Agrees, t2

(* A column reaches the screen with the answer of its insertion. *)
LEMMA InsertAgrees ==
    ASSUME NEW q \in Seq(Entries), NEW e \in Entries, NEW more \in BOOLEAN,
           NEW t \in Tables, NEW d \in Tables, Agrees(t, d, q, more),
           e.op.type = "insert_column", t[e.op.item] = Gone,
           \A k \in DOMAIN q : ~Inserts(q[k])
    PROVE  Agrees(Apply(t, e.op), d, Append(q, e), more)
<1> DEFINE i == e.op.item
           t2 == Apply(t, e.op)
<1>1. /\ e.op \in Ops /\ i \in Columns /\ ~Sorts(e) /\ Inserts(e)
      /\ \A c : InsertsAt(e, c) <=> c = i
  BY OpKinds DEF Entries, Inserts, Sorts, InsertsAt
<1>2. t2 = [t EXCEPT ![i] = e.op.new]
  BY DEF Apply, FieldOf
<1>3. (\A j \in Items : j # i => t2[j] = t[j]) /\ t2[i] = e.op.new
  BY <1>1, <1>2, Kinds DEF Tables
<1>4. \A c \in Columns : t[c] = d[c]
  BY DEF Agrees, ColumnsAgree, InsertsAt
<1>5. d[i] = Gone
  BY <1>1, <1>4
<1> HIDE DEF t2, i
<1>6. RowsAgree(t2, d)
  BY <1>1, <1>3, Kinds DEF Agrees, RowsAgree
<1>7. CopiesAgree(t2, d, Append(q, e), more)
  <2>1. \A c \in Copies : t2[c] = d[c] \/ (d[c] = Gone /\ t[c] # d[c])
    BY <1>1, <1>3, Kinds DEF Agrees, CopiesAgree
  <2> QED
    BY <2>1, CopiesLater DEF Agrees
<1>8. ColumnsAgree(t2, d, Append(q, e))
  <2> DEFINE p == Append(q, e)
  <2>1. /\ \A k \in DOMAIN p : (k \in DOMAIN q /\ p[k] = q[k]) \/ p[k] = e
        /\ \E k \in DOMAIN p : p[k] = e
    BY AppendFacts
  <2> HIDE DEF p
  <2>2. \A k \in DOMAIN p : \A c : InsertsAt(p[k], c) <=> p[k] = e /\ c = i
    BY <1>1, <2>1 DEF InsertsAt
  <2>3. \A c \in Columns : c # i => t2[c] = d[c]
    BY <1>3, <1>4, Kinds
  <2>4. ColumnsAgree(t2, d, p)
    BY <1>3, <1>5, <2>1, <2>2, <2>3 DEF ColumnsAgree
  <2> QED
    BY <2>4 DEF p
<1>9. ViewAgrees(t2, d, Append(q, e))
  <2>1. t2[View] = t[View]
    BY <1>1, <1>3, Kinds
  <2> QED
    BY <1>1, <2>1, SortsLater DEF ViewAgrees, Agrees
<1> QED
  BY <1>6, <1>7, <1>8, <1>9 DEF Agrees, t2

(* applyOperation: the server will not refuse op, and no column is on its   *)
(* way that op could miss.                                                 *)
LEMMA AppliedAgrees ==
    ASSUME NEW q \in Seq(Entries), NEW e \in Entries, NEW more \in BOOLEAN,
           NEW t \in Tables, NEW d \in Tables, Agrees(t, d, q, more),
           ~Refuses(t, e.op), Aimed(e.op), e.op.type \notin LocalOnly,
           e.op.type = "insert_column" => \A k \in DOMAIN q : ~Inserts(q[k]),
           e.op.type \notin AfterServer /\ e.op.item \in Columns =>
               \A k \in DOMAIN q : ~InsertsAt(q[k], e.op.item),
           e.op.type = "duplicate_record" => d[e.op.new] = Gone
    PROVE  Agrees(Ran(t, e.op), IF e.op.type \in AfterServer THEN d ELSE Apply(d, e.op),
                  Append(q, e), more)
<1>1. e.op \in Ops
  BY DEF Entries
<1>2. CASE e.op.type \in DOMAIN FieldOf /\ e.op.type # "modify_sorts"
  <2>1. e.op.type \notin AfterServer \cup {"duplicate_record", "insert_column"}
    BY <1>2 DEF AfterServer, FieldOf
  <2> QED
    BY <1>2, <2>1, SetAgrees DEF Ran
<1>3. CASE e.op.type = "modify_sorts"
  BY <1>3, SortAgrees DEF Ran, AfterServer, Aimed
<1>4. CASE e.op.type \in {"delete_records", "delete_column"}
  <2>1. e.op.type \notin AfterServer \cup {"duplicate_record"}
    BY <1>4 DEF AfterServer
  <2> QED
    BY <1>4, <2>1, DeleteAgrees DEF Ran
<1>5. CASE e.op.type = "duplicate_record"
  BY <1>5, DuplicateAgrees DEF AfterServer
<1>6. CASE e.op.type = "insert_column"
  BY <1>6, InsertAgrees DEF Ran, AfterServer, Refuses
<1> QED
  BY <1>1, <1>2, <1>3, <1>4, <1>5, <1>6, OpKinds

(* An operation less in front of the queue *)
LEMMA FrontFacts ==
    ASSUME NEW q \in Seq(Entries), NEW e \in Entries
    PROVE  /\ 1 \in DOMAIN (<<e>> \o q) /\ (<<e>> \o q)[1] = e
           /\ \A k \in DOMAIN q : k + 1 \in DOMAIN (<<e>> \o q) /\ (<<e>> \o q)[k + 1] = q[k]
           /\ \A k \in DOMAIN (<<e>> \o q) :
                  \/ k = 1
                  \/ k - 1 \in DOMAIN q /\ k - 1 + 1 = k
           /\ \A k, j \in DOMAIN q : k + 1 <= j + 1 => k <= j
           /\ \A k \in DOMAIN q : ~(k + 1 <= 1)
OBVIOUS

LEMMA SortsSooner ==
    ASSUME NEW q \in Seq(Entries), NEW e \in Entries, NEW t, NEW d, NEW d2,
           SortsDue(t, d, <<e>> \o q),
           ~Sorts(e) => d2[View].sorts = d[View].sorts,
           Sorts(e) => d2[View].sorts = e.op.new
    PROVE  SortsDue(t, d2, q)
<1> DEFINE p == <<e>> \o q
<1>1. /\ 1 \in DOMAIN p /\ p[1] = e
      /\ \A k \in DOMAIN q : k + 1 \in DOMAIN p /\ p[k + 1] = q[k]
      /\ \A k \in DOMAIN p : k = 1 \/ (k - 1 \in DOMAIN q /\ k - 1 + 1 = k)
      /\ \A k, j \in DOMAIN q : k + 1 <= j + 1 => k <= j
      /\ \A k \in DOMAIN q : ~(k + 1 <= 1)
  BY FrontFacts
<1>2. SortsDue(t, d, p)
  OBVIOUS
<1> HIDE DEF p
<1>3. CASE /\ \A k \in DOMAIN p : ~Sorts(p[k])
           /\ t[View].sorts = d[View].sorts
  <2>1. ~Sorts(e) /\ \A k \in DOMAIN q : ~Sorts(q[k])
    BY <1>1, <1>3
  <2> QED
    BY <1>3, <2>1 DEF SortsDue
<1>4. CASE \E k \in DOMAIN p : /\ Sorts(p[k]) /\ t[View].sorts = p[k].op.new
                               /\ \A j \in DOMAIN p : Sorts(p[j]) => j <= k
  <2>1. PICK k \in DOMAIN p : /\ Sorts(p[k]) /\ t[View].sorts = p[k].op.new
                              /\ \A j \in DOMAIN p : Sorts(p[j]) => j <= k
    BY <1>4
  <2>2. CASE k = 1
    <3>1. Sorts(e) /\ t[View].sorts = e.op.new
      BY <1>1, <2>1, <2>2
    <3>2. \A j \in DOMAIN q : ~Sorts(q[j])
      BY <1>1, <2>1, <2>2
    <3> QED
      BY <3>1, <3>2 DEF SortsDue
  <2>3. CASE k # 1
    <3> DEFINE m == k - 1
    <3>1. m \in DOMAIN q /\ m + 1 = k
      BY <1>1, <2>3
    <3> HIDE DEF m
    <3>2. Sorts(q[m]) /\ t[View].sorts = q[m].op.new
      BY <1>1, <2>1, <3>1
    <3>3. \A j \in DOMAIN q : Sorts(q[j]) => j <= m
      BY <1>1, <2>1, <3>1
    <3> QED
      BY <3>1, <3>2, <3>3 DEF SortsDue
  <2> QED
    BY <2>2, <2>3
<1> QED
  BY <1>2, <1>3, <1>4 DEF SortsDue

(* sendOperationCallback: the browser does what it put off, or knows that a *)
(* reload will.                                                            *)
LEMMA AnsweredAgrees ==
    ASSUME NEW q \in Seq(Entries), NEW e \in Entries,
           NEW more \in BOOLEAN, NEW more2 \in BOOLEAN,
           NEW t \in Tables, NEW d \in Tables, Agrees(t, d, <<e>> \o q, more),
           more \/ e.op.type = "duplicate_record" => more2, Aimed(e.op),
           Inserts(e) => \A k \in DOMAIN q : ~Inserts(q[k])
    PROVE  Agrees(t, IF e.op.type \in AfterServer THEN Apply(d, e.op) ELSE d, q, more2)
<1> DEFINE p == <<e>> \o q
           i == e.op.item
           d2 == IF e.op.type \in AfterServer THEN Apply(d, e.op) ELSE d
<1>1. /\ 1 \in DOMAIN p /\ p[1] = e
      /\ \A k \in DOMAIN q : k + 1 \in DOMAIN p /\ p[k + 1] = q[k]
      /\ \A k \in DOMAIN p : \/ p[k] = e
                             \/ \E j \in DOMAIN q : p[k] = q[j]
  <2>1. \A k \in DOMAIN p : k = 1 \/ (k - 1 \in DOMAIN q /\ k - 1 + 1 = k)
    BY FrontFacts
  <2> QED
    BY <2>1, FrontFacts
<1>2. Agrees(t, d, p, more)
  OBVIOUS
<1>3. e.op \in Ops
  BY DEF Entries
<1> HIDE DEF p
<1>4. CASE e.op.type = "insert_column"
  <2>1. /\ i \in Columns /\ ~Sorts(e) /\ Inserts(e)
        /\ \A c : InsertsAt(e, c) <=> c = i
        /\ d2 = [d EXCEPT ![i] = e.op.new]
    BY <1>3, <1>4, OpKinds DEF Sorts, Inserts, InsertsAt, Apply, AfterServer, FieldOf
  <2>2. (\A j \in Items : j # i => d2[j] = d[j]) /\ d2[i] = e.op.new
    BY <2>1, Kinds DEF Tables
  <2> HIDE DEF d2, i
  <2>3. RowsAgree(t, d2)
    BY <1>2, <2>1, <2>2, Kinds DEF Agrees, RowsAgree
  <2>4. CopiesAgree(t, d2, q, more2)
    <3>1. \A c : ~Duplicates(e, c)
      BY <1>4 DEF Duplicates
    <3> QED
      BY <1>1, <1>2, <2>1, <2>2, <3>1, Kinds DEF Agrees, CopiesAgree
  <2>5. ColumnsAgree(t, d2, q)
    <3>1. \A k \in DOMAIN q : ~Inserts(q[k])
      BY <2>1
    <3>2. \A k \in DOMAIN q : \A c : ~InsertsAt(q[k], c)
      BY <3>1 DEF InsertsAt
    <3>3. t[i] = e.op.new
      BY <1>1, <1>2, <2>1 DEF Agrees, ColumnsAgree
    <3>4. \A c \in Columns : c # i => t[c] = d[c]
      <4> TAKE c \in Columns
      <4> HAVE c # i
      <4>1. \A k \in DOMAIN p : ~InsertsAt(p[k], c)
        BY <1>1, <2>1, <3>2
      <4> QED
        BY <1>2, <4>1 DEF Agrees, ColumnsAgree
    <3>5. \A c \in Columns : t[c] = d2[c]
      BY <2>2, <3>3, <3>4, Kinds
    <3> QED
      BY <3>2, <3>5 DEF ColumnsAgree
  <2>6. ViewAgrees(t, d2, q)
    <3>1. d2[View] = d[View]
      BY <2>1, <2>2, Kinds
    <3>2. SortsDue(t, d2, q)
      BY <1>2, <2>1, <3>1, SortsSooner DEF Agrees, ViewAgrees, p
    <3> QED
      BY <1>2, <3>1, <3>2 DEF Agrees, ViewAgrees
  <2> QED
    BY <2>3, <2>4, <2>5, <2>6 DEF Agrees, d2
<1>5. CASE e.op.type # "insert_column"
  <2>1. ~Inserts(e) /\ \A c : ~InsertsAt(e, c)
    BY <1>5 DEF Inserts, InsertsAt
  <2>2. /\ \A j \in Items : j # View => d2[j] = d[j]
        /\ ~Sorts(e) => d2[View] = d[View]
        /\ Sorts(e) => d2[View] = [d[View] EXCEPT !["sorts"] = e.op.new]
    <3>1. CASE Sorts(e)
      <4>1. e.op.type = "modify_sorts" /\ i = View /\ e.op.type \in AfterServer
        BY <3>1 DEF Sorts, Aimed, AfterServer
      <4>2. d[View] # Gone
        BY <1>2, GoneAssumption DEF Agrees, ViewAgrees, FieldMaps
      <4>3. d2 = [d EXCEPT ![View]["sorts"] = e.op.new]
        BY <4>1, <4>2 DEF Apply, FieldOf
      <4> QED
        BY <3>1, <4>3, Kinds DEF Tables
    <3>2. CASE ~Sorts(e)
      <4>1. d2 = d
        BY <1>5, <3>2 DEF Sorts, AfterServer, Apply, FieldOf
      <4> QED
        BY <3>2, <4>1
    <3> QED
      BY <3>1, <3>2
  <2> HIDE DEF d2, i
  <2>3. RowsAgree(t, d2)
    BY <1>2, <2>2, Kinds DEF Agrees, RowsAgree
  <2>4. CopiesAgree(t, d2, q, more2)
    <3>1. \A c : Duplicates(e, c) => more2
      BY DEF Duplicates
    <3>2. \A c \in Copies : d2[c] = d[c]
      BY <2>2, Kinds
    <3> QED
      BY <1>1, <1>2, <3>1, <3>2 DEF Agrees, CopiesAgree
  <2>5. ColumnsAgree(t, d2, q)
    <3>1. \A c \in Columns : d2[c] = d[c]
      BY <2>2, Kinds
    <3>2. \A c \in Columns : /\ \A k \in DOMAIN p : InsertsAt(p[k], c) =>
                                    d[c] = Gone /\ t[c] = p[k].op.new
                             /\ (\A k \in DOMAIN p : ~InsertsAt(p[k], c)) => t[c] = d[c]
      BY <1>2 DEF Agrees, ColumnsAgree
    <3> QED
      BY <1>1, <2>1, <3>1, <3>2 DEF ColumnsAgree
  <2>6. ViewAgrees(t, d2, q)
    <3>1. /\ t[View] \in FieldMaps /\ d[View] \in FieldMaps /\ SortsDue(t, d, p)
          /\ \A g \in Fields \ {"sorts"} : t[View][g] = d[View][g]
      BY <1>2 DEF Agrees, ViewAgrees
    <3>2. /\ d2[View] \in FieldMaps
          /\ \A g \in Fields \ {"sorts"} : t[View][g] = d2[View][g]
          /\ Sorts(e) => d2[View].sorts = e.op.new
          /\ ~Sorts(e) => d2[View].sorts = d[View].sorts
      <4>1. Sorts(e) => e.op.new \in Values /\ "sorts" \in Fields
        BY <1>3, OpKinds DEF Sorts, FieldOf, Fields
      <4> QED
        BY <2>2, <3>1, <4>1 DEF FieldMaps
    <3>3. SortsDue(t, d2, q)
      BY <3>1, <3>2, SortsSooner DEF p
    <3> QED
      BY <3>1, <3>2, <3>3 DEF ViewAgrees
  <2> QED
    BY <2>3, <2>4, <2>5, <2>6 DEF Agrees, d2
<1> QED
  BY <1>4, <1>5

(* loadMetadata, unraced: the table of the server, with the view there was *)
LEMMA LoadedAgrees ==
    ASSUME NEW q \in Seq(Entries), NEW more \in BOOLEAN, NEW more2 \in BOOLEAN,
           NEW t \in Tables, NEW d \in Tables, Agrees(t, d, q, more),
           \A k \in DOMAIN q : ~Inserts(q[k])
    PROVE  Agrees(t, [t EXCEPT ![View] = d[View]], q, more2)
<1> DEFINE d2 == [t EXCEPT ![View] = d[View]]
<1>1. (\A j \in Items : j # View => d2[j] = t[j]) /\ d2[View] = d[View]
  BY Kinds DEF Tables
<1>2. \A k \in DOMAIN q : \A c : ~InsertsAt(q[k], c)
  BY DEF InsertsAt
<1> HIDE DEF d2
<1>3. RowsAgree(t, d2) /\ CopiesAgree(t, d2, q, more2) /\ ColumnsAgree(t, d2, q)
  BY <1>1, <1>2, Kinds DEF RowsAgree, CopiesAgree, ColumnsAgree
<1>4. ViewAgrees(t, d2, q)
  BY <1>1 DEF Agrees, ViewAgrees, SortsDue
<1> QED
  BY <1>3, <1>4 DEF Agrees, d2

-----------------------------------------------------------------------------
(* The steps of the store *)

LEMMA QueueTypes ==
    ASSUME Inv
    PROVE  /\ pending \in Seq(Entries)
           /\ Unanswered \in Seq(Entries) /\ Unexecuted \in Seq(Entries)
           /\ data \in Tables /\ server \in Tables
           /\ made \in Nat /\ executed \in Seq(Nat) /\ Len(executed) \in Nat
           /\ reloads \in Seq(Reloads)
           /\ chain = "waiting" => inFlight \in Entries
<1>1. /\ pending \in Seq(Entries) /\ (chain = "waiting" => inFlight \in Entries)
      /\ request = "sent" => chain = "waiting"
  BY DEF Inv, TypeOK, QueueOK
<1>2. Unanswered \in Seq(Entries) /\ Unexecuted \in Seq(Entries)
  BY <1>1, ConsFacts DEF Unanswered, Unexecuted
<1> QED
  BY <1>1, <1>2 DEF Inv, TypeOK, QueueOK, StoreOK, ScreenOK, ServerOK

LEMMA NoneInserts ==
    ASSUME Inv, ~InsertUndecided
    PROVE  \A k \in DOMAIN Unanswered : ~Inserts(Unanswered[k])
<1>1. CASE chain = "waiting"
  <2>1. Unanswered = <<inFlight>> \o pending /\ inFlight \in Entries /\ pending \in Seq(Entries)
    BY <1>1, QueueTypes DEF Unanswered
  <2>2. \A k \in DOMAIN (<<inFlight>> \o pending) :
            k = 1 \/ (k - 1 \in DOMAIN pending /\ k - 1 + 1 = k)
    BY <2>1, FrontFacts
  <2>3. \A k \in DOMAIN Unanswered : Unanswered[k] = inFlight \/
                                       \E j \in DOMAIN pending : Unanswered[k] = pending[j]
    BY <2>1, <2>2, FrontFacts
  <2> QED
    BY <1>1, <2>3, NoneUndecided
<1>2. CASE chain # "waiting"
  BY <1>2, NoneUndecided DEF Unanswered
<1> QED
  BY <1>1, <1>2

(* addPendingOperations puts an operation behind the others, unless it      *)
(* throws.                                                                 *)
LEMMA AddQueues ==
    ASSUME Inv, NEW op \in Ops, NEW h, NEW t, NEW e, e = [n |-> made + 1, op |-> op],
           AddPendingOperation(op, h, t)
    PROVE  \/ /\ Unanswered' = Append(Unanswered, e)
              /\ Unexecuted' = Append(Unexecuted, e)
              /\ \/ UNCHANGED <<chain, request>>
                 \/ ~Busy /\ chain' = "waiting" /\ request' = "sent"
           \/ ~Busy /\ ~Sendable(e, t) /\ Unanswered' = <<>>
<1>1. e \in Entries /\ pending \in Seq(Entries) /\ (chain = "waiting" => inFlight \in Entries)
  BY QueueTypes DEF Entries
<1>2. CASE Busy
  <2>1. pending' = Append(pending, e) /\ UNCHANGED <<chain, inFlight, request>>
    BY <1>2 DEF AddPendingOperation
  <2>2. request = "sent" => chain = "waiting"
    BY DEF Inv, TypeOK, QueueOK
  <2>3. chain = "waiting" => Append(<<inFlight>> \o pending, e) = <<inFlight>> \o Append(pending, e)
    BY <1>1, AppendCons
  <2> QED
    BY <2>1, <2>2, <2>3 DEF Unanswered, Unexecuted
<1>3. CASE ~Busy
  <2>1. pending = <<>> /\ chain # "waiting" /\ request # "sent"
    BY <1>3 DEF Busy, Inv, TypeOK, QueueOK
  <2>2. Unanswered = <<>> /\ Unexecuted = <<>>
    BY <2>1 DEF Unanswered, Unexecuted
  <2>3. CASE Sendable(e, t)
    <3>1. Send(e, <<>>)
      BY <1>3, <2>3 DEF AddPendingOperation
    <3>2. Unanswered' = <<e>> \o <<>> /\ Unexecuted' = <<e>> \o <<>>
      BY <3>1 DEF Send, Unanswered, Unexecuted
    <3>3. <<e>> \o <<>> = Append(<<>>, e)
      BY <1>1
    <3> QED
      BY <1>3, <2>2, <3>1, <3>2, <3>3 DEF Send
  <2>4. CASE ~Sendable(e, t)
    <3>1. Stop("wedged", <<>>)
      BY <1>3, <2>4 DEF AddPendingOperation
    <3> QED
      BY <1>3, <2>4, <3>1 DEF Stop, Unanswered
  <2> QED
    BY <2>3, <2>4
<1> QED
  BY <1>2, <1>3

(* What the lemmas on tables ask of an operation, before anything hurried *)
LEMMA AppliesAgrees ==
    ASSUME Inv, NEW op \in Ops, NEW h \in Handlers, NEW u, NEW r, Applies(op, h, u, r),
           ~Hurries(op, h), op.type \notin LocalOnly,
           NEW e \in Entries, e.op = op, NEW t \in Tables, ~Refuses(t, op),
           NEW more \in BOOLEAN, Agrees(t, data, Unanswered, more)
    PROVE  Agrees(Ran(t, op), data', Append(Unanswered, e), more)
<1>1. data' = IF op.type \in AfterServer THEN data ELSE Apply(data, op)
  BY DEF Applies, ApplyOperation
<1>2. /\ Aimed(op) /\ (h.kind = "new" => Seen(op)) /\ (h.kind # "new" => op.type \in Undoable)
      /\ h.kind = "new" /\ op.type = "insert_column" => ~InsertUndecided
      /\ h.kind # "new" => ~InsertUndecided
  BY DEF Applies, Hurries
<1>3. ~InsertUndecided => \A k \in DOMAIN Unanswered : \A c :
          ~Inserts(Unanswered[k]) /\ ~InsertsAt(Unanswered[k], c)
  BY NoneInserts DEF InsertsAt
<1>4. op.type = "insert_column" => \A k \in DOMAIN Unanswered : ~Inserts(Unanswered[k])
  BY <1>2, <1>3
<1>5. ASSUME op.type \notin AfterServer, op.item \in Columns
      PROVE  \A k \in DOMAIN Unanswered : ~InsertsAt(Unanswered[k], op.item)
  <2>1. CASE h.kind = "new"
    <3>1. data[op.item] # Gone
      BY <1>2, <1>5, <2>1 DEF Seen
    <3> QED
      BY <1>5, <3>1 DEF Agrees, ColumnsAgree
  <2>2. CASE h.kind # "new"
    BY <1>2, <1>3, <2>2
  <2> QED
    BY <2>1, <2>2
<1>6. op.type = "duplicate_record" => data[op.new] = Gone
  BY <1>2 DEF Seen, Undoable
<1> QED
  BY <1>1, <1>2, <1>4, <1>5, <1>6, QueueTypes, AppliedAgrees

LEMMA ApplySync ==
    ASSUME Inv, SyncInv, NEW op \in Ops, NEW h \in Handlers, NEW u, NEW r,
           Applies(op, h, u, r)
    PROVE  SyncInv'
<1> DEFINE e == [n |-> made + 1, op |-> op]
           t == IF op.type \in AfterServer THEN data ELSE Apply(data, op)
<1>1. /\ UNCHANGED <<timer, reloads, server, executed>> /\ Aimed(op) /\ data' = t
      /\ op.type \notin LocalOnly => AddPendingOperation(op, h, t)
      /\ op.type \in LocalOnly => UNCHANGED <<pending, chain, inFlight, made, request>>
      /\ trouble' = {} => /\ trouble = {} /\ ~Hurries(op, h)
                          /\ op.type \notin LocalOnly /\ ~Busy =>
                                 Sendable([n |-> 0, op |-> op], t)
  BY DEF Applies, ApplyOperation, queue
<1>2. ReloadsKnow'
  BY <1>1 DEF SyncInv, ReloadsKnow
<1>3. CASE op.type \in LocalOnly
  <2>1. data' = data
    BY <1>1, <1>3 DEF LocalOnly, AfterServer, Apply, FieldOf
  <2>2. /\ Unanswered' = Unanswered /\ Unexecuted' = Unexecuted
        /\ UNCHANGED <<data, timer, reloads, server, executed, made, chain, request>>
    BY <1>1, <1>3, <2>1 DEF Unanswered, Unexecuted
  <2> HIDE DEF t
  <2>3. Follows' <=> Follows
    BY <2>2 DEF Follows
  <2> QED
    BY <1>1, <1>2, <2>2, <2>3 DEF SyncInv, InSync, Missed
<1>4. CASE op.type \notin LocalOnly
  <2>1. AddPendingOperation(op, h, t)
    BY <1>1, <1>4
  <2>2. e \in Entries /\ e.op = op /\ (Sendable([n |-> 0, op |-> op], t) => Sendable(e, t))
    BY QueueTypes DEF Entries, Sendable
  <2> HIDE DEF t
  <2>3. \/ /\ Unanswered' = Append(Unanswered, e)
           /\ Unexecuted' = Append(Unexecuted, e)
           /\ \/ UNCHANGED <<chain, request>>
              \/ ~Busy /\ chain' = "waiting" /\ request' = "sent"
        \/ ~Busy /\ ~Sendable(e, t) /\ Unanswered' = <<>>
    BY <2>1, AddQueues
  <2>4. made' = made + 1
    BY <2>1 DEF AddPendingOperation
  <2> HIDE DEF e
  <2>5. \A k \in DOMAIN Unanswered' : Aimed(Unanswered'[k].op)
    <3>1. CASE Unanswered' = Append(Unanswered, e)
      <4>1. \A k \in DOMAIN Append(Unanswered, e) :
                 \/ k \in DOMAIN Unanswered /\ Append(Unanswered, e)[k] = Unanswered[k]
                 \/ Append(Unanswered, e)[k] = e
        BY <2>2, QueueTypes, AppendFacts
      <4> QED
        BY <1>1, <2>2, <3>1, <4>1 DEF SyncInv
    <3>2. CASE Unanswered' = <<>>
      BY <3>2
    <3> QED
      BY <2>3, <3>1, <3>2
  <2>6. ASSUME trouble' = {}
        PROVE  chain' # "wedged" /\ (InSync' \/ Missed')
    <3>1. /\ trouble = {} /\ ~Hurries(op, h)
          /\ Unanswered' = Append(Unanswered, e) /\ Unexecuted' = Append(Unexecuted, e)
          /\ \/ UNCHANGED <<chain, request>>
             \/ ~Busy /\ chain' = "waiting" /\ request' = "sent"
      BY <1>1, <1>4, <2>2, <2>3, <2>6
    <3>2. chain' # "wedged"
      BY <3>1 DEF SyncInv
    <3>3. ASSUME Missed PROVE Missed'
      <4>1. request' = request /\ request \in {"refused", "lost"}
        BY <3>1, <3>3 DEF Missed, Busy, Inv, TypeOK, QueueOK
      <4>2. /\ Unexecuted \in Seq(Entries) /\ Len(Unexecuted) \in Nat
            /\ Len(executed) \in Nat /\ made \in Nat
        BY QueueTypes
      <4>3. Len(Unexecuted') = Len(Unexecuted) + 1
        BY <2>2, <3>1, <4>2
      <4> QED
        BY <1>1, <2>4, <3>3, <4>1, <4>2, <4>3 DEF Missed
    <3>4. ASSUME InSync PROVE InSync'
      <4>1. Len(executed) + Len(Unexecuted) = made /\ Follows
        BY <3>4 DEF InSync
      <4> DEFINE q == Unexecuted
                 more == timer \/ reloads # <<>>
      <4>2. q \in Seq(Entries) /\ Len(q) \in Nat /\ Len(Append(q, e)) = Len(q) + 1
            /\ more \in BOOLEAN
        BY <2>2, QueueTypes DEF Inv, TypeOK, ScreenOK
      <4>3. PICK T : Chain(T, server, q) /\
                     (Accepts(T, q) => Agrees(T[Len(q)], data, Unanswered, more))
        BY <4>1 DEF Follows
      <4>4. PICK U : /\ Chain(U, server, Append(q, e))
                     /\ U[Len(Append(q, e))] = Ran(T[Len(q)], e.op)
                     /\ Accepts(U, Append(q, e)) => /\ Accepts(T, q)
                                                    /\ ~Refuses(T[Len(q)], e.op)
        BY <2>2, <4>2, <4>3, ChainLast
      <4>5. T[Len(q)] \in Tables
        BY <4>2, <4>3 DEF Chain
      <4>6. Accepts(U, Append(q, e)) =>
                Agrees(U[Len(Append(q, e))], data', Append(Unanswered, e), more)
        <5> SUFFICES ASSUME Accepts(U, Append(q, e))
                     PROVE  Agrees(U[Len(Append(q, e))], data', Append(Unanswered, e), more)
          OBVIOUS
        <5> HIDE DEF q, more
        <5>1. ~Refuses(T[Len(q)], op) /\ Agrees(T[Len(q)], data, Unanswered, more)
          BY <2>2, <4>3, <4>4
        <5>2. Agrees(Ran(T[Len(q)], op), data', Append(Unanswered, e), more)
          BY <1>4, <2>2, <3>1, <4>2, <4>5, <5>1, AppliesAgrees
        <5> QED
          BY <2>2, <4>4, <5>2
      <4>7. Follows'
        BY <1>1, <3>1, <4>4, <4>6 DEF Follows
      <4>8. Len(executed') + Len(Unexecuted') = made'
        BY <1>1, <2>4, <3>1, <4>1, <4>2, QueueTypes
      <4> QED
        BY <4>7, <4>8 DEF InSync
    <3> QED
      BY <3>1, <3>2, <3>3, <3>4 DEF SyncInv
  <2> QED
    BY <1>2, <2>5, <2>6 DEF SyncInv
<1> QED
  BY <1>3, <1>4

(* The server executes the first of what it has still to execute. *)
LEMMA ServerSync ==
    ASSUME Inv, Inv', SyncInv, ServerExecutes \/ RequestFails
    PROVE  SyncInv'
<1>1. /\ request = "sent" /\ chain = "waiting"
      /\ UNCHANGED <<data, pending, chain, inFlight, made, timer, reloads>>
      /\ UNCHANGED <<server, executed>> \/ Execute
      /\ \/ request' \in {"refused", "lost"} /\ UNCHANGED executed
         \/ ~Refused(inFlight.op) /\ Execute /\ request' \in {"done", "lost"}
      /\ trouble' = {} => trouble = {}
  BY DEF ServerExecutes, RequestFails, Execute, store, queue, screen, Inv, TypeOK, QueueOK
<1>2. Unanswered' = Unanswered
  BY <1>1 DEF Unanswered
<1>3. ReloadsKnow'
  <2>1. CASE UNCHANGED <<server, executed>>
    BY <1>1, <2>1 DEF SyncInv, ReloadsKnow
  <2>2. CASE Execute
    <3>1. Len(executed') = Len(executed) + 1 /\ Len(executed) \in Nat
      BY <2>2, QueueTypes DEF Execute
    <3>2. \A i \in DOMAIN reloads : reloads[i].seen \in Nat
      <4> TAKE i \in DOMAIN reloads
      <4>1. reloads[i] \in Reloads
        BY QueueTypes
      <4> QED
        BY <4>1 DEF Reloads
    <3>3. \A i \in DOMAIN reloads : reloads[i].seen <= Len(executed) =>
              reloads[i].seen <= Len(executed') /\ reloads[i].seen # Len(executed')
      BY <3>1, <3>2
    <3> QED
      BY <1>1, <3>3 DEF SyncInv, ReloadsKnow
  <2> QED
    BY <1>1, <2>1, <2>2
<1>4. ASSUME trouble = {}
      PROVE  InSync
  BY <1>1, <1>4 DEF SyncInv, Missed
<1>5. /\ Unexecuted = <<inFlight>> \o pending /\ Unexecuted' = pending
      /\ inFlight \in Entries /\ pending \in Seq(Entries)
      /\ Len(Unexecuted) = Len(pending) + 1 /\ Len(pending) \in Nat
  <2>1. inFlight \in Entries /\ pending \in Seq(Entries)
    BY <1>1, QueueTypes
  <2>2. Unexecuted = <<inFlight>> \o pending /\ Unexecuted' = pending
    BY <1>1 DEF Unexecuted
  <2> QED
    BY <2>1, <2>2, ConsFacts
<1>6. ASSUME trouble = {}, request' \in {"refused", "lost"}, UNCHANGED executed
      PROVE  Missed'
  BY <1>1, <1>4, <1>5, <1>6, QueueTypes DEF InSync, Missed
<1>7. ASSUME trouble' = {}, ~Refused(inFlight.op), Execute
      PROVE  InSync'
  <2>1. Len(executed) + Len(Unexecuted) = made /\ Follows
    BY <1>1, <1>4, <1>7 DEF InSync
  <2>2. /\ Unexecuted = <<inFlight>> \o pending /\ Unexecuted' = pending
        /\ inFlight \in Entries /\ pending \in Seq(Entries)
    BY <1>5
  <2>3. /\ server' = Ran(server, inFlight.op) /\ ~Refuses(server, inFlight.op)
        /\ Len(executed') = Len(executed) + 1
    <3>1. ~Ignored(inFlight.op)
      BY <1>7 DEF Execute
    <3> QED
      BY <1>7, <3>1, QueueTypes DEF Execute, Executed, Ran, Refused, Refuses
  <2> DEFINE more == timer \/ reloads # <<>>
  <2>4. PICK T : /\ Chain(T, server, Unexecuted)
                 /\ Accepts(T, Unexecuted) =>
                        Agrees(T[Len(Unexecuted)], data, Unanswered, more)
    BY <2>1 DEF Follows
  <2>5. PICK U : /\ Chain(U, server', pending)
                 /\ U[Len(pending)] = T[Len(Unexecuted)]
                 /\ Accepts(U, pending) => Accepts(T, Unexecuted)
    BY <2>2, <2>3, <2>4, ChainFirst
  <2>6. Follows'
    BY <1>1, <1>2, <2>2, <2>4, <2>5 DEF Follows
  <2>7. Len(executed') + Len(Unexecuted') = made'
    BY <1>1, <1>5, <2>1, <2>2, <2>3, QueueTypes
  <2> QED
    BY <2>6, <2>7 DEF InSync
<1>8. chain' # "wedged"
  BY <1>1
<1>9. trouble' = {} => InSync' \/ Missed'
  BY <1>1, <1>6, <1>7
<1> QED
  BY <1>1, <1>2, <1>3, <1>8, <1>9 DEF SyncInv

(* What is unanswered after an answer was in the queue. *)
LEMMA TakesUnanswered ==
    ASSUME Inv, Inv', chain = "waiting", NEW d \in Nat, TakesFrom(d)
    PROVE  \A k \in DOMAIN Unanswered' :
               \E j \in DOMAIN Unanswered : Unanswered'[k] = Unanswered[j]
<1>1. /\ Unanswered = <<inFlight>> \o pending /\ inFlight \in Entries
      /\ pending \in Seq(Entries) /\ pending' \in Seq(Entries)
  BY QueueTypes DEF Unanswered, Inv, TypeOK, QueueOK
<1>2. \A j \in DOMAIN pending : j + 1 \in DOMAIN Unanswered /\ Unanswered[j + 1] = pending[j]
  BY <1>1, FrontFacts
<1>3. \A k \in DOMAIN Unanswered' : \E j \in DOMAIN pending : Unanswered'[k] = pending[j]
  <2>1. CASE chain' = "waiting"
    <3>1. /\ Unanswered' = <<pending[d]>> \o pending' /\ d \in DOMAIN pending
          /\ pending[d] \in Entries
      BY <1>1, <2>1 DEF Unanswered, TakesFrom
    <3>2. \A k \in DOMAIN (<<pending[d]>> \o pending') :
              k = 1 \/ (k - 1 \in DOMAIN pending' /\ k - 1 + 1 = k)
      BY <1>1, <3>1, FrontFacts
    <3>3. /\ (<<pending[d]>> \o pending')[1] = pending[d]
          /\ \A k \in DOMAIN pending' : (<<pending[d]>> \o pending')[k + 1] = pending'[k]
      BY <1>1, <3>1, FrontFacts
    <3> QED
      BY <3>1, <3>2, <3>3 DEF TakesFrom
  <2>2. CASE chain' # "waiting"
    BY <2>2 DEF Unanswered, TakesFrom
  <2> QED
    BY <2>1, <2>2
<1> QED
  BY <1>2, <1>3

LEMMA AnswerTakes ==
    ASSUME Inv, Answer \/ AnswerError
    PROVE  chain = "waiting" /\ \E d \in Nat : TakesFrom(d)
<1>1. chain = "waiting" /\ pending \in Seq(Entries)
  BY DEF Answer, AnswerError, Inv, TypeOK, QueueOK
<1>2. CASE request = "lost" /\ inFlight.op.type = "rename_file" /\ AnswerError
  <2>1. Stop("wedged", pending)
    BY <1>2 DEF AnswerError
  <2>2. \A i \in DOMAIN pending : i + 0 = i
    BY <1>1
  <2>3. TakesFrom(0)
    BY <2>1, <2>2, StopTakes
  <2> QED
    BY <1>1, <2>3
<1>3. CASE ~(request = "lost" /\ inFlight.op.type = "rename_file" /\ AnswerError)
  <2>1. \E t, caught : caught \in BOOLEAN /\ SendNextOperation(t, caught)
    BY <1>3, Zenon DEF Answer, AnswerError
  <2> QED
    BY <1>1, <2>1, SendNextTakes
<1> QED
  BY <1>2, <1>3

(* A reload that starts has read nothing. *)
LEMMA StartKnows ==
    ASSUME Inv, ReloadsKnow, NEW t, reloads' = StartReload(t), UNCHANGED <<server, executed>>,
           t \in Tables
    PROVE  ReloadsKnow' /\ reloads' # <<>>
<1> DEFINE x == [view |-> t[View], read |-> <<>>, seen |-> 0]
<1>1. x \in Reloads
  <2>1. t[View] \in FieldMaps \cup {Gone}
    BY Kinds DEF Tables
  <2> QED
    BY <2>1 DEF Reloads
<1>2. x.read = <<>> /\ reloads \in Seq(Reloads) /\ reloads' = Append(reloads, x)
  BY QueueTypes DEF StartReload
<1> HIDE DEF x
<1>3. /\ reloads' # <<>>
      /\ \A k \in DOMAIN reloads' : \/ k \in DOMAIN reloads /\ reloads'[k] = reloads[k]
                                    \/ reloads'[k] = x
  BY <1>1, <1>2
<1> QED
  BY <1>2, <1>3 DEF ReloadsKnow

LEMMA AnswerSync ==
    ASSUME Inv, Inv', StackInv, SyncInv, Answer
    PROVE  SyncInv'
<1> DEFINE op == inFlight.op
           t == IF op.type \in AfterServer THEN Apply(data, op) ELSE data
<1>1. /\ request = "done" /\ data' = t /\ UNCHANGED <<made, server, executed>>
      /\ timer' = (timer \/ op.type = "duplicate_record")
      /\ reloads' = reloads \/ reloads' = StartReload(t)
      /\ SendNextOperation(t, op.type # "rename_file")
      /\ trouble' = trouble \cup (IF Throws(t) THEN {"thrown"} ELSE {})
  BY DEF Answer
<1>2. /\ chain = "waiting" /\ inFlight \in Entries /\ pending \in Seq(Entries)
      /\ Unanswered = <<inFlight>> \o pending /\ Unexecuted = pending
      /\ data \in Tables /\ op \in Ops
  BY <1>1, QueueTypes DEF Unanswered, Unexecuted, Inv, TypeOK, QueueOK, Entries
<1>3. t \in Tables
  BY <1>2, ApplyType
<1> HIDE DEF t
<1>4. ReloadsKnow' /\ (reloads # <<>> => reloads' # <<>>)
  BY <1>1, <1>3, StartKnows DEF SyncInv, ReloadsKnow
<1>5. \A k \in DOMAIN Unanswered' : Aimed(Unanswered'[k].op)
  <2>1. PICK d \in Nat : TakesFrom(d)
    BY AnswerTakes
  <2> QED
    BY <1>2, <2>1, TakesUnanswered DEF SyncInv
<1>6. ASSUME trouble' = {}
      PROVE  chain' # "wedged" /\ InSync'
  <2>1. trouble = {} /\ ~Throws(t)
    BY <1>1, <1>6
  <2>2. /\ chain' # "wedged" /\ Unanswered' = pending /\ Unexecuted' = pending
    <3>1. CASE pending = <<>>
      <4>1. Stop("idle", <<>>)
        BY <1>1, <3>1 DEF SendNextOperation
      <4> QED
        BY <3>1, <4>1 DEF Stop, Unanswered, Unexecuted
    <3>2. CASE pending # <<>>
      <4>1. Sendable(Head(pending), t)
        BY <2>1, <3>2 DEF Throws
      <4>2. Send(Head(pending), Tail(pending))
        BY <1>1, <3>2, <4>1 DEF SendNextOperation
      <4>3. <<Head(pending)>> \o Tail(pending) = pending
        BY <1>2, <3>2
      <4> QED
        BY <4>2, <4>3 DEF Send, Unanswered, Unexecuted
    <3> QED
      BY <3>1, <3>2
  <2>3. Len(executed) + Len(Unexecuted) = made /\ Follows
    BY <1>1, <2>1 DEF SyncInv, InSync, Missed
  <2> DEFINE more == timer \/ reloads # <<>>
             more2 == timer' \/ reloads' # <<>>
  <2>4. PICK T : /\ Chain(T, server, pending)
                 /\ Accepts(T, pending) => Agrees(T[Len(pending)], data, Unanswered, more)
    BY <1>2, <2>3 DEF Follows
  <2>5. T[Len(pending)] \in Tables
    <3>1. Len(pending) \in 0 .. Len(pending)
      BY <1>2
    <3> QED
      BY <2>4, <3>1 DEF Chain
  <2>6. more \in BOOLEAN /\ more2 \in BOOLEAN /\ (more \/ op.type = "duplicate_record" => more2)
    BY <1>1, <1>4 DEF Inv, TypeOK, ScreenOK
  <2>7. Aimed(op)
    <3>1. 1 \in DOMAIN Unanswered /\ Unanswered[1] = inFlight
      BY <1>2, FrontFacts
    <3> QED
      BY <3>1 DEF SyncInv
  <2>8. Inserts(inFlight) => \A k \in DOMAIN pending : ~Inserts(pending[k])
    BY <1>2, <2>1 DEF StackInv, AnswersOK
  <2>9. data' = IF op.type \in AfterServer THEN Apply(data, op) ELSE data
    BY <1>1 DEF t
  <2> HIDE DEF more, more2
  <2>10. Accepts(T, pending) => Agrees(T[Len(pending)], data', pending, more2)
    BY <1>2, <2>4, <2>5, <2>6, <2>7, <2>8, <2>9, AnsweredAgrees
  <2>11. Follows'
    BY <1>1, <2>2, <2>4, <2>10 DEF Follows, more2
  <2> QED
    BY <1>1, <1>2, <2>2, <2>3, <2>11 DEF InSync
<1> QED
  BY <1>4, <1>5, <1>6 DEF SyncInv

LEMMA AnswerErrorSync ==
    ASSUME Inv, Inv', SyncInv, AnswerError
    PROVE  SyncInv'
<1>1. trouble' # {} /\ UNCHANGED <<reloads, server, executed>>
  BY DEF AnswerError, screen
<1>2. PICK d \in Nat : TakesFrom(d)
  BY AnswerTakes
<1>3. \A k \in DOMAIN Unanswered' : Aimed(Unanswered'[k].op)
  BY <1>2, AnswerTakes, TakesUnanswered DEF SyncInv
<1> QED
  BY <1>1, <1>3 DEF SyncInv, ReloadsKnow

(* Reloads start, and the server reads its table for them. *)
LEMMA ReadSync ==
    ASSUME Inv, Inv', SyncInv, TimerReloads \/ ServerReads
    PROVE  SyncInv'
<1>1. UNCHANGED <<data, pending, chain, inFlight, made, server, request, executed, trouble>>
  BY DEF TimerReloads, ServerReads, store, queue, remote
<1>2. ReloadsKnow' /\ ((timer' \/ reloads' # <<>>) <=> (timer \/ reloads # <<>>))
  <2>1. CASE TimerReloads
    <3>1. reloads' = StartReload(data) /\ timer /\ data \in Tables
      BY <2>1, QueueTypes DEF TimerReloads
    <3> QED
      BY <1>1, <3>1, StartKnows DEF SyncInv
  <2>2. CASE ServerReads
    <3>1. PICK i \in DOMAIN reloads :
              /\ reloads' = [reloads EXCEPT ![i].read = <<server>>,
                                            ![i].seen = Len(executed)]
              /\ timer' = timer
      BY <2>2 DEF ServerReads
    <3>2. reloads \in Seq(Reloads) /\ reloads[i] \in Reloads
      BY QueueTypes
    <3>3. /\ reloads'[i].read = <<server>> /\ reloads'[i].seen = Len(executed)
          /\ DOMAIN reloads' = DOMAIN reloads
          /\ \A j \in DOMAIN reloads : j # i => reloads'[j] = reloads[j]
      BY <3>1, <3>2 DEF Reloads
    <3>4. Head(<<server>>) = server /\ Len(executed) <= Len(executed)
      BY QueueTypes
    <3>5. \A j \in DOMAIN reloads' : reloads'[j].read # <<>> =>
              /\ reloads'[j].seen <= Len(executed)
              /\ reloads'[j].seen = Len(executed) => Head(reloads'[j].read) = server
      BY <3>3, <3>4 DEF SyncInv, ReloadsKnow
    <3>6. reloads # <<>> /\ reloads' # <<>>
      BY <3>1, <3>2, <3>3
    <3> QED
      BY <1>1, <3>1, <3>5, <3>6 DEF ReloadsKnow
  <2> QED
    BY <2>1, <2>2
<1>3. Unanswered' = Unanswered /\ Unexecuted' = Unexecuted
  BY <1>1 DEF Unanswered, Unexecuted
<1>4. Follows => Follows'
  <2> SUFFICES ASSUME Follows PROVE Follows'
    OBVIOUS
  <2> DEFINE more == timer \/ reloads # <<>>
             more2 == timer' \/ reloads' # <<>>
  <2>1. more = more2
    BY <1>2
  <2>2. PICK T : /\ Chain(T, server, Unexecuted)
                 /\ Accepts(T, Unexecuted) =>
                        Agrees(T[Len(Unexecuted)], data, Unanswered, more)
    BY DEF Follows
  <2> HIDE DEF more, more2
  <2>3. Accepts(T, Unexecuted) => Agrees(T[Len(Unexecuted)], data, Unanswered, more2)
    BY <2>1, <2>2
  <2> QED
    BY <1>1, <1>3, <2>2, <2>3 DEF Follows, more2
<1> QED
  BY <1>1, <1>2, <1>3, <1>4 DEF SyncInv, InSync, Missed

LEMMA RemoveAtFrom ==
    ASSUME NEW S, NEW s \in Seq(S), NEW i \in DOMAIN s
    PROVE  \A k \in DOMAIN RemoveAt(s, i) : \E j \in DOMAIN s : RemoveAt(s, i)[k] = s[j]
<1>1. /\ Len(s) \in Nat /\ DOMAIN s = 1 .. Len(s) /\ i \in 1 .. Len(s)
  OBVIOUS
<1> DEFINE a == SubSeq(s, 1, i - 1)
           b == SubSeq(s, i + 1, Len(s))
<1>2. /\ a \in Seq(S) /\ Len(a) = i - 1 /\ \A k \in 1 .. i - 1 : a[k] = s[k]
  BY <1>1, SubSeqProperties
<1>3. /\ b \in Seq(S) /\ Len(b) = Len(s) - i /\ \A k \in 1 .. Len(s) - i : b[k] = s[k + i]
  BY <1>1, SubSeqProperties
<1> HIDE DEF a, b
<1>4. /\ DOMAIN (a \o b) = 1 .. (i - 1 + (Len(s) - i))
      /\ \A k \in DOMAIN (a \o b) :
             (a \o b)[k] = IF k <= i - 1 THEN a[k] ELSE b[k - (i - 1)]
  <2>1. /\ DOMAIN (a \o b) = 1 .. (Len(a) + Len(b))
        /\ \A k \in DOMAIN (a \o b) :
               (a \o b)[k] = IF k <= Len(a) THEN a[k] ELSE b[k - Len(a)]
    <3>1. a \in Seq(S) /\ b \in Seq(S)
      BY <1>2, <1>3
    <3> QED
      BY <3>1, ConcatProperties
  <2> QED
    BY <1>2, <1>3, <2>1
<1>5. \A k \in DOMAIN (a \o b) : \E j \in DOMAIN s : (a \o b)[k] = s[j]
  <2> TAKE k \in DOMAIN (a \o b)
  <2>1. CASE k <= i - 1
    BY <1>1, <1>2, <1>4, <2>1
  <2>2. CASE ~(k <= i - 1)
    <3>1. k - (i - 1) \in 1 .. Len(s) - i /\ k - (i - 1) + i \in DOMAIN s
      BY <1>1, <1>4, <2>2
    <3>2. (a \o b)[k] = s[k - (i - 1) + i]
      BY <1>3, <1>4, <2>2, <3>1
    <3> QED
      BY <3>1, <3>2
  <2> QED
    BY <2>1, <2>2
<1> QED
  BY <1>5 DEF RemoveAt, a, b

(* A reload that is not raced brings the table of a server that has nothing *)
(* left to execute.                                                        *)
LEMMA ReloadSync ==
    ASSUME Inv, Inv', SyncInv, ReloadMetadata
    PROVE  SyncInv'
<1>1. PICK i \in DOMAIN reloads :
          /\ reloads[i].read # <<>>
          /\ data' = [Head(reloads[i].read) EXCEPT ![View] = reloads[i].view]
          /\ reloads' = RemoveAt(reloads, i)
          /\ trouble' = trouble
               \cup (IF \/ reloads[i].seen # made \/ reloads[i].view # data[View]
                         \/ InsertUndecided
                     THEN {"raced"} ELSE {})
          /\ UNCHANGED <<pending, chain, inFlight, made, server, request, executed>>
  BY DEF ReloadMetadata, queue, remote
<1>2. reloads \in Seq(Reloads)
  BY QueueTypes
<1>3. ReloadsKnow'
  <2>1. \A k \in DOMAIN RemoveAt(reloads, i) :
            \E j \in DOMAIN reloads : RemoveAt(reloads, i)[k] = reloads[j]
    BY <1>2, RemoveAtFrom
  <2> QED
    BY <1>1, <2>1 DEF SyncInv, ReloadsKnow
<1>4. Unanswered' = Unanswered /\ Unexecuted' = Unexecuted
  BY <1>1 DEF Unanswered, Unexecuted
<1>5. ASSUME trouble' = {}, InSync
      PROVE  InSync'
  <2>1. /\ trouble = {} /\ reloads[i].seen = made /\ reloads[i].view = data[View]
        /\ ~InsertUndecided
    BY <1>1, <1>5
  <2>2. Len(executed) + Len(Unexecuted) = made /\ Follows
    BY <1>5 DEF InSync
  <2>3. Len(Unexecuted) = 0 /\ made = Len(executed)
    <3>1. /\ Unexecuted \in Seq(Entries) /\ Len(Unexecuted) \in Nat
          /\ executed \in Seq(Nat) /\ Len(executed) \in Nat /\ made \in Nat
      BY QueueTypes
    <3>2. made <= Len(executed)
      BY <1>1, <2>1 DEF SyncInv, ReloadsKnow
    <3> QED
      BY <2>2, <3>1, <3>2
  <2>4. data' = [server EXCEPT ![View] = data[View]]
    BY <1>1, <2>1, <2>3 DEF SyncInv, ReloadsKnow
  <2> DEFINE more == timer \/ reloads # <<>>
             more2 == timer' \/ reloads' # <<>>
  <2>5. PICK T : /\ Chain(T, server, Unexecuted)
                 /\ Accepts(T, Unexecuted) =>
                        Agrees(T[Len(Unexecuted)], data, Unanswered, more)
    BY <2>2 DEF Follows
  <2>6. T[Len(Unexecuted)] = server /\ Accepts(T, Unexecuted)
    <3>1. DOMAIN Unexecuted = {}
      BY <2>3, QueueTypes
    <3> QED
      BY <2>3, <2>5, <3>1 DEF Chain, Accepts
  <2>7. more \in BOOLEAN /\ more2 \in BOOLEAN
    BY DEF Inv, TypeOK, ScreenOK
  <2> HIDE DEF more, more2
  <2>8. Agrees(server, data', Unanswered, more2)
    BY <2>1, <2>4, <2>5, <2>6, <2>7, NoneInserts, QueueTypes, LoadedAgrees
  <2>9. Follows'
    BY <1>1, <1>4, <2>5, <2>6, <2>8 DEF Follows, more2
  <2> QED
    BY <1>1, <1>4, <2>2, <2>9 DEF InSync
<1>6. trouble' = {} => trouble = {}
  BY <1>1
<1> QED
  BY <1>1, <1>3, <1>4, <1>5, <1>6 DEF SyncInv, Missed

LEMMA NextSync == Inv /\ Inv' /\ StackInv /\ SyncInv /\ [Next]_vars => SyncInv'
<1> SUFFICES ASSUME Inv, Inv', StackInv, SyncInv, [Next]_vars PROVE SyncInv'
  OBVIOUS
<1>1. CASE User
  BY <1>1, UserApplies, ApplySync DEF SomeApplies
<1>2. CASE ServerExecutes \/ RequestFails
  BY <1>2, ServerSync
<1>3. CASE Answers
  BY <1>3, AnswerSync, AnswerErrorSync DEF Answers
<1>4. CASE TimerReloads \/ ServerReads
  BY <1>4, ReadSync
<1>5. CASE ReloadMetadata
  BY <1>5, ReloadSync
<1>6. CASE UNCHANGED vars
  BY <1>6 DEF vars, store, queue, screen, remote, SyncInv, ReloadsKnow, InSync, Missed,
              Follows, Unanswered, Unexecuted
<1> QED
  BY <1>1, <1>2, <1>3, <1>4, <1>5, <1>6 DEF Next, Finished

LEMMA InitSync == Init => SyncInv
<1> SUFFICES ASSUME Init PROVE SyncInv
  OBVIOUS
<1>1. /\ Unanswered = <<>> /\ Unexecuted = <<>> /\ data = FirstTable /\ server = FirstTable
      /\ made = 0 /\ executed = <<>> /\ reloads = <<>> /\ chain = "idle"
  BY DEF Init, Unanswered, Unexecuted
<1>2. FirstTable \in Tables
  BY FirstAssumption DEF FirstTable, Tables, FieldMaps
<1>3. FirstTable[View] \in FieldMaps
  BY FirstAssumption, Kinds DEF FirstTable, FieldMaps
<1>4. Agrees(FirstTable, FirstTable, <<>>, timer \/ reloads # <<>>)
  BY <1>3 DEF Agrees, RowsAgree, CopiesAgree, ColumnsAgree, ViewAgrees, SortsDue
<1> DEFINE T == [k \in 0 .. 0 |-> FirstTable]
<1>5. T \in [0 .. 0 -> Tables] /\ T[0] = FirstTable
  BY <1>2
<1> HIDE DEF T
<1>6. Chain(T, FirstTable, <<>>)
  BY <1>5 DEF Chain
<1>7. Follows
  BY <1>1, <1>4, <1>5, <1>6 DEF Follows
<1> QED
  BY <1>1, <1>7 DEF SyncInv, InSync, ReloadsKnow

(* The server and the screen agree in a store that waits for nothing. *)
LEMMA SyncMeansSame == Inv /\ SyncInv => QuietMeansInSync
<1> SUFFICES ASSUME Inv, SyncInv, Quiet, chain = "idle", trouble = {} PROVE data = server
  BY DEF QuietMeansInSync
<1>1. pending = <<>> /\ request = "none" /\ ~timer /\ reloads = <<>>
  BY DEF Quiet, Inv, TypeOK, QueueOK
<1>2. Unanswered = <<>> /\ Unexecuted = <<>>
  BY <1>1 DEF Unanswered, Unexecuted
<1>3. PICK T : /\ Chain(T, server, <<>>)
               /\ Accepts(T, <<>>) => Agrees(T[0], data, <<>>, timer \/ reloads # <<>>)
  BY <1>1, <1>2 DEF SyncInv, InSync, Missed, Follows
<1>4. T[0] = server /\ Accepts(T, <<>>)
  BY <1>3 DEF Chain, Accepts
<1>5. Agrees(server, data, <<>>, FALSE)
  BY <1>1, <1>3, <1>4
<1>6. data[View] = server[View]
  <2>1. /\ server[View] \in FieldMaps /\ data[View] \in FieldMaps
        /\ \A f \in Fields \ {"sorts"} : server[View][f] = data[View][f]
        /\ server[View]["sorts"] = data[View]["sorts"]
    BY <1>5 DEF Agrees, ViewAgrees, SortsDue
  <2>2. \A f \in Fields : server[View][f] = data[View][f]
    BY <2>1
  <2> QED
    BY <2>1, <2>2 DEF FieldMaps
<1>7. \A i \in Items : data[i] = server[i]
  BY <1>5, <1>6 DEF Agrees, RowsAgree, CopiesAgree, ColumnsAgree, Items
<1> QED
  BY <1>7, QueueTypes DEF Tables

(* Until something went wrong or raced, the table on the screen is that of  *)
(* the server as soon as the queue is empty and no reload is to come,      *)
(* whatever was done, undone, duplicated, sorted and reloaded before.      *)
THEOREM ScreenShowsServer == Spec => []QuietMeansInSync
<1>1. Init => Inv /\ StackInv /\ SyncInv
  BY InitInv, InitStacks, InitSync
<1>2. Inv /\ Inv' /\ StackInv /\ SyncInv /\ [Next]_vars => StackInv' /\ SyncInv'
  BY NextStacks, NextSync
<1>3. Inv /\ SyncInv => QuietMeansInSync
  BY SyncMeansSame
<1> QED
  BY <1>1, <1>2, <1>3, Invariance, PTL DEF Spec

-----------------------------------------------------------------------------
(* Undo: every item has a trail of what it was, and each operation of a      *)
(* stack leads from one place of the trail to the next, and back.          *)

(* An item whose cell was lost with its column: u is what p is, or p without *)
(* its cell, for the items of e.                                           *)
Pale(m) == IF m = Gone THEN Gone ELSE WithoutCell(m)
Near(e, u, p, i) == u = p \/ (i \in e /\ u = Pale(p))

(* What an operation makes of one item, m *)
Forth(m, op, i) ==
    CASE op.type = "delete_column" -> IF op.item = i THEN Gone ELSE Stripped(m, op.item, i)
      [] op.type = "delete_records" -> IF op.item = i THEN Gone ELSE m
      [] op.type = "insert_column" -> IF op.item = i THEN op.new ELSE m
      [] op.type \in DOMAIN FieldOf ->
           IF op.item # i \/ m = Gone THEN m ELSE [m EXCEPT ![FieldOf[op.type]] = op.new]
      [] OTHER -> m

(* An operation leads from a to b, its inverse back to a or near it, and     *)
(* cells are changed while their column is there.                          *)
Linked(e, a, op, b, i) ==
    /\ b = Forth(a, op, i)
    /\ Near(e, Forth(b, Invert(op, op.id), i), a, i)
    /\ i = Rated /\ op.type = "modify_records" => a # Gone

(* Undo goes back by the operations of its stack, redo forth. *)
Joined(e, kind, a, op, b, i) == IF kind = "undo" THEN Linked(e, a, op, b, i)
                                ELSE Linked(e, b, op, a, i)

Maps == FieldMaps \cup {Gone}

Trail(e, kind, s, m, i) ==
    \E w \in [0 .. Len(s) -> Maps] :
        /\ w[Len(s)] = m
        /\ kind = "undo" => w[0] = FirstTable[i]
        /\ \A k \in 1 .. Len(s) : Joined(e, kind, w[k - 1], s[k], w[k], i)

(* While the insertion of an undo or a redo is under way, one of the stacks  *)
(* is where the table will be: a is where undo starts, b where redo does.  *)
Coming(kind) == chain = "waiting" /\ Inserts(inFlight) /\ handler.kind = kind
NoneIsComing == ~Coming("undo") /\ ~Coming("redo")

Between(a, b, i) ==
    /\ Trail(emptied, "undo", undo, a, i)
    /\ Trail(emptied, "redo", redos, b, i)
    /\ NoneIsComing => a = b /\ Near(emptied, data[i], a, i)
    /\ Coming("undo") => Linked(emptied, a, handler.op, b, i) /\ Near(emptied, data[i], b, i)
    /\ Coming("redo") => Linked(emptied, a, handler.op, b, i) /\ Near(emptied, data[i], a, i)

(* What the answer of an insertion will push fits the insertion, and nobody  *)
(* else has inserted its column.                                           *)
ComingOK ==
    /\ Coming("undo") => /\ handler.op.type = "delete_column"
                         /\ handler.op.item = inFlight.op.item
                         /\ inFlight.op.new = handler.op.old
    /\ Coming("redo") => handler.op = inFlight.op
    /\ chain = "waiting" /\ handler.kind # "new" /\ Late(inFlight) => Inserts(inFlight)
    /\ \A op \in Undecided : op.type = "insert_column" => data[op.item] = Gone

(* Without its column no cell has a value, those that were lost aside. *)
CellsGone == data[Rated] = Gone => \A r \in Rows : data[r] = Pale(data[r]) \/ r \in emptied

Tracked == Columns \cup {r \in Rows : data[r] # Gone}

Trails == \A i \in Tracked : \E a, b \in Maps : Between(a, b, i)

TrailInv == trouble = {} /\ ops <= UndoLimit => ComingOK /\ CellsGone /\ Trails

LEMMA PaleFacts ==
    ASSUME NEW m \in Maps
    PROVE  /\ Pale(m) \in Maps /\ Pale(Pale(m)) = Pale(m)
           /\ Pale(m) = Gone <=> m = Gone
           /\ m # Gone => /\ m \in FieldMaps /\ Pale(m) \in FieldMaps
                          /\ Pale(m).cell = Empty
                          /\ \A f \in Fields \ {"cell"} : Pale(m)[f] = m[f]
<1>1. CASE m = Gone
  BY <1>1 DEF Pale
<1>2. CASE m # Gone
  <2>1. m \in FieldMaps /\ Pale(m) = [m EXCEPT !.cell = Empty]
    BY <1>2 DEF Maps, Pale, WithoutCell
  <2>2. Pale(m) \in FieldMaps
    BY <2>1, FirstAssumption DEF FieldMaps
  <2>3. Pale(m) # Gone
    BY <2>2, GoneAssumption DEF FieldMaps
  <2>4. Pale(Pale(m)) = [Pale(m) EXCEPT !.cell = Empty]
    BY <2>3 DEF Pale, WithoutCell
  <2>5. /\ Pale(m).cell = Empty /\ "cell" \in Fields
        /\ \A f \in Fields \ {"cell"} : Pale(m)[f] = m[f]
    BY <2>1 DEF FieldMaps, Fields
  <2>6. Pale(Pale(m)) = Pale(m)
    BY <2>2, <2>4, <2>5 DEF FieldMaps
  <2> QED
    BY <1>2, <2>1, <2>2, <2>3, <2>5, <2>6 DEF Maps
<1> QED
  BY <1>1, <1>2

(* Setting a field and losing the cell *)
LEMMA PaleSet ==
    ASSUME NEW m \in Maps, m # Gone, NEW f \in Fields, NEW v \in Values
    PROVE  /\ [m EXCEPT ![f] = v] \in Maps /\ [m EXCEPT ![f] = v] # Gone
           /\ f = "cell" => [Pale(m) EXCEPT ![f] = v] = [m EXCEPT ![f] = v]
           /\ f # "cell" => [Pale(m) EXCEPT ![f] = v] = Pale([m EXCEPT ![f] = v])
<1>1. m \in FieldMaps /\ Pale(m) = [m EXCEPT !.cell = Empty] /\ Pale(m) \in FieldMaps
  BY PaleFacts DEF Pale, WithoutCell
<1>2. [m EXCEPT ![f] = v] \in FieldMaps
  BY <1>1 DEF FieldMaps
<1>3. [m EXCEPT ![f] = v] # Gone
  BY <1>2, GoneAssumption DEF FieldMaps
<1>4. f = "cell" => [Pale(m) EXCEPT ![f] = v] = [m EXCEPT ![f] = v]
  BY <1>1 DEF FieldMaps
<1>5. ASSUME f # "cell", NEW n \in FieldMaps, n # Gone, n = [m EXCEPT ![f] = v],
             NEW o \in FieldMaps, o = [Pale(m) EXCEPT ![f] = v]
      PROVE  o = Pale(n)
  <2>1. /\ Pale(n) \in FieldMaps /\ Pale(n).cell = Empty
        /\ \A g \in Fields \ {"cell"} : Pale(n)[g] = n[g]
    BY <1>5, PaleFacts DEF Maps
  <2>2. /\ Pale(m).cell = Empty
        /\ \A g \in Fields \ {"cell"} : Pale(m)[g] = m[g]
    BY PaleFacts
  <2>3. \A g \in Fields : o[g] = Pale(n)[g]
    BY <1>1, <1>5, <2>1, <2>2 DEF FieldMaps
  <2> QED
    BY <1>5, <2>1, <2>3 DEF FieldMaps
<1>6. f # "cell" => [Pale(m) EXCEPT ![f] = v] = Pale([m EXCEPT ![f] = v])
  <2>1. [Pale(m) EXCEPT ![f] = v] \in FieldMaps
    BY <1>1 DEF FieldMaps
  <2> QED
    BY <1>2, <1>3, <1>5, <2>1
<1> QED
  BY <1>2, <1>3, <1>4, <1>6 DEF Maps

LEMMA StrippedIs ==
    ASSUME NEW m, NEW c, NEW i
    PROVE  Stripped(m, c, i) = IF i \in Holders(c) THEN Pale(m) ELSE m
BY DEF Stripped, Pale

LEMMA NearWider ==
    ASSUME NEW d, NEW e, d \subseteq e, NEW u, NEW p, NEW i, Near(d, u, p, i)
    PROVE  Near(e, u, p, i)
BY DEF Near

LEMMA NearTrans ==
    ASSUME NEW e, NEW u, NEW p, NEW q \in Maps, NEW i, Near(e, u, p, i), Near(e, p, q, i)
    PROVE  Near(e, u, q, i)
<1>1. Pale(Pale(q)) = Pale(q)
  BY PaleFacts
<1> QED
  BY <1>1 DEF Near

LEMMA LinkedWider ==
    ASSUME NEW d, NEW e, d \subseteq e, NEW a, NEW op, NEW b, NEW i, Linked(d, a, op, b, i)
    PROVE  Linked(e, a, op, b, i)
BY NearWider DEF Linked

LEMMA TrailWider ==
    ASSUME NEW d, NEW e, d \subseteq e, NEW kind, NEW s, NEW m, NEW i, Trail(d, kind, s, m, i)
    PROVE  Trail(e, kind, s, m, i)
<1>1. PICK w \in [0 .. Len(s) -> Maps] :
          /\ w[Len(s)] = m
          /\ kind = "undo" => w[0] = FirstTable[i]
          /\ \A k \in 1 .. Len(s) : Joined(d, kind, w[k - 1], s[k], w[k], i)
  BY DEF Trail
<1>2. ASSUME NEW k \in 1 .. Len(s)
      PROVE  Joined(e, kind, w[k - 1], s[k], w[k], i)
  <2>1. Joined(d, kind, w[k - 1], s[k], w[k], i)
    BY <1>1
  <2> QED
    BY <2>1, LinkedWider DEF Joined
<1> QED
  BY <1>1, <1>2 DEF Trail

(* The effect on a table is the effect on its items. *)
LEMMA ApplyForth ==
    ASSUME NEW t \in Tables, NEW op \in Ops, NEW i \in Items,
           op.type = "delete_column" /\ i \in Holders(op.item) => t[op.item] # Gone
    PROVE  Apply(t, op)[i] = Forth(t[i], op, i)
<1>1. DOMAIN t = Items /\ \A j \in Items : t[j] \in FieldMaps \cup {Gone}
  BY DEF Tables
<1>2. CASE op.type \in DOMAIN FieldOf
  <2>1. Apply(t, op) = IF t[op.item] = Gone THEN t
                       ELSE [t EXCEPT ![op.item][FieldOf[op.type]] = op.new]
    BY <1>2 DEF Apply, FieldOf
  <2>2. Forth(t[i], op, i) = IF op.item # i \/ t[i] = Gone THEN t[i]
                             ELSE [t[i] EXCEPT ![FieldOf[op.type]] = op.new]
    BY <1>2 DEF Forth, FieldOf
  <2> QED
    BY <1>1, <2>1, <2>2
<1>3. CASE op.type = "delete_records"
  <2>1. Apply(t, op) = [t EXCEPT ![op.item] = Gone]
    BY <1>3 DEF Apply, FieldOf
  <2>2. Forth(t[i], op, i) = IF op.item = i THEN Gone ELSE t[i]
    BY <1>3 DEF Forth, FieldOf
  <2> QED
    BY <1>1, <2>1, <2>2
<1>6. CASE op.type = "delete_column"
  <2>1. Apply(t, op) = IF t[op.item] = Gone THEN t ELSE WithoutColumn(t, op.item)
    BY <1>6 DEF Apply, FieldOf
  <2>2. Forth(t[i], op, i) = IF op.item = i THEN Gone ELSE Stripped(t[i], op.item, i)
    BY <1>6 DEF Forth, FieldOf
  <2>3. op.item \in Columns
    BY <1>6, OpKinds
  <2>4. CASE t[op.item] = Gone
    BY <1>6, <2>1, <2>2, <2>4 DEF Stripped
  <2>5. CASE t[op.item] # Gone
    BY <2>1, <2>2, <2>3, <2>5, WithoutColumnAt
  <2> QED
    BY <2>4, <2>5
<1>4. CASE op.type = "insert_column"
  <2>1. Apply(t, op) = [t EXCEPT ![op.item] = op.new]
    BY <1>4 DEF Apply, FieldOf
  <2>2. Forth(t[i], op, i) = IF op.item # i THEN t[i] ELSE op.new
    BY <1>4 DEF Forth, FieldOf
  <2> QED
    BY <1>1, <2>1, <2>2
<1>5. CASE op.type \in {"modify_column_width", "duplicate_record"}
  BY <1>5 DEF Apply, Forth, FieldOf
<1> QED
  BY <1>2, <1>3, <1>4, <1>5, <1>6, OpKinds DEF LocalOnly

LEMMA ForthType ==
    ASSUME NEW m \in Maps, NEW op \in Ops, NEW i
    PROVE  Forth(m, op, i) \in Maps
<1>1. CASE op.type \in DOMAIN FieldOf
  <2>1. \/ Forth(m, op, i) = m
        \/ m # Gone /\ Forth(m, op, i) = [m EXCEPT ![FieldOf[op.type]] = op.new]
    BY <1>1 DEF Forth, FieldOf
  <2>2. op.new \in Values /\ FieldOf[op.type] \in Fields
    BY <1>1, OpKinds
  <2>3. m # Gone => [m EXCEPT ![FieldOf[op.type]] = op.new] \in Maps
    BY <2>2, PaleSet
  <2> QED
    BY <2>1, <2>3
<1>2. CASE op.type \notin DOMAIN FieldOf
  <2>1. \/ Forth(m, op, i) \in {m, Gone, Stripped(m, op.item, i)}
        \/ op.type = "insert_column" /\ Forth(m, op, i) = op.new
    BY <1>2 DEF Forth
  <2>2. Stripped(m, op.item, i) \in Maps
    BY PaleFacts, StrippedIs
  <2> QED
    BY <2>1, <2>2, OpKinds DEF Maps
<1> QED
  BY <1>1, <1>2

(* Nothing but an insertion brings an item back. *)
LEMMA ForthGone ==
    ASSUME NEW op, op.type # "insert_column", NEW i
    PROVE  Forth(Gone, op, i) = Gone
<1>1. CASE op.type \in DOMAIN FieldOf
  BY <1>1 DEF Forth, FieldOf
<1>2. CASE op.type \notin DOMAIN FieldOf
  BY <1>2 DEF Forth, Stripped
<1> QED
  BY <1>1, <1>2

(* An operation keeps what is near. *)
LEMMA ForthNear ==
    ASSUME NEW e, NEW u, NEW p \in Maps, NEW op \in Ops, NEW i, Near(e, u, p, i)
    PROVE  Near(e, Forth(u, op, i), Forth(p, op, i), i)
<1> SUFFICES ASSUME i \in e, u = Pale(p)
             PROVE  Forth(u, op, i) = Forth(p, op, i) \/ Forth(u, op, i) = Pale(Forth(p, op, i))
  BY DEF Near
<1>1. CASE op.type \in DOMAIN FieldOf
  <2>1. \A x : Forth(x, op, i) = IF op.item # i \/ x = Gone THEN x
                                 ELSE [x EXCEPT ![FieldOf[op.type]] = op.new]
    BY <1>1 DEF Forth, FieldOf
  <2>2. op.new \in Values /\ FieldOf[op.type] \in Fields
    BY <1>1, OpKinds
  <2>3. u = Gone <=> p = Gone
    BY PaleFacts
  <2>4. CASE op.item # i \/ p = Gone
    BY <2>1, <2>3, <2>4
  <2>5. CASE ~(op.item # i \/ p = Gone)
    <3> DEFINE f == FieldOf[op.type]
    <3>1. /\ Forth(u, op, i) = [u EXCEPT ![f] = op.new]
          /\ Forth(p, op, i) = [p EXCEPT ![f] = op.new]
      BY <2>1, <2>3, <2>5
    <3> HIDE DEF f
    <3>2. \/ [u EXCEPT ![f] = op.new] = [p EXCEPT ![f] = op.new]
          \/ [u EXCEPT ![f] = op.new] = Pale([p EXCEPT ![f] = op.new])
      BY <2>2, <2>5, PaleSet DEF f
    <3> QED
      BY <3>1, <3>2
  <2> QED
    BY <2>4, <2>5
<1>2. CASE op.type = "delete_column"
  <2>1. \A x : Forth(x, op, i) = IF op.item = i THEN Gone ELSE Stripped(x, op.item, i)
    BY <1>2 DEF Forth, FieldOf
  <2> QED
    BY <2>1, StrippedIs, PaleFacts
<1>3. CASE op.type \notin DOMAIN FieldOf \cup {"delete_column"}
  BY <1>3 DEF Forth
<1> QED
  BY <1>1, <1>2, <1>3

(* Deleting a column and changing anything else may change places. *)
LEMMA StripForth ==
    ASSUME NEW m \in Maps, NEW op \in Ops, NEW i, NEW c, op.type # "insert_column",
           c = Rated => op.type # "modify_records"
    PROVE  Stripped(Forth(m, op, i), c, i) = Forth(Stripped(m, c, i), op, i)
<1>1. CASE i \notin Holders(c)
  BY <1>1, StrippedIs
<1>2. CASE i \in Holders(c)
  <2>1. c = Rated
    BY <1>2 DEF Holders
  <2>2. \A x : Stripped(x, c, i) = Pale(x)
    BY <1>2, StrippedIs
  <2>3. CASE op.type \in DOMAIN FieldOf
    <3>1. \A x : Forth(x, op, i) = IF op.item # i \/ x = Gone THEN x
                                   ELSE [x EXCEPT ![FieldOf[op.type]] = op.new]
      BY <2>3 DEF Forth, FieldOf
    <3>2. op.new \in Values /\ FieldOf[op.type] \in Fields /\ FieldOf[op.type] # "cell"
      <4>1. op.type # "modify_records"
        BY <2>1
      <4>2. FieldOf[op.type] # "cell"
        BY <2>3, <4>1 DEF FieldOf
      <4> QED
        BY <2>3, <4>2, OpKinds
    <3>3. Pale(m) = Gone <=> m = Gone
      BY PaleFacts
    <3>4. CASE op.item # i \/ m = Gone
      BY <2>2, <3>1, <3>3, <3>4
    <3>5. CASE ~(op.item # i \/ m = Gone)
      <4> DEFINE f == FieldOf[op.type]
      <4>1. /\ Forth(Pale(m), op, i) = [Pale(m) EXCEPT ![f] = op.new]
            /\ Forth(m, op, i) = [m EXCEPT ![f] = op.new]
        BY <3>1, <3>3, <3>5
      <4> HIDE DEF f
      <4>2. [Pale(m) EXCEPT ![f] = op.new] = Pale([m EXCEPT ![f] = op.new])
        BY <3>2, <3>5, PaleSet DEF f
      <4> QED
        BY <2>2, <4>1, <4>2
    <3> QED
      BY <3>4, <3>5
  <2>4. CASE op.type = "delete_column"
    <3>1. \A x : Forth(x, op, i) = IF op.item = i THEN Gone ELSE Stripped(x, op.item, i)
      BY <2>4 DEF Forth, FieldOf
    <3>2. Pale(Gone) = Gone
      BY DEF Pale
    <3> QED
      BY <2>2, <3>1, <3>2, StrippedIs, PaleFacts
  <2>5. CASE op.type = "delete_records"
    <3>1. \A x : Forth(x, op, i) = IF op.item = i THEN Gone ELSE x
      BY <2>5 DEF Forth, FieldOf
    <3>2. Pale(Gone) = Gone
      BY DEF Pale
    <3> QED
      BY <2>2, <3>1, <3>2
  <2>6. CASE op.type \notin DOMAIN FieldOf \cup {"delete_column", "delete_records"}
    BY <2>6 DEF Forth
  <2> QED
    BY <2>3, <2>4, <2>5, <2>6
<1> QED
  BY <1>1, <1>2

(* Inverses *)
LEMMA InvertKinds ==
    ASSUME NEW op \in StackOps, NEW id
    PROVE  /\ op.type \in DOMAIN FieldOf \ {"modify_column_order"} =>
                  /\ Invert(op, id).type = op.type /\ Invert(op, id).item = op.item
                  /\ Invert(op, id).new = op.old
           /\ op.type = "insert_column" =>
                  Invert(op, id).type = "delete_column" /\ Invert(op, id).item = op.item
           /\ op.type = "delete_column" =>
                  /\ Invert(op, id).type = "insert_column" /\ Invert(op, id).item = op.item
                  /\ Invert(op, id).new = op.old
           /\ op.type \in {"modify_column_order", "modify_column_width"} =>
                  Invert(op, id).type = "modify_column_width"
           /\ op.type \in DOMAIN FieldOf
                  \cup {"insert_column", "delete_column", "modify_column_width"}
<1>1. CASE op \in FieldOps
  BY <1>1 DEF Invert, FieldOps, FieldOf, NoOp
<1>2. CASE op \in WidthOps
  BY <1>2 DEF Invert, WidthOps, LocalOnly, FieldOf
<1>3. CASE op \in RecordOps
  BY <1>3 DEF RecordOps, StackOps, Undoable
<1>4. CASE op \in InsertOps
  BY <1>4 DEF Invert, InsertOps, FieldOf
<1>5. CASE op \in DeleteOps
  BY <1>5 DEF Invert, DeleteOps, FieldOf
<1> QED
  BY <1>1, <1>2, <1>3, <1>4, <1>5 DEF StackOps, Ops

(* The identifier of an inverse does not matter to tables. *)
LEMMA InvertForth ==
    ASSUME NEW op \in StackOps, NEW x, NEW y, NEW m, NEW i
    PROVE  Forth(m, Invert(op, x), i) = Forth(m, Invert(op, y), i)
<1> DEFINE p == Invert(op, x)
           q == Invert(op, y)
<1>1. /\ p.type = q.type
      /\ p.type # "modify_column_width" => p.item = q.item
      /\ p.type \in DOMAIN FieldOf \cup {"insert_column"} => p.new = q.new
  BY InvertKinds DEF FieldOf
<1> HIDE DEF p, q
<1>2. CASE p.type \in DOMAIN FieldOf
  <2>1. \A o : o.type \in DOMAIN FieldOf =>
            Forth(m, o, i) = IF o.item # i \/ m = Gone THEN m
                             ELSE [m EXCEPT ![FieldOf[o.type]] = o.new]
    BY DEF Forth, FieldOf
  <2>2. p.item = q.item /\ p.new = q.new
    BY <1>1, <1>2 DEF FieldOf
  <2> QED
    BY <1>1, <1>2, <2>1, <2>2 DEF p, q
<1>3. CASE p.type = "delete_column"
  BY <1>1, <1>3 DEF Forth, p, q
<1>4. CASE p.type = "insert_column"
  BY <1>1, <1>4 DEF Forth, p, q
<1>5. CASE p.type = "modify_column_width"
  BY <1>1, <1>5 DEF Forth, FieldOf, p, q
<1> QED
  BY <1>2, <1>3, <1>4, <1>5, InvertKinds DEF p

(* A trail grows and shrinks with its stack. *)
LEMMA PushTrail ==
    ASSUME NEW e, NEW kind, NEW s \in Seq(StackOps), NEW op \in StackOps,
           NEW m \in Maps, NEW n \in Maps, NEW i,
           Trail(e, kind, s, m, i), Joined(e, kind, m, op, n, i)
    PROVE  Trail(e, kind, Append(s, op), n, i)
<1> DEFINE t == Append(s, op)
           l == Len(s)
<1>1. PICK w \in [0 .. l -> Maps] :
          /\ w[l] = m
          /\ kind = "undo" => w[0] = FirstTable[i]
          /\ \A k \in 1 .. l : Joined(e, kind, w[k - 1], s[k], w[k], i)
  BY DEF Trail
<1>2. l \in Nat /\ Len(t) = l + 1 /\ t[l + 1] = op /\ \A k \in 1 .. l : t[k] = s[k]
  OBVIOUS
<1> HIDE DEF t, l
<1> DEFINE v == [k \in 0 .. l + 1 |-> IF k = l + 1 THEN n ELSE w[k]]
<1>3. /\ v \in [0 .. l + 1 -> Maps] /\ v[l + 1] = n
      /\ \A k \in 0 .. l : v[k] = w[k]
  BY <1>1, <1>2
<1> HIDE DEF v
<1>4. \A k \in 1 .. l + 1 : Joined(e, kind, v[k - 1], t[k], v[k], i)
  <2> TAKE k \in 1 .. l + 1
  <2>1. CASE k = l + 1
    <3>1. k - 1 = l /\ l \in 0 .. l
      BY <1>2, <2>1
    <3>2. v[k - 1] = m /\ t[k] = op /\ v[k] = n
      BY <1>1, <1>2, <1>3, <2>1, <3>1
    <3> QED
      BY <3>2
  <2>2. CASE k # l + 1
    <3>1. k \in 1 .. l /\ k \in 0 .. l /\ k - 1 \in 0 .. l
      BY <1>2, <2>2
    <3>2. v[k - 1] = w[k - 1] /\ t[k] = s[k] /\ v[k] = w[k]
      BY <1>2, <1>3, <3>1
    <3> QED
      BY <1>1, <3>1, <3>2
  <2> QED
    BY <2>1, <2>2
<1>5. 0 \in 0 .. l
  BY <1>2
<1>6. kind = "undo" => v[0] = FirstTable[i]
  BY <1>1, <1>3, <1>5
<1>7. Trail(e, kind, t, n, i)
  BY <1>2, <1>3, <1>4, <1>6 DEF Trail
<1> QED
  BY <1>7 DEF t

LEMMA PopTrail ==
    ASSUME NEW e, NEW kind, NEW s \in Seq(StackOps), s # <<>>, NEW m, NEW i, Trail(e, kind, s, m, i)
    PROVE  \E n \in Maps : Trail(e, kind, Front(s), n, i) /\ Joined(e, kind, n, Last(s), m, i)
<1> DEFINE t == Front(s)
           l == Len(s) - 1
<1>1. PICK w \in [0 .. Len(s) -> Maps] :
          /\ w[Len(s)] = m
          /\ kind = "undo" => w[0] = FirstTable[i]
          /\ \A k \in 1 .. Len(s) : Joined(e, kind, w[k - 1], s[k], w[k], i)
  BY DEF Trail
<1>2. Len(s) \in Nat /\ l \in Nat /\ Len(s) = l + 1 /\ Last(s) = s[l + 1]
  BY DEF Last
<1>3. Len(t) = l /\ \A k \in 1 .. l : t[k] = s[k]
  BY <1>2, SubSeqProperties DEF Front
<1> HIDE DEF t, l
<1> DEFINE v == [k \in 0 .. l |-> w[k]]
<1>4. v \in [0 .. l -> Maps] /\ \A k \in 0 .. l : v[k] = w[k]
  BY <1>1, <1>2
<1> HIDE DEF v
<1>5. \A k \in 1 .. l : Joined(e, kind, v[k - 1], t[k], v[k], i)
  <2> TAKE k \in 1 .. l
  <2>1. k \in 1 .. Len(s) /\ k \in 0 .. l /\ k - 1 \in 0 .. l
    BY <1>2
  <2>2. v[k - 1] = w[k - 1] /\ t[k] = s[k] /\ v[k] = w[k]
    BY <1>3, <1>4, <2>1
  <2> QED
    BY <1>1, <2>1, <2>2
<1>6. 0 \in 0 .. l /\ l \in 0 .. l
  BY <1>2
<1>7. Trail(e, kind, t, v[l], i)
  BY <1>1, <1>3, <1>4, <1>5, <1>6 DEF Trail
<1>8. Joined(e, kind, v[l], Last(s), m, i)
  <2>1. l + 1 \in 1 .. Len(s) /\ (l + 1) - 1 = l
    BY <1>2
  <2>2. Joined(e, kind, w[(l + 1) - 1], s[l + 1], w[l + 1], i)
    BY <1>1, <2>1
  <2> QED
    BY <1>1, <1>2, <1>4, <1>6, <2>1, <2>2
<1> QED
  BY <1>4, <1>6, <1>7, <1>8 DEF t

LEMMA EmptyTrail ==
    ASSUME NEW e, NEW kind, NEW m \in Maps, NEW i, kind = "undo" => m = FirstTable[i]
    PROVE  Trail(e, kind, <<>>, m, i)
<1> DEFINE w == [k \in 0 .. 0 |-> m]
<1>1. w \in [0 .. 0 -> Maps] /\ w[0] = m
  OBVIOUS
<1> HIDE DEF w
<1>2. Len(<<>>) = 0 /\ 1 .. 0 = {}
  OBVIOUS
<1> QED
  BY <1>1, <1>2 DEF Trail

(* An operation on something else leads back. *)
LEMMA LinkedOther ==
    ASSUME NEW e, NEW op \in StackOps, NEW m, NEW i,
           \/ op.type = "modify_column_width"
           \/ /\ op.item # i
              /\ op.type \in {"insert_column", "delete_column"} => i \notin Holders(op.item),
           i = Rated /\ op.type = "modify_records" => m # Gone
    PROVE  Linked(e, m, op, m, i) /\ Forth(m, op, i) = m
<1> DEFINE p == Invert(op, op.id)
           Elsewhere(o) == \/ o.type = "modify_column_width"
                           \/ o.item # i /\ (o.type = "delete_column" => i \notin Holders(o.item))
<1>1. ASSUME NEW o, Elsewhere(o)
      PROVE  Forth(m, o, i) = m
  BY <1>1 DEF Forth, FieldOf, Stripped
<1>2. Elsewhere(op)
  OBVIOUS
<1>3. Elsewhere(p)
  <2>1. CASE op.type \in {"modify_column_order", "modify_column_width"}
    BY <2>1, InvertKinds
  <2>2. CASE op.type \notin {"modify_column_order", "modify_column_width"}
    <3>1. /\ p.item = op.item
          /\ p.type = "delete_column" => op.type \in {"insert_column", "delete_column"}
      BY <2>2, InvertKinds DEF FieldOf
    <3> QED
      BY <2>2, <3>1
  <2> QED
    BY <2>1, <2>2
<1> HIDE DEF p
<1>4. Forth(m, op, i) = m /\ Forth(m, p, i) = m
  BY <1>1, <1>2, <1>3
<1> QED
  BY <1>4 DEF Linked, Near, p

(* An insertion leads back when no row has a value in the new column. *)
LEMMA LinkedInsert ==
    ASSUME NEW e, NEW op \in StackOps, op.type = "insert_column", NEW m, NEW i,
           op.item = i => m = Gone,
           i \in Holders(op.item) => Near(e, Pale(m), m, i)
    PROVE  Linked(e, m, op, Forth(m, op, i), i)
<1> DEFINE p == Invert(op, op.id)
<1>1. p.type = "delete_column" /\ p.item = op.item
  BY InvertKinds
<1> HIDE DEF p
<1>2. \A x : Forth(x, p, i) = IF op.item = i THEN Gone ELSE Stripped(x, op.item, i)
  BY <1>1 DEF Forth, FieldOf
<1>3. op.item # i => Forth(m, op, i) = m
  BY DEF Forth, FieldOf
<1>4. Near(e, Forth(Forth(m, op, i), p, i), m, i)
  BY <1>2, <1>3, StrippedIs DEF Near
<1> QED
  BY <1>4 DEF Linked, p

(* What a new operation changes can be changed back, but for lost cells, from *)
(* a place near the table.                                                 *)
LEMMA LinkedNew ==
    ASSUME Inv, NEW op \in StackOps, op.type \notin AfterServer \cup LocalOnly,
           Seen(op), Known(op), NEW i \in Rows \cup Columns, NEW a \in Maps,
           NEW e, emptied \subseteq e, Losing(data, op) \subseteq e,
           Near(emptied, data[i], a, i)
    PROVE  Linked(e, a, op, Forth(a, op, i), i)
<1> DEFINE p == Invert(op, op.id)
           b == Forth(a, op, i)
<1>1. /\ i \in Items \ {View} /\ data \in Tables /\ data[i] \in Maps
      /\ i \in Columns => data[i] = a
  <2>1. emptied \subseteq Rows \cup Copies
    BY DEF Inv, TypeOK, StoreOK
  <2>2. i \in Items \ {View}
    BY Kinds
  <2>3. i \in Columns => data[i] = a
    BY <2>1, Kinds DEF Near
  <2> QED
    BY <2>2, <2>3, QueueTypes DEF Tables, Maps
<1>2. i = Rated /\ op.type = "modify_records" => a # Gone
  BY <1>1, RatedAssumption DEF Known
<1>3. CASE op.type \in DOMAIN FieldOf
  <2>1. CASE op.item # i
    <3>1. Linked(e, a, op, a, i) /\ b = a
      BY <1>2, <1>3, <2>1, LinkedOther DEF FieldOf
    <3> QED
      BY <3>1
  <2>2. CASE op.item = i
    <3> DEFINE f == FieldOf[op.type]
    <3>1. op.type # "modify_column_order"
      BY <1>1, <2>2 DEF Known
    <3>2. p.type = op.type /\ p.item = i /\ p.new = op.old
      BY <1>3, <2>2, <3>1, InvertKinds
    <3>3. data[i] # Gone /\ op.old = data[i][f]
      BY <1>3, <2>2 DEF Seen, Known
    <3>4. f \in Fields /\ op.new \in Values
      BY <1>3, OpKinds DEF StackOps
    <3>5. a # Gone /\ a \in FieldMaps
      BY <1>1, <3>3, PaleFacts DEF Near, Maps
    <3>6. op.old = a[f] \/ (i \in emptied /\ f = "cell" /\ op.old = Empty)
      <4>1. data[i] = a \/ (i \in emptied /\ data[i] = Pale(a))
        BY DEF Near
      <4>2. Pale(a)[f] = IF f = "cell" THEN Empty ELSE a[f]
        BY <3>4, <3>5, PaleFacts
      <4> QED
        BY <3>3, <4>1, <4>2
    <3>7. \A o, x : o.type = op.type /\ o.item = i /\ x # Gone =>
              Forth(x, o, i) = [x EXCEPT ![f] = o.new]
      BY <1>3 DEF Forth, FieldOf
    <3>8. b = [a EXCEPT ![f] = op.new]
      BY <2>2, <3>5, <3>7
    <3> HIDE DEF p, b, f
    <3>9. b \in FieldMaps /\ b # Gone
      <4>1. b \in FieldMaps
        BY <3>4, <3>5, <3>8 DEF FieldMaps
      <4> QED
        BY <4>1, GoneAssumption DEF FieldMaps
    <3>10. Forth(b, p, i) = [b EXCEPT ![f] = op.old]
      BY <3>2, <3>7, <3>9
    <3>11. \/ [b EXCEPT ![f] = op.old] = a
           \/ i \in emptied /\ [b EXCEPT ![f] = op.old] = Pale(a)
      <4>1. CASE op.old = a[f]
        BY <3>4, <3>5, <3>8, <4>1 DEF FieldMaps
      <4>2. CASE i \in emptied /\ f = "cell" /\ op.old = Empty
        <5>1. Pale(a) = [a EXCEPT !["cell"] = Empty]
          BY <3>5 DEF Pale, WithoutCell
        <5> QED
          BY <3>4, <3>5, <3>8, <4>2, <5>1 DEF FieldMaps
      <4> QED
        BY <3>6, <4>1, <4>2
    <3>12. Near(e, Forth(b, p, i), a, i)
      BY <3>10, <3>11 DEF Near
    <3> QED
      BY <1>2, <3>12 DEF Linked, p, b
  <2> QED
    BY <2>1, <2>2
<1>4. CASE op.type = "delete_column"
  <2>1. p.type = "insert_column" /\ p.item = op.item /\ p.new = op.old
    BY <1>4, InvertKinds
  <2>2. op.old = data[op.item] /\ data[op.item] # Gone /\ op.item \in Columns
    BY <1>4, OpKinds DEF Known, Seen, StackOps, AfterServer, LocalOnly
  <2>3. b = IF op.item = i THEN Gone ELSE Stripped(a, op.item, i)
    BY <1>4 DEF Forth, FieldOf
  <2> HIDE DEF p, b
  <2>4. \A x : Forth(x, p, i) = IF op.item = i THEN op.old ELSE x
    BY <2>1 DEF Forth, FieldOf
  <2>5. CASE op.item = i
    <3>1. Forth(b, p, i) = a
      BY <1>1, <2>2, <2>4, <2>5
    <3> QED
      BY <1>2, <3>1 DEF Linked, Near, p, b
  <2>6. CASE op.item # i /\ i \notin Holders(op.item)
    <3>1. Forth(b, p, i) = a
      BY <2>3, <2>4, <2>6, StrippedIs
    <3> QED
      BY <1>2, <3>1 DEF Linked, Near, p, b
  <2>7. CASE op.item # i /\ i \in Holders(op.item)
    <3>1. Forth(b, p, i) = Pale(a)
      BY <2>3, <2>4, <2>7, StrippedIs
    <3>2. i \in e \/ Pale(a) = a
      <4> SUFFICES ASSUME i \notin e PROVE Pale(a) = a
        OBVIOUS
      <4>1. data[i] = a
        BY DEF Near
      <4>2. Apply(data, op)[i] = Forth(data[i], op, i)
        BY <1>1, <2>2, ApplyForth DEF StackOps
      <4>3. Forth(data[i], op, i) = Pale(a)
        BY <1>4, <2>7, <4>1, StrippedIs DEF Forth, FieldOf
      <4>4. i \in Rows \cup Copies
        BY <2>7 DEF Holders
      <4> QED
        BY <1>4, <4>1, <4>2, <4>3, <4>4 DEF Losing
    <3>3. Near(e, Forth(b, p, i), a, i)
      BY <3>1, <3>2 DEF Near
    <3> QED
      BY <1>2, <3>3 DEF Linked, p, b
  <2> QED
    BY <2>5, <2>6, <2>7
<1> QED
  BY <1>3, <1>4, InvertKinds DEF AfterServer, LocalOnly

(* What a deletion or an insertion of a column leads to and what follows    *)
(* may change places.                                                      *)
LEMMA LinkedCommutes ==
    ASSUME NEW e, NEW a \in Maps, NEW op \in StackOps,
           op.type \in {"insert_column", "delete_column"},
           NEW b \in Maps, NEW i, Linked(e, a, op, b, i),
           NEW x \in Ops, x.type # "insert_column",
           x.item # op.item \/ x.type = "modify_column_width",
           op.item = Rated => x.type # "modify_records"
    PROVE  Linked(e, Forth(a, x, i), op, Forth(b, x, i), i)
<1> DEFINE p == Invert(op, op.id)
           Changes(o) == /\ o.type \in {"insert_column", "delete_column"}
                         /\ o.item = op.item
<1>1. ASSUME NEW o, Changes(o), NEW m \in Maps
      PROVE  Forth(Forth(m, x, i), o, i) = Forth(Forth(m, o, i), x, i)
  <2>1. CASE o.item = i
    <3>1. \A y : Forth(y, x, i) = y
      <4>1. CASE x.type = "modify_column_width"
        BY <4>1 DEF Forth, FieldOf
      <4>2. CASE x.item # i
        <5>1. i \notin Holders(x.item)
          <6>1. i \in Columns
            BY <1>1, <2>1, OpKinds DEF StackOps
          <6> QED
            BY <6>1, Kinds DEF Holders
        <5> QED
          BY <4>2, <5>1 DEF Forth, FieldOf, Stripped
      <4> QED
        BY <1>1, <2>1, <4>1, <4>2
    <3> QED
      BY <3>1
  <2>2. CASE o.item # i /\ o.type = "insert_column"
    <3>1. \A y : Forth(y, o, i) = y
      BY <2>2 DEF Forth, FieldOf
    <3> QED
      BY <3>1
  <2>3. CASE o.item # i /\ o.type = "delete_column"
    <3>1. \A y : Forth(y, o, i) = Stripped(y, op.item, i)
      BY <1>1, <2>3 DEF Forth, FieldOf
    <3>2. Stripped(Forth(m, x, i), op.item, i) = Forth(Stripped(m, op.item, i), x, i)
      BY StripForth
    <3> QED
      BY <3>1, <3>2
  <2> QED
    BY <1>1, <2>1, <2>2, <2>3
<1>2. Changes(op) /\ Changes(p)
  BY InvertKinds
<1> HIDE DEF p
<1>3. b = Forth(a, op, i) /\ Near(e, Forth(b, p, i), a, i)
  BY DEF Linked, p
<1>4. Forth(Forth(a, x, i), op, i) = Forth(b, x, i)
  BY <1>1, <1>2, <1>3
<1>5. Near(e, Forth(Forth(b, x, i), p, i), Forth(a, x, i), i)
  <2>1. Forth(Forth(b, x, i), p, i) = Forth(Forth(b, p, i), x, i)
    BY <1>1, <1>2
  <2>2. Near(e, Forth(Forth(b, p, i), x, i), Forth(a, x, i), i)
    BY <1>3, ForthNear
  <2> QED
    BY <2>1, <2>2
<1> QED
  BY <1>4, <1>5 DEF Linked, p

(* A stack that holds nothing twice is no longer than what the user did. *)
LEMMA FewOnce ==
    ASSUME NEW s \in Seq(StackOps), OnceEach(s), NEW n \in Nat, \A x \in Ids(s) : x <= n
    PROVE  Len(s) <= n
<1> DEFINE f == [k \in 1 .. Len(s) |-> s[k].id]
<1>1. Len(s) \in Nat /\ DOMAIN s = 1 .. Len(s) /\ \A k \in 1 .. Len(s) : s[k] \in StackOps
  OBVIOUS
<1>2. \A op \in StackOps : op.id \in Nat \ {0}
  BY DEF StackOps, Ops, FieldOps, WidthOps, RecordOps, InsertOps, DeleteOps
<1>3. \A k \in 1 .. Len(s) : s[k].id \in 1 .. n
  <2> TAKE k \in 1 .. Len(s)
  <2>1. s[k].id \in Nat \ {0} /\ s[k].id <= n
    BY <1>1, <1>2 DEF Ids
  <2> QED
    BY <2>1
<1>4. \A j, k \in 1 .. Len(s) : s[j].id = s[k].id => j = k
  BY <1>1 DEF OnceEach
<1>5. f \in Injection(1 .. Len(s), 1 .. n)
  BY <1>3, <1>4 DEF Injection, IsInjective
<1>6. IsFiniteSet(1 .. n) /\ Cardinality(1 .. n) = n /\ Cardinality(1 .. Len(s)) = Len(s)
  <2>1. \A k \in Nat : IsFiniteSet(1 .. k) /\ Cardinality(1 .. k) = IF 1 > k THEN 0 ELSE k - 1 + 1
    BY FS_Interval
  <2> QED
    BY <1>1, <2>1
<1> HIDE DEF f
<1>7. Cardinality(1 .. Len(s)) <= Cardinality(1 .. n)
  BY <1>5, <1>6, FS_Injection
<1> QED
  BY <1>6, <1>7

LEMMA KeptAll ==
    ASSUME Inv, StackInv, "hurried" \notin trouble, ops <= UndoLimit
    PROVE  Kept(undo) = undo
<1>1. undo \in Seq(StackOps) /\ OnceEach(undo) /\ ops \in Nat /\ UndoLimit \in Nat
  BY UndoLimitAssumption DEF Inv, TypeOK, StoreOK, ServerOK, StackInv, Apart
<1>2. \A x \in Ids(undo) : x <= ops
  BY DEF StackInv, IdsOK, OnStacks
<1>3. Len(undo) \in Nat /\ Len(undo) <= ops
  BY <1>1, <1>2, FewOnce
<1> QED
  BY <1>1, <1>3 DEF Kept

-----------------------------------------------------------------------------
(* Steps of the trails *)

LEMMA TrackedLater ==
    ASSUME Inv, NEW op \in Ops, data' = Apply(data, op),
           op.type = "delete_column" => data[op.item] # Gone
    PROVE  /\ \A i \in Items : data[i] \in Maps /\ data'[i] = Forth(data[i], op, i)
           /\ Tracked' \subseteq Tracked
           /\ \A i \in Tracked' : i \in Rows \cup Columns /\ i \in Items
<1>1. \A i \in Items : data[i] \in Maps /\ data'[i] = Forth(data[i], op, i)
  BY ApplyForth, QueueTypes DEF Tables, Maps
<1>2. ASSUME NEW r \in Rows, data'[r] # Gone
      PROVE  data[r] # Gone
  <2>1. data'[r] = Forth(data[r], op, r)
    BY <1>1, Kinds
  <2>2. CASE op.type = "insert_column"
    <3>1. op.item # r
      BY <2>2, OpKinds, Kinds
    <3> QED
      BY <1>2, <2>1, <2>2, <3>1 DEF Forth, FieldOf
  <2>3. CASE op.type # "insert_column"
    BY <1>2, <2>1, <2>3, ForthGone
  <2> QED
    BY <2>2, <2>3
<1>3. Tracked' \subseteq Tracked
  BY <1>2 DEF Tracked
<1>4. \A i \in Tracked' : i \in Rows \cup Columns /\ i \in Items
  BY Kinds DEF Tracked
<1> QED
  BY <1>1, <1>3, <1>4

(* Columns are shown exactly as they are in their trails. *)
LEMMA NearColumn ==
    ASSUME Inv, NEW c \in Columns, NEW u, NEW p, Near(emptied, u, p, c)
    PROVE  u = p
BY Kinds DEF Near, Inv, TypeOK, StoreOK

(* Setting a field does not take an item away. *)
LEMMA SetIsThere ==
    ASSUME NEW m \in Maps, m # Gone, NEW op \in Ops, op.type \in DOMAIN FieldOf, NEW i
    PROVE  Forth(m, op, i) # Gone
<1>1. op.new \in Values /\ FieldOf[op.type] \in Fields
  BY OpKinds
<1>2. ASSUME NEW f \in Fields, NEW v \in Values
      PROVE  [m EXCEPT ![f] = v] # Gone
  <2>1. [m EXCEPT ![f] = v] \in FieldMaps
    BY DEF Maps, FieldMaps
  <2> QED
    BY <2>1, GoneAssumption DEF FieldMaps
<1> QED
  BY <1>1, <1>2 DEF Forth, FieldOf

(* What was empty with its column stays so. *)
LEMMA PaleStays ==
    ASSUME Inv, CellsGone, NEW op \in Ops, op.type # "insert_column", Aimed(op),
           data' = Apply(data, op), emptied \subseteq emptied',
           op.type = "delete_column" => data[op.item] # Gone,
           op.type = "modify_records" => data[Rated] # Gone
    PROVE  CellsGone'
<1>1. \A i \in Items : data[i] \in Maps /\ data'[i] = Forth(data[i], op, i)
  BY TrackedLater
<1>2. Rated \in Items /\ Rated \in Columns
  BY Kinds, RatedAssumption
<1>3. ASSUME NEW r \in Rows, r \notin emptied', data'[Rated] = Gone
      PROVE  data'[r] = Pale(data'[r])
  <2> DEFINE m == data[r]
  <2>1. m \in Maps /\ data'[r] = Forth(m, op, r) /\ r \in Holders(Rated)
    BY <1>1, Kinds DEF Holders
  <2>2. CASE data[Rated] = Gone
    <3>1. m = Pale(m) /\ op.type # "modify_records"
      BY <1>3, <2>2 DEF CellsGone
    <3> HIDE DEF m
    <3>2. Stripped(Forth(m, op, r), Rated, r) = Forth(Stripped(m, Rated, r), op, r)
      BY <2>1, <3>1, StripForth
    <3> QED
      BY <2>1, <3>1, <3>2, StrippedIs
  <2>3. CASE data[Rated] # Gone
    <3> HIDE DEF m
    <3> DEFINE c == data[Rated]
    <3>1. c \in Maps /\ c # Gone /\ Forth(c, op, Rated) = Gone
      BY <1>1, <1>2, <1>3, <2>3
    <3> HIDE DEF c
    <3>2. op.type \notin DOMAIN FieldOf
      BY <3>1, SetIsThere
    <3>3. op.type = "delete_column" /\ op.item = Rated
      <4>1. op.type = "delete_records" => op.item # Rated
        BY <1>2, Kinds DEF Aimed
      <4>2. Rated \notin Holders(op.item)
        BY <1>2, Kinds DEF Holders
      <4> QED
        BY <3>1, <3>2, <4>1, <4>2, StrippedIs DEF Forth, FieldOf
    <3>4. Forth(m, op, r) = Pale(m)
      <4>1. r # Rated
        BY <1>2, Kinds
      <4> QED
        BY <2>1, <3>3, <4>1, StrippedIs DEF Forth, FieldOf
    <3> QED
      BY <2>1, <3>4, PaleFacts
  <2> QED
    BY <2>2, <2>3
<1> QED
  BY <1>3 DEF CellsGone

LEMMA NoneComing == ~InsertUndecided => NoneIsComing
BY DEF InsertUndecided, Undecided, NoneIsComing, Coming, Inserts

(* What the queue makes of an operation when there is no trouble *)
LEMMA Queued ==
    ASSUME Inv, NEW op \in Ops, NEW h \in Handlers, NEW u, NEW r, Applies(op, h, u, r),
           trouble' = {}
    PROVE  /\ trouble = {} /\ ~Hurries(op, h) /\ ops' = ops + 1
           /\ \/ /\ Busy \/ op.type \in LocalOnly
                 /\ UNCHANGED <<chain, inFlight, handler>>
              \/ /\ ~Busy /\ op.type \notin LocalOnly
                 /\ chain' = "waiting" /\ inFlight'.op = op /\ handler' = h
           /\ Undecided' \subseteq Undecided \cup {op}
<1> DEFINE t == IF op.type \in AfterServer THEN data ELSE Apply(data, op)
           e == [n |-> made + 1, op |-> op]
<1>1. /\ op.type \notin LocalOnly => AddPendingOperation(op, h, t)
      /\ op.type \in LocalOnly => UNCHANGED <<pending, chain, inFlight, handler>>
      /\ trouble = {} /\ ~Hurries(op, h) /\ ops' = ops + 1
      /\ op.type \notin LocalOnly /\ ~Busy => Sendable([n |-> 0, op |-> op], t)
  BY DEF Applies, ApplyOperation, queue
<1>2. CASE op.type \in LocalOnly
  BY <1>1, <1>2 DEF Undecided
<1>3. CASE op.type \notin LocalOnly /\ Busy
  <2>1. pending' = Append(pending, e) /\ UNCHANGED <<chain, inFlight, handler>>
    BY <1>1, <1>3 DEF AddPendingOperation
  <2>2. pending \in Seq(Entries) /\ e.op = op /\ e \in Entries
    BY QueueTypes DEF Entries
  <2> HIDE DEF e
  <2>3. \A k \in DOMAIN Append(pending, e) :
            \/ k \in DOMAIN pending /\ Append(pending, e)[k] = pending[k]
            \/ k = Len(pending) + 1 /\ Append(pending, e)[k] = e
    BY <2>2, AppendFacts
  <2>4. \A x \in Undecided' : x \in Undecided \/ x = op
    BY <2>1, <2>2, <2>3 DEF Undecided
  <2> QED
    BY <1>1, <1>3, <2>1, <2>4
<1>4. CASE op.type \notin LocalOnly /\ ~Busy
  <2>1. Sendable(e, t)
    BY <1>1, <1>4 DEF Sendable
  <2>2. handler' = h /\ Send(e, <<>>)
    BY <1>1, <1>4, <2>1 DEF AddPendingOperation
  <2>3. chain' = "waiting" /\ inFlight'.op = op /\ pending' = <<>>
    BY <2>2 DEF Send
  <2>4. Undecided' = {op}
    BY <2>3 DEF Undecided
  <2> QED
    BY <1>1, <1>4, <2>2, <2>3, <2>4
<1> QED
  BY <1>2, <1>3, <1>4

(* A new operation that the table shows at once.  An insertion under way is *)
(* that of another column.                                                 *)
LEMMA NewTrails ==
    ASSUME Inv, StackInv, NEW op \in Ops, NEW h \in Handlers, NEW u, NEW r,
           Applies(op, h, u, r), h.kind = "new", op.type \notin AfterServer,
           trouble' = {}, ops <= UndoLimit, ComingOK, Trails
    PROVE  ComingOK' /\ Trails'
<1>1. /\ trouble = {} /\ ~Hurries(op, h)
      /\ \/ /\ Busy \/ op.type \in LocalOnly
            /\ UNCHANGED <<chain, inFlight, handler>>
         \/ /\ ~Busy /\ op.type \notin LocalOnly
            /\ chain' = "waiting" /\ inFlight'.op = op /\ handler' = h
      /\ Undecided' \subseteq Undecided \cup {op}
  BY Queued
<1>2. /\ data' = Apply(data, op) /\ Seen(op) /\ Known(op) /\ u = undo /\ r = redos
      /\ undo' = UndoAfter(h, op, undo) /\ redos' = <<>>
      /\ emptied' = emptied \cup Losing(data, op)
      /\ op.type \in Undoable => op \in StackOps
  BY DEF Applies, ApplyOperation, RedosAfter
<1>3. /\ undo \in Seq(StackOps) /\ handler \in Handlers
      /\ chain = "waiting" => inFlight.op \in Ops
  BY QueueTypes DEF Inv, TypeOK, QueueOK, StoreOK, Entries, Handlers
<1>4. Kept(undo) = undo
  BY <1>1, KeptAll
<1>5. \A kind \in {"undo", "redo"} :
          /\ Coming(kind)' <=> Coming(kind)
          /\ Coming(kind) => inFlight' = inFlight /\ handler' = handler
  BY <1>1 DEF Coming, Busy
<1>6. op.type # "insert_column" /\ (op.type = "delete_column" => data[op.item] # Gone)
  BY <1>2 DEF AfterServer, Seen, LocalOnly
<1>7. /\ \A i \in Items : data[i] \in Maps /\ data'[i] = Forth(data[i], op, i)
      /\ Tracked' \subseteq Tracked
      /\ \A i \in Tracked' : i \in Rows \cup Columns /\ i \in Items
  BY <1>2, <1>6, TrackedLater
<1>8. ComingOK'
  <2>1. \A o \in Undecided' : o.type = "insert_column" => data'[o.item] = Gone
    <3> SUFFICES ASSUME NEW o \in Undecided', o.type = "insert_column"
                 PROVE  data'[o.item] = Gone
      OBVIOUS
    <3>1. o \in Undecided
      BY <1>1, <1>6
    <3>2. data[o.item] = Gone
      BY <3>1 DEF ComingOK
    <3>3. o \in Ops
      <4>1. \A k \in DOMAIN pending : pending[k].op \in Ops
        <5> TAKE k \in DOMAIN pending
        <5>1. pending[k] \in Entries
          BY QueueTypes
        <5> QED
          BY <5>1 DEF Entries
      <4> QED
        BY <1>3, <3>1, <4>1 DEF Undecided
    <3>4. o.item \in Items
      BY <3>3, OpKinds, Kinds
    <3>5. data'[o.item] = Forth(data[o.item], op, o.item)
      BY <1>7, <3>4
    <3> QED
      BY <1>6, <3>2, <3>5, ForthGone
  <2>2. chain' = "waiting" /\ handler'.kind # "new" /\ Late(inFlight') => Inserts(inFlight')
    BY <1>1 DEF ComingOK, Late, Inserts
  <2>3. Coming("undo")' => /\ handler'.op.type = "delete_column"
                           /\ handler'.op.item = inFlight'.op.item
                           /\ inFlight'.op.new = handler'.op.old
    BY <1>5 DEF ComingOK
  <2>4. Coming("redo")' => handler'.op = inFlight'.op
    BY <1>5 DEF ComingOK
  <2> QED
    BY <2>1, <2>2, <2>3, <2>4 DEF ComingOK
<1>9. ASSUME NEW i \in Tracked', NEW a \in Maps, NEW b \in Maps, Between(a, b, i)
      PROVE  \E x, y \in Maps : Between(x, y, i)'
  <2> DEFINE x == Forth(a, op, i)
             y == Forth(b, op, i)
             c == inFlight.op.item
             Elsewhere == Coming("undo") /\ c = i
  <2>1. /\ i \in Tracked /\ i \in Rows \cup Columns /\ i \in Items
        /\ data[i] \in Maps /\ data'[i] = Forth(data[i], op, i)
        /\ emptied \subseteq emptied' /\ Losing(data, op) \subseteq emptied'
    BY <1>2, <1>7
  <2>2. x \in Maps /\ y \in Maps
    BY ForthType
  <2>3. /\ Trail(emptied, "undo", undo, a, i)
        /\ NoneIsComing => a = b /\ Near(emptied, data[i], a, i)
        /\ Coming("undo") =>
               Linked(emptied, a, handler.op, b, i) /\ Near(emptied, data[i], b, i)
        /\ Coming("redo") =>
               Linked(emptied, a, handler.op, b, i) /\ Near(emptied, data[i], a, i)
    BY <1>9 DEF Between
  <2>4. ASSUME NEW kind \in {"undo", "redo"}, Coming(kind)
        PROVE  /\ c \in Columns /\ data[c] = Gone
               /\ handler.op \in StackOps /\ handler.op.item = c
               /\ handler.op.type \in {"insert_column", "delete_column"}
               /\ op.item # c \/ op.type = "modify_column_width"
               /\ c = Rated => op.type # "modify_records"
    <3>1. /\ inFlight.op \in Undecided /\ inFlight.op.type = "insert_column"
          /\ inFlight.op \in Ops /\ handler.kind # "new"
      BY <1>3, <2>4 DEF Coming, Undecided, Inserts
    <3>2. c \in Columns /\ data[c] = Gone
      BY <3>1, OpKinds DEF ComingOK
    <3>3. /\ handler.op \in StackOps /\ handler.op.item = c
          /\ handler.op.type \in {"insert_column", "delete_column"}
      BY <1>3, <2>4, <3>1 DEF ComingOK, Handlers
    <3>4. data[op.item] # Gone \/ op.type = "modify_column_width"
      BY <1>2 DEF Seen, LocalOnly
    <3>5. op.type = "modify_records" => data[Rated] # Gone
      BY <1>2 DEF Known
    <3> QED
      BY <3>2, <3>3, <3>4, <3>5
  <2> HIDE DEF c
  <2>5. ASSUME ~Elsewhere PROVE Near(emptied, data[i], a, i)
    <3>1. CASE NoneIsComing \/ Coming("redo")
      BY <2>3, <3>1
    <3>2. CASE Coming("undo")
      <4> DEFINE p == Invert(handler.op, handler.op.id)
      <4>1. handler.op.type = "delete_column" /\ handler.op \in StackOps /\ handler.op.item # i
        BY <2>4, <2>5, <3>2 DEF ComingOK
      <4>2. p.type = "insert_column" /\ p.item # i
        BY <4>1, InvertKinds
      <4> HIDE DEF p
      <4>3. Forth(b, p, i) = b
        BY <4>2 DEF Forth, FieldOf
      <4>4. Near(emptied, b, a, i)
        BY <2>3, <3>2, <4>3 DEF Linked, p
      <4> QED
        BY <2>3, <3>2, <4>4, NearTrans
    <3> QED
      BY <3>1, <3>2 DEF NoneIsComing
  <2>6. ASSUME op \in StackOps
        PROVE  Linked(emptied', a, op, x, i)
    <3>1. CASE op.type = "modify_column_width"
      <4>1. Linked(emptied', a, op, a, i) /\ x = a
        BY <2>6, <3>1, LinkedOther
      <4> QED
        BY <4>1
    <3>2. CASE op.type # "modify_column_width" /\ Elsewhere
      <4>1. /\ op.item # i /\ i \in Columns /\ (i = Rated => op.type # "modify_records")
        BY <2>4, <3>2
      <4>2. i \notin Holders(op.item)
        BY <4>1, Kinds DEF Holders
      <4>3. Linked(emptied', a, op, a, i) /\ x = a
        BY <2>6, <4>1, <4>2, LinkedOther
      <4> QED
        BY <4>3
    <3>3. CASE op.type # "modify_column_width" /\ ~Elsewhere
      <4>1. op.type \notin AfterServer \cup LocalOnly
        BY <3>3 DEF LocalOnly
      <4> HIDE DEF x, Elsewhere
      <4>2. Linked(emptied', a, op, Forth(a, op, i), i)
        BY <1>2, <2>1, <2>5, <2>6, <3>3, <4>1, LinkedNew
      <4> QED
        BY <4>2 DEF x
    <3> QED
      BY <3>1, <3>2, <3>3
  <2>7. Trail(emptied', "undo", undo', x, i)
    <3>1. Trail(emptied', "undo", undo, a, i)
      BY <2>1, <2>3, TrailWider
    <3>2. CASE op.type \in Undoable
      <4>1. undo' = Append(undo, op) /\ op \in StackOps
        BY <1>2, <1>4, <3>2 DEF UndoAfter
      <4>2. Joined(emptied', "undo", a, op, x, i)
        BY <2>6, <4>1 DEF Joined
      <4> HIDE DEF x
      <4>3. Trail(emptied', "undo", Append(undo, op), x, i)
        BY <1>3, <2>2, <3>1, <4>1, <4>2, PushTrail
      <4> QED
        BY <4>1, <4>3
    <3>3. CASE op.type \notin Undoable
      <4>1. undo' = undo
        BY <1>2, <1>4, <3>3 DEF UndoAfter
      <4>2. op.type \in {"delete_records", "modify_groupbys"}
        BY <3>3, OpKinds DEF Undoable, AfterServer, LocalOnly, FieldOf
      <4>3. op.item # i
        <5>1. CASE op.type = "modify_groupbys"
          BY <1>2, <2>1, <5>1, Kinds DEF Known
        <5>2. CASE op.type = "delete_records"
          <6> SUFFICES ASSUME i = op.item PROVE FALSE
            OBVIOUS
          <6>1. i \in Rows
            BY <2>1, <5>2, Kinds DEF Applies, Aimed
          <6>2. data'[i] = Gone
            BY <2>1, <5>2 DEF Forth, FieldOf
          <6> QED
            BY <6>1, <6>2, Kinds DEF Tracked
        <5> QED
          BY <4>2, <5>1, <5>2
      <4>4. x = a
        BY <4>2, <4>3 DEF Forth, FieldOf
      <4> HIDE DEF x
      <4> QED
        BY <3>1, <4>1, <4>4
    <3> QED
      BY <3>2, <3>3
  <2>8. Trail(emptied', "redo", redos', y, i)
    <3> HIDE DEF y
    <3> QED
      BY <1>2, <2>2, EmptyTrail
  <2>9. ASSUME NEW kind \in {"undo", "redo"}, Coming(kind)
        PROVE  Linked(emptied', x, handler'.op, y, i)
    <3>1. Linked(emptied', a, handler.op, b, i)
      BY <2>1, <2>3, <2>9, LinkedWider
    <3>2. handler' = handler
      BY <1>5, <2>9
    <3>3. Linked(emptied', x, handler.op, y, i)
      BY <1>6, <2>4, <2>9, <3>1, LinkedCommutes
    <3> QED
      BY <3>2, <3>3
  <2>10. ASSUME NEW m \in Maps, Near(emptied, data[i], m, i)
         PROVE  Near(emptied', data'[i], Forth(m, op, i), i)
    <3>1. Near(emptied', data[i], m, i)
      BY <2>1, <2>10, NearWider
    <3> QED
      BY <2>1, <3>1, ForthNear
  <2> HIDE DEF x, y
  <2>11. /\ NoneIsComing' => x = y /\ Near(emptied', data'[i], x, i)
         /\ Coming("undo")' => /\ Linked(emptied', x, handler'.op, y, i)
                               /\ Near(emptied', data'[i], y, i)
         /\ Coming("redo")' => /\ Linked(emptied', x, handler'.op, y, i)
                               /\ Near(emptied', data'[i], x, i)
    BY <1>5, <2>3, <2>9, <2>10 DEF NoneIsComing, x, y
  <2> QED
    BY <2>2, <2>7, <2>8, <2>11 DEF Between
<1>10. Trails'
  <2>1. ASSUME NEW i \in Tracked'
        PROVE  \E x, y \in Maps : Between(x, y, i)'
    <3>1. PICK a, b \in Maps : Between(a, b, i)
      BY <1>7, <2>1 DEF Trails
    <3> QED
      BY <1>9, <3>1
  <2> QED
    BY <2>1 DEF Trails
<1> QED
  BY <1>8, <1>10

(* A new operation that the table shows after the answer *)
LEMMA LateTrails ==
    ASSUME Inv, NEW op \in Ops, NEW h \in Handlers, NEW u, NEW r,
           Applies(op, h, u, r), h.kind = "new", op.type \in AfterServer,
           trouble' = {}, ComingOK, Trails
    PROVE  ComingOK' /\ Trails'
<1>1. /\ trouble = {} /\ ~Hurries(op, h)
      /\ \/ /\ Busy \/ op.type \in LocalOnly
            /\ UNCHANGED <<chain, inFlight, handler>>
         \/ /\ ~Busy /\ op.type \notin LocalOnly
            /\ chain' = "waiting" /\ inFlight'.op = op /\ handler' = h
      /\ Undecided' \subseteq Undecided \cup {op}
  BY Queued
<1>2. /\ UNCHANGED <<data, undo, redos, emptied>> /\ Known(op) /\ op.type \notin LocalOnly
  BY DEF Applies, ApplyOperation, AfterServer, LocalOnly, Losing
<1>3. handler'.kind = "new" /\ (Busy => handler.kind = "new")
  BY <1>1, <1>2 DEF Hurries
<1>4. NoneIsComing /\ NoneIsComing' /\ ~Coming("undo")' /\ ~Coming("redo")'
  BY <1>3 DEF NoneIsComing, Coming, Busy
<1>5. ComingOK'
  BY <1>1, <1>2, <1>3, <1>4 DEF ComingOK, Known
<1>6. ASSUME NEW i, NEW a, NEW b, Between(a, b, i)
      PROVE  Between(a, b, i)'
  BY <1>2, <1>4, <1>6 DEF Between
<1>7. Trails'
  BY <1>2, <1>6 DEF Trails, Tracked
<1> QED
  BY <1>5, <1>7

LEMMA UndoTrails ==
    ASSUME Inv, NEW op \in Ops, NEW h \in Handlers, NEW u, NEW r,
           Applies(op, h, u, r), h.kind = "undo", trouble' = {}, ComingOK, CellsGone, Trails
    PROVE  ComingOK' /\ CellsGone' /\ Trails'
<1> DEFINE last == h.op
<1>1. /\ trouble = {} /\ ~Hurries(op, h)
      /\ \/ /\ Busy \/ op.type \in LocalOnly
            /\ UNCHANGED <<chain, inFlight, handler>>
         \/ /\ ~Busy /\ op.type \notin LocalOnly
            /\ chain' = "waiting" /\ inFlight'.op = op /\ handler' = h
      /\ Undecided' \subseteq Undecided \cup {op}
  BY Queued
<1>2. /\ undo # <<>> /\ last = Last(undo) /\ op = Invert(last, ops + 1)
      /\ u = Front(undo) /\ r = redos /\ op.type \in Undoable /\ Aimed(op)
      /\ emptied' = emptied \cup Losing(data, op)
  BY DEF Applies, Undoes, ApplyOperation
<1>3. NoneIsComing /\ \A x \in Undecided : x.type # "insert_column"
  BY <1>1, NoneComing DEF Hurries, InsertUndecided
<1>4. /\ undo \in Seq(StackOps) /\ redos \in Seq(StackOps)
      /\ Front(undo) \in Seq(StackOps) /\ last \in StackOps
  BY <1>2, FrontLast DEF Inv, TypeOK, StoreOK
<1> HIDE DEF last
<1>5. \A i \in Tracked : i \in Rows \cup Columns /\ i \in Items /\ data[i] \in Maps
  BY Kinds, QueueTypes DEF Tracked, Tables, Maps
<1>6. ASSUME NEW i \in Tracked
      PROVE  \E n, a \in Maps :
                 /\ Trail(emptied, "undo", u, n, i) /\ Linked(emptied, n, last, a, i)
                 /\ Trail(emptied, "redo", redos, a, i) /\ Near(emptied, data[i], a, i)
                 /\ Near(emptied, Forth(a, op, i), n, i)
  <2>1. PICK a, b \in Maps : Between(a, b, i)
    BY DEF Trails
  <2>2. /\ Trail(emptied, "undo", undo, a, i) /\ Trail(emptied, "redo", redos, a, i)
        /\ Near(emptied, data[i], a, i)
    BY <1>3, <2>1 DEF Between
  <2>3. PICK n \in Maps : Trail(emptied, "undo", u, n, i)
                          /\ Joined(emptied, "undo", n, last, a, i)
    BY <1>2, <1>4, <2>2, PopTrail
  <2>4. Linked(emptied, n, last, a, i)
    BY <2>3 DEF Joined
  <2>5. Near(emptied, Forth(a, Invert(last, last.id), i), n, i)
    BY <2>4 DEF Linked
  <2>6. Forth(a, op, i) = Forth(a, Invert(last, last.id), i)
    BY <1>2, <1>4, InvertForth
  <2> QED
    BY <2>2, <2>3, <2>4, <2>5, <2>6
<1>7. ASSUME NEW c \in Columns
      PROVE  \E n \in Maps : Linked(emptied, n, last, data[c], c)
  <2>1. c \in Tracked
    BY DEF Tracked
  <2>2. PICK n, a \in Maps : Linked(emptied, n, last, a, c) /\ Near(emptied, data[c], a, c)
    BY <1>6, <2>1
  <2>3. data[c] = a
    BY <2>2, NearColumn
  <2> QED
    BY <2>2, <2>3
<1>8. CASE op.type \notin AfterServer
  <2>1. data' = Apply(data, op) /\ undo' = u /\ redos' = Append(redos, last)
    BY <1>2, <1>8 DEF Applies, ApplyOperation, UndoAfter, RedosAfter, last
  <2>2. NoneIsComing' /\ ~Coming("undo")' /\ ~Coming("redo")'
    BY <1>1, <1>3, <1>8 DEF NoneIsComing, Coming, Inserts, AfterServer
  <2>3. ComingOK'
    BY <1>1, <1>3, <1>8, <2>2 DEF ComingOK, Late, Inserts, AfterServer
  <2>4. op.type # "insert_column"
    BY <1>8 DEF AfterServer
  <2>5. op.type = "delete_column" => data[op.item] # Gone
    <3> SUFFICES ASSUME op.type = "delete_column" PROVE data[op.item] # Gone
      OBVIOUS
    <3>1. last.type = "insert_column" /\ op.item = last.item
      BY <1>2, <1>4, InvertKinds DEF FieldOf
    <3>2. op.item \in Columns /\ last.new \in FieldMaps
      BY <1>4, <3>1, OpKinds DEF StackOps
    <3>3. PICK n \in Maps : Linked(emptied, n, last, data[op.item], op.item)
      BY <1>7, <3>2
    <3>4. data[op.item] = last.new
      BY <3>1, <3>3 DEF Linked, Forth, FieldOf
    <3> QED
      BY <3>2, <3>4, GoneAssumption DEF FieldMaps
  <2>6. op.type = "modify_records" => data[Rated] # Gone
    <3> SUFFICES ASSUME op.type = "modify_records" PROVE data[Rated] # Gone
      OBVIOUS
    <3>1. last.type = "modify_records"
      BY <1>2, <1>4, InvertKinds DEF FieldOf
    <3>2. PICK n \in Maps : Linked(emptied, n, last, data[Rated], Rated)
      BY <1>7, RatedAssumption
    <3>3. n # Gone /\ data[Rated] = Forth(n, last, Rated)
      BY <3>1, <3>2 DEF Linked
    <3> QED
      BY <1>4, <3>1, <3>3, SetIsThere DEF StackOps, FieldOf
  <2>7. CellsGone'
    BY <1>2, <2>1, <2>4, <2>5, <2>6, PaleStays
  <2>8. /\ \A i \in Items : data[i] \in Maps /\ data'[i] = Forth(data[i], op, i)
        /\ Tracked' \subseteq Tracked
        /\ \A i \in Tracked' : i \in Items
    BY <2>1, <2>5, TrackedLater
  <2>9. ASSUME NEW i \in Tracked'
        PROVE  \E x, y \in Maps : Between(x, y, i)'
    <3>1. i \in Tracked /\ data'[i] = Forth(data[i], op, i) /\ emptied \subseteq emptied'
      BY <1>2, <2>8, <2>9
    <3>2. PICK n, a \in Maps :
              /\ Trail(emptied, "undo", u, n, i) /\ Linked(emptied, n, last, a, i)
              /\ Trail(emptied, "redo", redos, a, i) /\ Near(emptied, data[i], a, i)
              /\ Near(emptied, Forth(a, op, i), n, i)
      BY <1>6, <3>1
    <3>3. /\ Trail(emptied', "undo", undo', n, i)
          /\ Trail(emptied', "redo", redos, a, i)
      BY <2>1, <3>1, <3>2, TrailWider
    <3>4. Linked(emptied', n, last, a, i)
      BY <3>1, <3>2, LinkedWider
    <3>5. Trail(emptied', "redo", redos', n, i)
      <4>1. Joined(emptied', "redo", a, last, n, i)
        BY <3>4 DEF Joined
      <4> QED
        BY <1>4, <2>1, <3>3, <4>1, PushTrail
    <3>6. Near(emptied', data'[i], n, i)
      <4>1. Near(emptied, Forth(data[i], op, i), Forth(a, op, i), i)
        BY <3>2, ForthNear
      <4>2. Near(emptied, data'[i], n, i)
        BY <3>1, <3>2, <4>1, NearTrans
      <4> QED
        BY <3>1, <4>2, NearWider
    <3>7. Between(n, n, i)'
      BY <2>2, <3>3, <3>5, <3>6 DEF Between
    <3> QED
      BY <3>7
  <2> QED
    BY <2>3, <2>7, <2>9 DEF Trails
<1>9. CASE op.type \in AfterServer
  <2>1. op.type = "insert_column" /\ op.type \notin LocalOnly
    BY <1>2, <1>9 DEF AfterServer, Undoable, LocalOnly
  <2>2. data' = data /\ undo' = u /\ redos' = redos /\ emptied' = emptied
    BY <1>2, <1>9, <2>1 DEF Applies, ApplyOperation, Losing
  <2>3. ~Busy
    BY <1>1, <1>9 DEF Hurries, Handlers
  <2>4. chain' = "waiting" /\ inFlight'.op = op /\ handler' = h
    BY <1>1, <2>1, <2>3
  <2>5. /\ Coming("undo")' /\ ~Coming("redo")' /\ ~NoneIsComing' /\ Tracked' = Tracked
    BY <2>1, <2>2, <2>4 DEF Coming, Inserts, Tracked, NoneIsComing
  <2>6. last.type = "delete_column" /\ last.item = op.item /\ op.new = last.old
    <3>1. last.type = "delete_column"
      BY <1>2, <1>4, <2>1, InvertKinds DEF FieldOf
    <3> QED
      BY <1>2, <1>4, <3>1, InvertKinds
  <2>7. data[op.item] = Gone
    <3>1. op.item \in Columns
      BY <2>1, OpKinds
    <3>2. PICK n \in Maps : Linked(emptied, n, last, data[op.item], op.item)
      BY <1>7, <3>1
    <3> QED
      BY <2>6, <3>2 DEF Linked, Forth, FieldOf
  <2>8. ComingOK'
    BY <1>1, <1>3, <2>1, <2>2, <2>4, <2>5, <2>6, <2>7 DEF ComingOK, Inserts, last
  <2>9. CellsGone'
    BY <2>2 DEF CellsGone
  <2>10. ASSUME NEW i \in Tracked
         PROVE  \E x, y \in Maps : Between(x, y, i)'
    <3>1. PICK n, a \in Maps :
              /\ Trail(emptied, "undo", u, n, i) /\ Linked(emptied, n, last, a, i)
              /\ Trail(emptied, "redo", redos, a, i) /\ Near(emptied, data[i], a, i)
      BY <1>6
    <3>2. Between(n, a, i)'
      BY <2>2, <2>4, <2>5, <3>1 DEF Between, last
    <3> QED
      BY <3>2
  <2> QED
    BY <2>5, <2>8, <2>9, <2>10 DEF Trails
<1> QED
  BY <1>8, <1>9

LEMMA RedoTrails ==
    ASSUME Inv, NEW op \in Ops, NEW h \in Handlers, NEW u, NEW r,
           Applies(op, h, u, r), h.kind = "redo", trouble' = {}, ComingOK, CellsGone, Trails
    PROVE  ComingOK' /\ CellsGone' /\ Trails'
<1>1. /\ trouble = {} /\ ~Hurries(op, h)
      /\ \/ /\ Busy \/ op.type \in LocalOnly
            /\ UNCHANGED <<chain, inFlight, handler>>
         \/ /\ ~Busy /\ op.type \notin LocalOnly
            /\ chain' = "waiting" /\ inFlight'.op = op /\ handler' = h
      /\ Undecided' \subseteq Undecided \cup {op}
  BY Queued
<1>2. /\ redos # <<>> /\ h.op = op /\ op = Last(redos)
      /\ u = undo /\ r = Front(redos) /\ op.type \in Undoable /\ Aimed(op)
      /\ emptied' = emptied \cup Losing(data, op)
  BY DEF Applies, Redoes, ApplyOperation
<1>3. NoneIsComing /\ \A x \in Undecided : x.type # "insert_column"
  BY <1>1, NoneComing DEF Hurries, InsertUndecided
<1>4. /\ undo \in Seq(StackOps) /\ redos \in Seq(StackOps)
      /\ Front(redos) \in Seq(StackOps) /\ op \in StackOps
  BY <1>2, FrontLast DEF Inv, TypeOK, StoreOK
<1>5. \A i \in Tracked : i \in Rows \cup Columns /\ i \in Items /\ data[i] \in Maps
  BY Kinds, QueueTypes DEF Tracked, Tables, Maps
<1>6. ASSUME NEW i \in Tracked
      PROVE  \E n, a \in Maps :
                 /\ Trail(emptied, "redo", r, n, i) /\ Linked(emptied, a, op, n, i)
                 /\ Trail(emptied, "undo", undo, a, i) /\ Near(emptied, data[i], a, i)
                 /\ n = Forth(a, op, i)
  <2>1. PICK a, b \in Maps : Between(a, b, i)
    BY DEF Trails
  <2>2. /\ Trail(emptied, "undo", undo, a, i) /\ Trail(emptied, "redo", redos, a, i)
        /\ Near(emptied, data[i], a, i)
    BY <1>3, <2>1 DEF Between
  <2>3. PICK n \in Maps : Trail(emptied, "redo", r, n, i)
                          /\ Joined(emptied, "redo", n, op, a, i)
    BY <1>2, <1>4, <2>2, PopTrail
  <2>4. Linked(emptied, a, op, n, i)
    BY <2>3 DEF Joined
  <2>5. n = Forth(a, op, i)
    BY <2>4 DEF Linked
  <2> QED
    BY <2>2, <2>3, <2>4, <2>5
<1>7. ASSUME NEW c \in Columns
      PROVE  \E n \in Maps : Linked(emptied, data[c], op, n, c)
  <2>1. c \in Tracked
    BY DEF Tracked
  <2>2. PICK n, a \in Maps : Linked(emptied, a, op, n, c) /\ Near(emptied, data[c], a, c)
    BY <1>6, <2>1
  <2>3. data[c] = a
    BY <2>2, NearColumn
  <2> QED
    BY <2>2, <2>3
<1>8. CASE op.type \notin AfterServer
  <2>1. data' = Apply(data, op) /\ undo' = Append(undo, op) /\ redos' = r
    BY <1>2, <1>8 DEF Applies, ApplyOperation, UndoAfter, RedosAfter
  <2>2. NoneIsComing' /\ ~Coming("undo")' /\ ~Coming("redo")'
    BY <1>1, <1>3, <1>8 DEF NoneIsComing, Coming, Inserts, AfterServer
  <2>3. ComingOK'
    BY <1>1, <1>3, <1>8, <2>2 DEF ComingOK, Late, Inserts, AfterServer
  <2>4. op.type # "insert_column"
    BY <1>8 DEF AfterServer
  <2>5. op.type = "delete_column" => data[op.item] # Gone
    <3> SUFFICES ASSUME op.type = "delete_column" PROVE data[op.item] # Gone
      OBVIOUS
    <3> DEFINE p == Invert(op, op.id)
    <3>1. /\ p.type = "insert_column" /\ p.item = op.item /\ p.new = op.old
          /\ op.item \in Columns /\ op.old \in FieldMaps
      BY <1>4, InvertKinds, OpKinds DEF StackOps
    <3>2. PICK n \in Maps : Linked(emptied, data[op.item], op, n, op.item)
      BY <1>7, <3>1
    <3>3. Near(emptied, Forth(n, p, op.item), data[op.item], op.item)
      BY <3>2 DEF Linked
    <3> HIDE DEF p
    <3>4. Forth(n, p, op.item) = data[op.item]
      BY <3>1, <3>3, NearColumn
    <3>5. Forth(n, p, op.item) = op.old
      BY <3>1 DEF Forth, FieldOf
    <3> QED
      BY <3>1, <3>4, <3>5, GoneAssumption DEF FieldMaps
  <2>6. op.type = "modify_records" => data[Rated] # Gone
    <3> SUFFICES ASSUME op.type = "modify_records" PROVE data[Rated] # Gone
      OBVIOUS
    <3>1. PICK n \in Maps : Linked(emptied, data[Rated], op, n, Rated)
      BY <1>7, RatedAssumption
    <3> QED
      BY <3>1 DEF Linked
  <2>7. CellsGone'
    BY <1>2, <2>1, <2>4, <2>5, <2>6, PaleStays
  <2>8. /\ \A i \in Items : data[i] \in Maps /\ data'[i] = Forth(data[i], op, i)
        /\ Tracked' \subseteq Tracked
        /\ \A i \in Tracked' : i \in Items
    BY <2>1, <2>5, TrackedLater
  <2>9. ASSUME NEW i \in Tracked'
        PROVE  \E x, y \in Maps : Between(x, y, i)'
    <3>1. i \in Tracked /\ data'[i] = Forth(data[i], op, i) /\ emptied \subseteq emptied'
      BY <1>2, <2>8, <2>9
    <3>2. PICK n, a \in Maps :
              /\ Trail(emptied, "redo", r, n, i) /\ Linked(emptied, a, op, n, i)
              /\ Trail(emptied, "undo", undo, a, i) /\ Near(emptied, data[i], a, i)
              /\ n = Forth(a, op, i)
      BY <1>6, <3>1
    <3>3. /\ Trail(emptied', "redo", redos', n, i)
          /\ Trail(emptied', "undo", undo, a, i)
      BY <2>1, <3>1, <3>2, TrailWider
    <3>4. Linked(emptied', a, op, n, i)
      BY <3>1, <3>2, LinkedWider
    <3>5. Trail(emptied', "undo", undo', n, i)
      <4>1. Joined(emptied', "undo", a, op, n, i)
        BY <3>4 DEF Joined
      <4> QED
        BY <1>4, <2>1, <3>3, <4>1, PushTrail
    <3>6. Near(emptied', data'[i], n, i)
      <4>1. Near(emptied, Forth(data[i], op, i), Forth(a, op, i), i)
        BY <3>2, ForthNear
      <4> QED
        BY <3>1, <3>2, <4>1, NearWider
    <3>7. Between(n, n, i)'
      BY <2>2, <3>3, <3>5, <3>6 DEF Between
    <3> QED
      BY <3>7
  <2> QED
    BY <2>3, <2>7, <2>9 DEF Trails
<1>9. CASE op.type \in AfterServer
  <2>1. op.type = "insert_column" /\ op.type \notin LocalOnly
    BY <1>2, <1>9 DEF AfterServer, Undoable, LocalOnly
  <2>2. data' = data /\ undo' = undo /\ redos' = r /\ emptied' = emptied
    BY <1>2, <1>9, <2>1 DEF Applies, ApplyOperation, Losing
  <2>3. ~Busy
    BY <1>1, <1>9 DEF Hurries, Handlers
  <2>4. chain' = "waiting" /\ inFlight'.op = op /\ handler' = h
    BY <1>1, <2>1, <2>3
  <2>5. /\ Coming("redo")' /\ ~Coming("undo")' /\ ~NoneIsComing' /\ Tracked' = Tracked
    BY <2>1, <2>2, <2>4 DEF Coming, Inserts, Tracked, NoneIsComing
  <2>6. data[op.item] = Gone
    <3> DEFINE p == Invert(op, op.id)
    <3>1. op.item \in Columns /\ p.type = "delete_column" /\ p.item = op.item
      BY <1>4, <2>1, OpKinds, InvertKinds
    <3>2. PICK n \in Maps : Linked(emptied, data[op.item], op, n, op.item)
      BY <1>7, <3>1
    <3>3. Near(emptied, Forth(n, p, op.item), data[op.item], op.item)
      BY <3>2 DEF Linked
    <3> HIDE DEF p
    <3>4. Forth(n, p, op.item) = data[op.item]
      BY <3>1, <3>3, NearColumn
    <3> QED
      BY <3>1, <3>4 DEF Forth, FieldOf
  <2>7. ComingOK'
    BY <1>1, <1>2, <1>3, <2>1, <2>2, <2>4, <2>5, <2>6 DEF ComingOK, Inserts
  <2>8. CellsGone'
    BY <2>2 DEF CellsGone
  <2>9. ASSUME NEW i \in Tracked
        PROVE  \E x, y \in Maps : Between(x, y, i)'
    <3>1. PICK n, a \in Maps :
              /\ Trail(emptied, "redo", r, n, i) /\ Linked(emptied, a, op, n, i)
              /\ Trail(emptied, "undo", undo, a, i) /\ Near(emptied, data[i], a, i)
      BY <1>6
    <3>2. Between(a, n, i)'
      BY <1>2, <2>2, <2>4, <2>5, <3>1 DEF Between
    <3> QED
      BY <3>2
  <2> QED
    BY <2>5, <2>7, <2>8, <2>9 DEF Trails
<1> QED
  BY <1>8, <1>9

LEMMA ApplyTrails ==
    ASSUME Inv, StackInv, TrailInv, NEW op \in Ops, NEW h \in Handlers, NEW u, NEW r,
           Applies(op, h, u, r)
    PROVE  TrailInv'
<1> SUFFICES ASSUME trouble' = {}, ops' <= UndoLimit PROVE ComingOK' /\ CellsGone' /\ Trails'
  BY DEF TrailInv
<1>1. trouble = {} /\ ops <= UndoLimit
  <2>1. trouble = {} /\ ops' = ops + 1
    BY Queued
  <2> QED
    BY <2>1, UndoLimitAssumption DEF Inv, TypeOK, ServerOK
<1>2. ComingOK /\ CellsGone /\ Trails
  BY <1>1 DEF TrailInv
<1>3. CASE h.kind = "new" /\ op.type \notin AfterServer
  <2>1. ComingOK' /\ Trails'
    BY <1>1, <1>2, <1>3, NewTrails
  <2>2. /\ data' = Apply(data, op) /\ emptied \subseteq emptied' /\ Aimed(op)
        /\ Seen(op) /\ Known(op)
    BY <1>3 DEF Applies, ApplyOperation
  <2>3. /\ op.type # "insert_column"
        /\ op.type = "delete_column" => data[op.item] # Gone
        /\ op.type = "modify_records" => data[Rated] # Gone
    BY <1>3, <2>2 DEF Seen, Known, AfterServer, LocalOnly
  <2>4. CellsGone'
    BY <1>2, <2>2, <2>3, PaleStays
  <2> QED
    BY <2>1, <2>4
<1>4. CASE h.kind = "new" /\ op.type \in AfterServer
  <2>1. ComingOK' /\ Trails'
    BY <1>2, <1>4, LateTrails
  <2>2. UNCHANGED <<data, emptied>>
    BY <1>4 DEF Applies, ApplyOperation, AfterServer, Losing
  <2>3. CellsGone'
    BY <1>2, <2>2 DEF CellsGone
  <2> QED
    BY <2>1, <2>3
<1>5. CASE h.kind = "undo"
  BY <1>2, <1>5, UndoTrails
<1>6. CASE h.kind = "redo"
  BY <1>2, <1>6, RedoTrails
<1> QED
  BY <1>3, <1>4, <1>5, <1>6 DEF Handlers

(* What is undecided after an answer was so before it. *)
LEMMA AnswerLeaves ==
    ASSUME Inv, chain = "waiting", NEW d \in Nat, TakesFrom(d)
    PROVE  /\ \A x \in Undecided' : \E k \in DOMAIN pending : x = pending[k].op
           /\ Undecided' \subseteq Undecided
           /\ chain' = "waiting" => \E k \in DOMAIN pending : inFlight' = pending[k]
BY DEF TakesFrom, Undecided

LEMMA AnswerTrails ==
    ASSUME Inv, StackInv, SyncInv, TrailInv, Answer
    PROVE  TrailInv'
<1> DEFINE op == inFlight.op
<1> SUFFICES ASSUME trouble' = {}, ops' <= UndoLimit PROVE ComingOK' /\ CellsGone' /\ Trails'
  BY DEF TrailInv
<1>1. /\ request = "done" /\ handler' = handler /\ ops' = ops /\ trouble = {}
      /\ data' = IF op.type \in AfterServer THEN Apply(data, op) ELSE data
      /\ undo' = IF op.type \in AfterServer THEN UndoAfter(handler, op, undo) ELSE undo
      /\ redos' = IF op.type \in AfterServer THEN RedosAfter(handler, redos) ELSE redos
      /\ emptied' = emptied
  BY DEF Answer
<1>2. ComingOK /\ CellsGone /\ Trails /\ AnswersOK /\ Kept(undo) = undo
  BY <1>1, KeptAll DEF TrailInv, StackInv
<1>3. PICK d \in Nat : TakesFrom(d)
  BY AnswerTakes
<1>4. /\ chain = "waiting" /\ op \in Ops /\ op \in Undecided
      /\ handler \in Handlers /\ undo \in Seq(StackOps) /\ redos \in Seq(StackOps)
  BY <1>1, QueueTypes DEF Inv, TypeOK, QueueOK, StoreOK, Entries, Undecided, Handlers
<1>5. /\ \A x \in Undecided' : \E k \in DOMAIN pending : x = pending[k].op
      /\ Undecided' \subseteq Undecided
      /\ chain' = "waiting" => \E k \in DOMAIN pending : inFlight' = pending[k]
  BY <1>3, <1>4, AnswerLeaves
<1>6. handler.kind # "new" /\ chain' = "waiting" => ~Late(inFlight') /\ ~Inserts(inFlight')
  BY <1>2, <1>5 DEF AnswersOK, Late, Inserts, AfterServer
<1>7. ~Coming("undo")' /\ ~Coming("redo")' /\ NoneIsComing'
  BY <1>1, <1>6 DEF Coming, NoneIsComing
<1>8. ASSUME NEW i, NEW m,
             Trail(emptied', "undo", undo', m, i), Trail(emptied', "redo", redos', m, i),
             Near(emptied', data'[i], m, i)
      PROVE  Between(m, m, i)'
  BY <1>7, <1>8 DEF Between
<1>9. ASSUME \A x \in Undecided' : x.type = "insert_column" => data'[x.item] = Gone
      PROVE  ComingOK'
  BY <1>1, <1>6, <1>7, <1>9 DEF ComingOK
<1>10. CASE op.type \notin AfterServer
  <2>1. UNCHANGED <<data, undo, redos, emptied>>
    BY <1>1, <1>10
  <2>2. NoneIsComing
    BY <1>10 DEF NoneIsComing, Coming, Inserts, AfterServer
  <2>3. ComingOK'
    BY <1>2, <1>5, <1>9, <2>1 DEF ComingOK
  <2>4. ASSUME NEW i, NEW a, NEW b, Between(a, b, i)
        PROVE  Between(a, b, i)'
    BY <1>7, <2>1, <2>2, <2>4 DEF Between
  <2>5. CellsGone' /\ Trails'
    BY <1>2, <2>1, <2>4 DEF CellsGone, Trails, Tracked
  <2> QED
    BY <2>3, <2>5
<1>11. CASE op.type \in AfterServer
  <2>1. /\ data' = Apply(data, op) /\ undo' = UndoAfter(handler, op, undo)
        /\ redos' = RedosAfter(handler, redos) /\ op.type # "delete_column"
    BY <1>1, <1>11 DEF AfterServer
  <2>2. /\ \A i \in Items : data[i] \in Maps /\ data'[i] = Forth(data[i], op, i)
        /\ Tracked' \subseteq Tracked
        /\ \A i \in Tracked' : i \in Rows \cup Columns /\ i \in Items
    BY <1>4, <2>1, TrackedLater
  <2>3. op.type = "insert_column" =>
            /\ op.item \in Columns /\ op.new # Gone /\ data[op.item] = Gone
            /\ op \in StackOps
            /\ \A k \in DOMAIN pending : ~Inserts(pending[k])
    <3> SUFFICES ASSUME op.type = "insert_column"
                 PROVE  /\ op.item \in Columns /\ op.new # Gone /\ data[op.item] = Gone
                        /\ op \in StackOps
                        /\ \A k \in DOMAIN pending : ~Inserts(pending[k])
      OBVIOUS
    <3>1. op.item \in Columns /\ op.new # Gone
      BY <1>4, OpKinds, GoneAssumption DEF FieldMaps
    <3> QED
      BY <1>2, <1>4, <3>1 DEF ComingOK, AnswersOK, Inserts, StackOps, Undoable
  <2>4. ComingOK'
    <3>1. CASE op.type = "insert_column"
      BY <1>5, <1>9, <2>3, <3>1 DEF Inserts
    <3>2. CASE op.type # "insert_column"
      <4> SUFFICES ASSUME NEW x \in Undecided', x.type = "insert_column"
                   PROVE  data'[x.item] = Gone
        BY <1>9
      <4>1. x \in Ops
        <5>1. PICK k \in DOMAIN pending : x = pending[k].op
          BY <1>5
        <5>2. pending[k] \in Entries
          BY QueueTypes
        <5> QED
          BY <5>1, <5>2 DEF Entries
      <4>2. x.item \in Items /\ data[x.item] = Gone
        BY <1>2, <1>5, <4>1, OpKinds, Kinds DEF ComingOK
      <4>3. data'[x.item] = Forth(data[x.item], op, x.item)
        BY <2>2, <4>2
      <4> QED
        BY <3>2, <4>2, <4>3, ForthGone
    <3> QED
      BY <3>1, <3>2
  <2>5. ASSUME NEW i \in Tracked', op.type # "insert_column"
        PROVE  \A m : Forth(m, op, i) = m
    <3>1. op.type \in {"modify_sorts", "duplicate_record"}
      BY <1>11, <2>5 DEF AfterServer
    <3>2. Aimed(op)
      <4>1. Unanswered = <<inFlight>> \o pending
        BY <1>4 DEF Unanswered
      <4>2. 1 \in DOMAIN Unanswered /\ Unanswered[1] = inFlight
        BY <1>4, <4>1, QueueTypes, FrontFacts
      <4> QED
        BY <4>2 DEF SyncInv
    <3>3. op.type = "modify_sorts" => op.item # i
      BY <2>2, <2>5, <3>2, Kinds DEF Aimed
    <3> QED
      BY <3>1, <3>3 DEF Forth, FieldOf
  <2>6. ASSUME NEW i \in Rows, op.type = "insert_column"
        PROVE  data'[i] = data[i]
    BY <2>2, <2>3, <2>6, Kinds DEF Forth, FieldOf
  <2>7. CellsGone'
    <3>1. CASE op.type = "insert_column"
      <4>1. data'[Rated] = IF op.item = Rated THEN op.new ELSE data[Rated]
        BY <2>2, <3>1, RatedAssumption, Kinds DEF Forth, FieldOf
      <4> QED
        BY <1>1, <1>2, <2>3, <2>6, <3>1, <4>1 DEF CellsGone
    <3>2. CASE op.type # "insert_column"
      <4>1. /\ op.type \in {"modify_sorts", "duplicate_record"}
        BY <1>11, <3>2 DEF AfterServer
      <4>2. Aimed(op)
        <5>1. Unanswered = <<inFlight>> \o pending
          BY <1>4 DEF Unanswered
        <5>2. 1 \in DOMAIN Unanswered /\ Unanswered[1] = inFlight
          BY <1>4, <5>1, QueueTypes, FrontFacts
        <5> QED
          BY <5>2 DEF SyncInv
      <4> QED
        BY <1>1, <1>2, <1>4, <2>1, <3>2, <4>1, <4>2, PaleStays
    <3> QED
      BY <3>1, <3>2
  <2>8. ASSUME NEW i \in Tracked', NEW a \in Maps, NEW b \in Maps, Between(a, b, i)
        PROVE  \E m \in Maps : /\ Trail(emptied, "undo", undo', m, i)
                               /\ Trail(emptied, "redo", redos', m, i)
                               /\ Near(emptied, data'[i], m, i)
    <3>1. /\ Trail(emptied, "undo", undo, a, i) /\ Trail(emptied, "redo", redos, b, i)
          /\ NoneIsComing => a = b /\ Near(emptied, data[i], a, i)
          /\ Coming("undo") =>
                 Linked(emptied, a, handler.op, b, i) /\ Near(emptied, data[i], b, i)
          /\ Coming("redo") =>
                 Linked(emptied, a, handler.op, b, i) /\ Near(emptied, data[i], a, i)
      BY <2>8 DEF Between
    <3>2. data'[i] = Forth(data[i], op, i) /\ i \in Rows \cup Columns
      BY <2>2
    <3>3. CASE handler.kind = "new"
      <4>1. NoneIsComing
        BY <3>3 DEF NoneIsComing, Coming
      <4>2. /\ redos' = <<>>
            /\ undo' = IF op.type \in Undoable THEN Append(undo, op) ELSE undo
        BY <1>2, <2>1, <3>3 DEF UndoAfter, RedosAfter
      <4> DEFINE m == Forth(a, op, i)
      <4>3. m \in Maps
        BY <1>4, ForthType
      <4>4. Near(emptied, data'[i], m, i)
        BY <1>4, <3>1, <3>2, <4>1, ForthNear
      <4>5. Trail(emptied, "undo", undo', m, i)
        <5>1. CASE op.type = "insert_column"
          <6>1. op.item = i => a = Gone
            BY <2>3, <3>1, <4>1, <5>1, NearColumn
          <6>2. i \in Holders(op.item) => Near(emptied, Pale(a), a, i)
            <7> SUFFICES ASSUME i \in Holders(op.item) PROVE Near(emptied, Pale(a), a, i)
              OBVIOUS
            <7>1. op.item = Rated /\ i \in Rows
              BY <3>2, Kinds DEF Holders
            <7>2. data[i] = Pale(data[i]) \/ i \in emptied
              BY <1>2, <2>3, <5>1, <7>1 DEF CellsGone
            <7> QED
              BY <3>1, <4>1, <7>2 DEF Near
          <6> HIDE DEF op
          <6>3. Linked(emptied, a, op, m, i)
            BY <2>3, <5>1, <6>1, <6>2, LinkedInsert
          <6> HIDE DEF m
          <6>4. Joined(emptied, "undo", a, op, m, i)
            BY <6>3 DEF Joined
          <6>5. Trail(emptied, "undo", Append(undo, op), m, i)
            BY <1>4, <2>3, <3>1, <4>3, <5>1, <6>4, PushTrail
          <6> QED
            BY <4>2, <5>1, <6>5 DEF Undoable
        <5>2. CASE op.type # "insert_column"
          <6>1. m = a /\ op.type \notin Undoable
            BY <1>11, <2>5, <5>2 DEF AfterServer, Undoable
          <6> HIDE DEF m
          <6> QED
            BY <3>1, <4>2, <6>1
        <5> QED
          BY <5>1, <5>2
      <4> HIDE DEF m
      <4>6. Trail(emptied, "redo", redos', m, i)
        BY <4>2, <4>3, EmptyTrail
      <4> QED
        BY <4>3, <4>4, <4>5, <4>6
    <3>4. ASSUME handler.kind # "new"
          PROVE  op.type = "insert_column" /\ Coming(handler.kind) /\ handler.op \in StackOps
      BY <1>2, <1>4, <1>11, <3>4 DEF ComingOK, Coming, Late, Inserts, Handlers
    <3>5. CASE handler.kind = "undo"
      <4> DEFINE last == handler.op
                 p == Invert(last, last.id)
      <4>1. /\ undo' = undo /\ redos' = Append(redos, last) /\ last \in StackOps
            /\ op.type = "insert_column" /\ Coming("undo")
        BY <2>1, <3>4, <3>5 DEF UndoAfter, RedosAfter
      <4>2. last.type = "delete_column" /\ last.item = op.item /\ op.new = last.old
        BY <1>2, <4>1 DEF ComingOK
      <4>3. p.type = "insert_column" /\ p.item = op.item /\ p.new = op.new
        BY <4>1, <4>2, InvertKinds
      <4>4. Linked(emptied, a, last, b, i) /\ Near(emptied, data[i], b, i)
        BY <3>1, <4>1
      <4>5. Near(emptied, Forth(b, p, i), a, i)
        BY <4>4 DEF Linked
      <4> HIDE DEF op, last, p
      <4>6. Forth(b, op, i) = Forth(b, p, i)
        BY <4>1, <4>3 DEF Forth, FieldOf
      <4>7. Near(emptied, data'[i], a, i)
        <5>1. Near(emptied, Forth(data[i], op, i), Forth(b, op, i), i)
          BY <1>4, <4>4, ForthNear
        <5> QED
          BY <3>2, <4>5, <4>6, <5>1, NearTrans
      <4>8. Joined(emptied, "redo", b, last, a, i)
        BY <4>4 DEF Joined
      <4>9. Trail(emptied, "redo", Append(redos, last), a, i)
        BY <1>4, <3>1, <4>1, <4>8, PushTrail
      <4> QED
        BY <3>1, <4>1, <4>7, <4>9
    <3>6. CASE handler.kind = "redo"
      <4>1. /\ redos' = redos /\ undo' = Append(undo, op) /\ handler.op = op
            /\ op \in StackOps /\ Coming("redo")
        BY <1>2, <2>1, <3>4, <3>6 DEF UndoAfter, RedosAfter, ComingOK
      <4>2. Linked(emptied, a, op, b, i) /\ Near(emptied, data[i], a, i)
        BY <3>1, <4>1
      <4> HIDE DEF op
      <4>3. b = Forth(a, op, i)
        BY <4>2 DEF Linked
      <4>4. Near(emptied, data'[i], b, i)
        BY <1>4, <3>2, <4>2, <4>3, ForthNear
      <4>5. Joined(emptied, "undo", a, op, b, i)
        BY <4>2 DEF Joined
      <4>6. Trail(emptied, "undo", Append(undo, op), b, i)
        BY <1>4, <3>1, <4>1, <4>5, PushTrail
      <4> QED
        BY <3>1, <4>1, <4>4, <4>6
    <3> QED
      BY <1>4, <3>3, <3>5, <3>6 DEF Handlers
  <2>9. ASSUME NEW i \in Tracked'
        PROVE  \E x, y \in Maps : Between(x, y, i)'
    <3>1. PICK a, b \in Maps : Between(a, b, i)
      BY <1>2, <2>2, <2>9 DEF Trails
    <3>2. PICK m \in Maps : /\ Trail(emptied, "undo", undo', m, i)
                            /\ Trail(emptied, "redo", redos', m, i)
                            /\ Near(emptied, data'[i], m, i)
      BY <2>8, <3>1
    <3>3. Between(m, m, i)'
      BY <1>1, <1>8, <3>2
    <3> QED
      BY <3>3
  <2> QED
    BY <2>4, <2>7, <2>9 DEF Trails
<1> QED
  BY <1>10, <1>11

(* A reload that is not raced changes no row and no column. *)
LEMMA ReloadTrails ==
    ASSUME Inv, SyncInv, TrailInv, ReloadMetadata
    PROVE  TrailInv'
<1> SUFFICES ASSUME trouble' = {}, ops' <= UndoLimit PROVE ComingOK' /\ CellsGone' /\ Trails'
  BY DEF TrailInv
<1>1. PICK i \in DOMAIN reloads :
          /\ reloads[i].read # <<>>
          /\ data' = [Head(reloads[i].read) EXCEPT ![View] = reloads[i].view]
          /\ trouble' = trouble
               \cup (IF \/ reloads[i].seen # made \/ reloads[i].view # data[View]
                         \/ InsertUndecided
                     THEN {"raced"} ELSE {})
          /\ UNCHANGED <<undo, redos, emptied, pending, chain, inFlight, handler, ops>>
  BY DEF ReloadMetadata, queue
<1>2. /\ trouble = {} /\ reloads[i].seen = made /\ ~InsertUndecided
      /\ ComingOK /\ CellsGone /\ Trails
  BY <1>1 DEF TrailInv
<1>3. reloads[i].seen <= Len(executed)
  BY <1>1 DEF SyncInv, ReloadsKnow
<1>4. /\ Unexecuted \in Seq(Entries) /\ Len(Unexecuted) \in Nat
      /\ executed \in Seq(Nat) /\ Len(executed) \in Nat /\ made \in Nat /\ made <= Len(executed)
  BY <1>2, <1>3, QueueTypes
<1>5. ~Missed /\ InSync
  BY <1>2, <1>4 DEF SyncInv, Missed
<1>6. Len(Unexecuted) = 0 /\ made = Len(executed)
  BY <1>4, <1>5 DEF InSync
<1>7. data' = [server EXCEPT ![View] = reloads[i].view]
  BY <1>1, <1>2, <1>6 DEF SyncInv, ReloadsKnow
<1>8. PICK T : /\ Chain(T, server, Unexecuted)
               /\ Accepts(T, Unexecuted) =>
                      Agrees(T[Len(Unexecuted)], data, Unanswered, timer \/ reloads # <<>>)
  BY <1>5 DEF InSync, Follows
<1>9. T[Len(Unexecuted)] = server /\ Accepts(T, Unexecuted)
  <2>1. DOMAIN Unexecuted = {}
    BY <1>4, <1>6
  <2> QED
    BY <1>6, <1>8, <2>1 DEF Chain, Accepts
<1>10. RowsAgree(server, data) /\ ColumnsAgree(server, data, Unanswered)
  BY <1>8, <1>9 DEF Agrees
<1>11. \A j \in Rows \cup Columns : server[j] = data[j]
  <2>1. \A k \in DOMAIN Unanswered : \A c : ~InsertsAt(Unanswered[k], c)
    BY <1>2, NoneInserts DEF InsertsAt
  <2> QED
    BY <1>10, <2>1 DEF RowsAgree, ColumnsAgree
<1>12. \A j \in Rows \cup Columns : data'[j] = data[j]
  <2>1. \A j \in Rows \cup Columns : j \in Items \ {View}
    BY Kinds
  <2> QED
    BY <1>7, <1>11, <2>1, QueueTypes DEF Tables
<1>13. Tracked' = Tracked /\ Tracked \subseteq Rows \cup Columns
  BY <1>12 DEF Tracked
<1>14. NoneIsComing /\ NoneIsComing' /\ ~Coming("undo")' /\ ~Coming("redo")'
  BY <1>1, <1>2, NoneComing DEF NoneIsComing, Coming
<1>15. ComingOK'
  <2>1. Undecided' = Undecided /\ \A x \in Undecided : x.type # "insert_column"
    BY <1>1, <1>2 DEF Undecided, InsertUndecided
  <2> QED
    BY <1>1, <1>2, <1>14, <2>1 DEF ComingOK, Late, Inserts
<1>16. CellsGone'
  BY <1>1, <1>2, <1>12, RatedAssumption DEF CellsGone
<1>17. ASSUME NEW j \in Tracked, NEW a, NEW b, Between(a, b, j)
       PROVE  Between(a, b, j)'
  <2>1. data'[j] = data[j]
    BY <1>12, <1>13
  <2> QED
    BY <1>1, <1>14, <1>17, <2>1 DEF Between
<1>18. Trails'
  BY <1>2, <1>13, <1>17 DEF Trails
<1> QED
  BY <1>15, <1>16, <1>18

LEMMA OthersTrails ==
    ASSUME TrailInv, trouble' = {} => trouble = {},
           UNCHANGED <<data, undo, redos, emptied, pending, chain, inFlight, handler, ops>>
    PROVE  TrailInv'
<1>1. \A kind : Coming(kind)' = Coming(kind)
  BY DEF Coming
<1>2. ComingOK => ComingOK'
  BY <1>1 DEF ComingOK, Undecided, Late
<1>3. ASSUME NEW i, NEW a, NEW b, Between(a, b, i)
      PROVE  Between(a, b, i)'
  BY <1>1, <1>3 DEF Between, NoneIsComing
<1>4. Trails => Trails'
  BY <1>3 DEF Trails, Tracked
<1>5. CellsGone => CellsGone'
  BY DEF CellsGone
<1> QED
  BY <1>2, <1>4, <1>5 DEF TrailInv

LEMMA NextTrails == Inv /\ StackInv /\ SyncInv /\ TrailInv /\ [Next]_vars => TrailInv'
<1> SUFFICES ASSUME Inv, StackInv, SyncInv, TrailInv, [Next]_vars PROVE TrailInv'
  OBVIOUS
<1>1. CASE User
  BY <1>1, UserApplies, ApplyTrails DEF SomeApplies
<1>2. CASE Answer
  BY <1>2, AnswerTrails
<1>3. CASE AnswerError
  BY <1>3 DEF AnswerError, TrailInv
<1>4. CASE ServerExecutes \/ RequestFails \/ TimerReloads \/ ServerReads
  <2>1. UNCHANGED <<data, undo, redos, emptied, pending, chain, inFlight, handler, ops>>
    <3>1. CASE ServerExecutes
      BY <3>1 DEF ServerExecutes, store, queue
    <3>2. CASE RequestFails
      BY <3>2 DEF RequestFails, store, queue
    <3>3. CASE TimerReloads
      BY <3>3 DEF TimerReloads, store, queue
    <3>4. CASE ServerReads
      BY <3>4 DEF ServerReads, store, queue
    <3> QED
      BY <1>4, <3>1, <3>2, <3>3, <3>4
  <2>2. trouble \subseteq trouble'
    <3>1. CASE ServerExecutes
      BY <3>1 DEF ServerExecutes, Execute
    <3>2. CASE RequestFails
      BY <3>2 DEF RequestFails, Execute
    <3>3. CASE TimerReloads
      BY <3>3 DEF TimerReloads
    <3>4. CASE ServerReads
      BY <3>4 DEF ServerReads
    <3> QED
      BY <1>4, <3>1, <3>2, <3>3, <3>4
  <2> QED
    BY <2>1, <2>2, OthersTrails
<1>5. CASE ReloadMetadata
  BY <1>5, ReloadTrails
<1>6. CASE UNCHANGED vars
  BY <1>6, OthersTrails DEF vars, store, queue
<1> QED
  BY <1>1, <1>2, <1>3, <1>4, <1>5, <1>6 DEF Next, Finished, Answers

LEMMA InitTrails == Init => TrailInv
<1> SUFFICES ASSUME Init PROVE ComingOK /\ CellsGone /\ Trails
  BY DEF TrailInv
<1>1. /\ data = FirstTable /\ undo = <<>> /\ redos = <<>> /\ pending = <<>> /\ chain = "idle"
  BY DEF Init
<1>2. FirstTable \in Tables
  BY FirstAssumption DEF FirstTable, Tables, FieldMaps
<1>3. ~Coming("undo") /\ ~Coming("redo") /\ NoneIsComing
  BY <1>1 DEF Coming, NoneIsComing
<1>4. ComingOK
  BY <1>1, <1>3 DEF ComingOK, Undecided
<1>5. \A i \in Tracked : FirstTable[i] \in Maps
  BY <1>2, Kinds DEF Tracked, Tables, Maps
<1>6. ASSUME NEW i \in Tracked
      PROVE  \E a, b \in Maps : Between(a, b, i)
  <2> DEFINE m == FirstTable[i]
  <2>1. m \in Maps /\ m = data[i] /\ m = FirstTable[i]
    BY <1>1, <1>5
  <2> HIDE DEF m
  <2>2. Trail(emptied, "undo", undo, m, i) /\ Trail(emptied, "redo", redos, m, i)
    BY <1>1, <2>1, EmptyTrail
  <2>3. Between(m, m, i)
    BY <1>3, <2>1, <2>2 DEF Between, Near
  <2> QED
    BY <2>1, <2>3
<1>7. CellsGone
  <2> SUFFICES ASSUME data[Rated] = Gone, NEW r \in Rows
               PROVE  data[r] = Pale(data[r])
    BY DEF CellsGone
  <2>1. Rated \in Items /\ Rated \notin Copies /\ r \in Items /\ r \notin Copies \cup Columns
    BY RatedAssumption, Kinds
  <2>2. Rated \notin Present
    <3>1. [f \in Fields |-> IF f = "cell" /\ Rated \notin Present THEN Empty ELSE First]
              \in FieldMaps
      BY FirstAssumption DEF FieldMaps
    <3> QED
      BY <1>1, <2>1, <3>1, GoneAssumption DEF FirstTable, FieldMaps
  <2>3. data[r] = [f \in Fields |-> IF f = "cell" THEN Empty ELSE First]
    BY <1>1, <2>1, <2>2 DEF FirstTable
  <2>4. data[r] \in FieldMaps /\ data[r].cell = Empty
    BY <2>3, FirstAssumption DEF FieldMaps, Fields
  <2> HIDE <2>3
  <2> DEFINE m == data[r]
  <2>5. m \in FieldMaps /\ m.cell = Empty /\ m # Gone
    BY <2>4, GoneAssumption DEF FieldMaps
  <2> HIDE DEF m
  <2>6. /\ Pale(m) \in FieldMaps /\ Pale(m).cell = Empty
        /\ \A f \in Fields \ {"cell"} : Pale(m)[f] = m[f]
    BY <2>5, PaleFacts DEF Maps
  <2>7. \A f \in Fields : Pale(m)[f] = m[f]
    BY <2>5, <2>6
  <2>8. Pale(m) = m
    BY <2>5, <2>6, <2>7 DEF FieldMaps
  <2> QED
    BY <2>8 DEF m
<1>8. Trails
  BY <1>6 DEF Trails
<1> QED
  BY <1>4, <1>7, <1>8

-----------------------------------------------------------------------------
(* Undoing everything: induction over the natural numbers, from the library's *)
(* theorem on well-founded orders, and what the recursive function computes *)
(* with a stack of any length.                                             *)

LEMMA Least ==
    ASSUME NEW S \in SUBSET Nat, S # {}
    PROVE  \E n \in S : \A m \in S : n <= m
<1> DEFINE R == OpToRel(<, Nat)
<1>1. IsWellFoundedOn(R, Nat)
  BY NatLessThanWellFounded, Zenon
<1>2. \A x, y \in Nat : <<x, y>> \in R <=> x < y
  BY DEF OpToRel
<1> HIDE DEF R
<1>3. PICK x \in S : \A y \in S : ~(<<y, x>> \in R)
  BY <1>1, WFMin
<1>4. \A y \in S : ~(y < x)
  BY <1>2, <1>3
<1> QED
  BY <1>4

LEMMA Induct ==
    ASSUME NEW S \in SUBSET Nat, 0 \in S, \A n \in S : n + 1 \in S
    PROVE  \A n \in Nat : n \in S
<1> SUFFICES ASSUME Nat \ S # {} PROVE FALSE
  OBVIOUS
<1>1. PICK n \in Nat \ S : \A m \in Nat \ S : n <= m
  BY Least
<1>2. n # 0 /\ n - 1 \in Nat /\ ~(n <= n - 1)
  BY <1>1
<1>3. n - 1 \in S
  BY <1>1, <1>2
<1>4. n - 1 + 1 = n
  BY <1>1
<1> QED
  BY <1>1, <1>3, <1>4

(* The table after undoing the k-th operation from the end *)
Unwinds(t, u, k) == LET op == u[Len(u) - k + 1] IN Apply(t, Invert(op, op.id))

LEMMA UnwindsType ==
    ASSUME NEW t \in Tables, NEW u \in Seq(StackOps), NEW k \in 1 .. Len(u)
    PROVE  Unwinds(t, u, k) \in Tables
<1>1. Len(u) - k + 1 \in 1 .. Len(u)
  OBVIOUS
<1> DEFINE op == u[Len(u) - k + 1]
<1>2. op \in StackOps /\ op.id \in Nat \ {0}
  <2>1. op \in StackOps
    BY <1>1
  <2>2. \A o \in StackOps : o.id \in Nat \ {0}
    BY DEF StackOps, Ops, FieldOps, WidthOps, RecordOps, InsertOps, DeleteOps
  <2> QED
    BY <2>1, <2>2
<1>3. Unwinds(t, u, k) = Apply(t, Invert(op, op.id))
  BY DEF Unwinds
<1> HIDE DEF op
<1> QED
  BY <1>2, <1>3, InvertType, ApplyType

LEMMA UnwindingSteps ==
    ASSUME NEW t \in Tables, NEW u \in Seq(StackOps)
    PROVE  /\ Unwinding(t, u) \in [0 .. Len(u) -> Tables]
           /\ Unwinding(t, u)[0] = t
           /\ \A k \in 1 .. Len(u) : Unwinding(t, u)[k] = Unwinds(Unwinding(t, u)[k - 1], u, k)
<1> DEFINE n == Len(u)
           Steps(m, g) == /\ g \in [0 .. m -> Tables] /\ g[0] = t
                          /\ \A k \in 1 .. m : g[k] = Unwinds(g[k - 1], u, k)
           S == {m \in Nat : m <= n => \E g : Steps(m, g)}
<1>1. n \in Nat
  OBVIOUS
<1>2. 0 \in S
  <2> DEFINE g == [k \in 0 .. 0 |-> t]
  <2>1. g \in [0 .. 0 -> Tables] /\ g[0] = t
    OBVIOUS
  <2> HIDE DEF g
  <2>2. Steps(0, g)
    BY <2>1
  <2> QED
    BY <2>2
<1>3. ASSUME NEW m \in S
      PROVE  m + 1 \in S
  <2> SUFFICES ASSUME m + 1 <= n PROVE \E g : Steps(m + 1, g)
    OBVIOUS
  <2>1. m \in Nat /\ m <= n /\ m + 1 \in 1 .. n
    BY <1>1
  <2>2. PICK g : Steps(m, g)
    BY <2>1
  <2> DEFINE h == [k \in 0 .. m + 1 |-> IF k = m + 1 THEN Unwinds(g[m], u, m + 1) ELSE g[k]]
  <2>3. g[m] \in Tables
    BY <2>1, <2>2
  <2>4. Unwinds(g[m], u, m + 1) \in Tables
    BY <2>1, <2>3, UnwindsType
  <2>5. /\ h \in [0 .. m + 1 -> Tables] /\ h[m + 1] = Unwinds(g[m], u, m + 1)
        /\ \A k \in 0 .. m : h[k] = g[k]
    BY <2>1, <2>2, <2>4
  <2> HIDE DEF h
  <2>6. \A k \in 1 .. m + 1 : h[k] = Unwinds(h[k - 1], u, k)
    <3> TAKE k \in 1 .. m + 1
    <3>1. CASE k = m + 1
      <4>1. k - 1 = m /\ m \in 0 .. m
        BY <2>1, <3>1
      <4> QED
        BY <2>5, <3>1, <4>1
    <3>2. CASE k # m + 1
      <4>1. k \in 1 .. m /\ k \in 0 .. m /\ k - 1 \in 0 .. m
        BY <2>1, <3>2
      <4> QED
        BY <2>2, <2>5, <4>1
    <3> QED
      BY <3>1, <3>2
  <2>7. h[0] = t
    <3>1. 0 \in 0 .. m
      BY <2>1
    <3> QED
      BY <2>2, <2>5, <3>1
  <2>8. Steps(m + 1, h)
    BY <2>5, <2>6, <2>7
  <2> QED
    BY <2>8
<1>4. S \in SUBSET Nat
  OBVIOUS
<1>5. n \in S
  <2> HIDE DEF S, n
  <2> QED
    BY <1>1, <1>2, <1>3, <1>4, Induct
<1>6. PICK g : Steps(n, g)
  BY <1>1, <1>5
<1> DEFINE Rec(b) == b = [k \in 0 .. Len(u) |->
                             IF k = 0 THEN t
                             ELSE LET op == u[Len(u) - k + 1]
                                  IN  Apply(b[k - 1], Invert(op, op.id))]
           Rule(b) == b = [k \in 0 .. n |-> IF k = 0 THEN t ELSE Unwinds(b[k - 1], u, k)]
<1>7. \A b : Rec(b) <=> Rule(b)
  BY Zenon DEF Unwinds
<1>8. Rule(g)
  <2> HIDE DEF n
  <2>1. g = [k \in 0 .. n |-> g[k]]
    BY <1>6
  <2>2. \A k \in 0 .. n : g[k] = IF k = 0 THEN t ELSE Unwinds(g[k - 1], u, k)
    <3> TAKE k \in 0 .. n
    <3>1. k = 0 \/ k \in 1 .. n
      BY <1>1
    <3> QED
      BY <1>6, <3>1
  <2> QED
    BY <2>1, <2>2
<1> DEFINE b == Unwinding(t, u)
<1>9. Rule(b)
  <2>1. b = CHOOSE x : Rec(x)
    BY DEF Unwinding
  <2> HIDE DEF b, Rec, Rule
  <2>2. Rec(g)
    BY <1>7, <1>8
  <2>3. Rec(CHOOSE x : Rec(x))
    BY <2>2
  <2> QED
    BY <1>7, <2>1, <2>3
<1> HIDE DEF n, b
<1>10. /\ b[0] = t
       /\ \A k \in 1 .. n : b[k] = Unwinds(b[k - 1], u, k)
  <2>1. 0 \in 0 .. n /\ \A k \in 1 .. n : k \in 0 .. n /\ k # 0
    BY <1>1
  <2> QED
    BY <1>9, <2>1
<1>11. \A k \in 0 .. n : b[k] \in Tables
  <2> DEFINE P == {k \in Nat : k <= n => b[k] \in Tables}
  <2>1. P \in SUBSET Nat /\ 0 \in P
    BY <1>10
  <2>2. ASSUME NEW k \in P
        PROVE  k + 1 \in P
    <3> SUFFICES ASSUME k + 1 <= n PROVE b[k + 1] \in Tables
      OBVIOUS
    <3>1. k \in Nat /\ k <= n /\ k + 1 \in 1 .. n /\ k + 1 - 1 = k
      BY <1>1
    <3>2. b[k] \in Tables
      BY <3>1
    <3>3. Unwinds(b[k], u, k + 1) \in Tables
      BY <3>1, <3>2, UnwindsType DEF n
    <3> QED
      BY <1>10, <3>1, <3>3
  <2>3. \A k \in Nat : k \in P
    <3> HIDE DEF P
    <3> QED
      BY <2>1, <2>2, Induct
  <2> QED
    BY <1>1, <2>3
<1>12. b \in [0 .. n -> Tables]
  BY <1>9, <1>11
<1> QED
  BY <1>10, <1>12 DEF n, b

(* Undoing walks a trail back to its start, or to what is near each of its   *)
(* places, as long as the columns that it deletes are there.                *)
LEMMA UnwoundTrail ==
    ASSUME NEW e, NEW t \in Tables, NEW u \in Seq(StackOps), NEW i \in Items,
           NEW m \in Maps, Near(e, t[i], m, i),
           NEW w \in [0 .. Len(u) -> Maps], w[Len(u)] = m, w[0] = FirstTable[i],
           \A j \in 1 .. Len(u) : Linked(e, w[j - 1], u[j], w[j], i),
           \A k \in 0 .. Len(u) - 1 :
               LET op == u[Len(u) - k]
               IN  op.type = "insert_column" /\ i \in Holders(op.item) =>
                       Unwinding(t, u)[k][op.item] # Gone
    PROVE  \A k \in 0 .. Len(u) : Near(e, Unwinding(t, u)[k][i], w[Len(u) - k], i)
<1> DEFINE n == Len(u)
           b == Unwinding(t, u)
<1>1. /\ b \in [0 .. n -> Tables] /\ b[0] = t
      /\ \A k \in 1 .. n : b[k] = Unwinds(b[k - 1], u, k)
  BY UnwindingSteps
<1>2. n \in Nat /\ \A j \in 1 .. n : u[j] \in StackOps
  OBVIOUS
<1>3. \A s, k : Unwinds(s, u, k) = Apply(s, Invert(u[n - k + 1], u[n - k + 1].id))
  BY DEF Unwinds
<1>4. /\ w \in [0 .. n -> Maps] /\ w[n] = m
      /\ \A j \in 1 .. n : Linked(e, w[j - 1], u[j], w[j], i)
      /\ \A k \in 0 .. n - 1 :
             u[n - k].type = "insert_column" /\ i \in Holders(u[n - k].item) =>
                 b[k][u[n - k].item] # Gone
  OBVIOUS
<1> HIDE DEF n, b
<1> DEFINE P == {k \in Nat : k <= n => Near(e, b[k][i], w[n - k], i)}
<1>5. P \in SUBSET Nat /\ 0 \in P
  <2>1. n - 0 = n
    BY <1>2
  <2> QED
    BY <1>1, <1>4, <2>1
<1>6. ASSUME NEW k \in P
      PROVE  k + 1 \in P
  <2> SUFFICES ASSUME k + 1 <= n PROVE Near(e, b[k + 1][i], w[n - (k + 1)], i)
    OBVIOUS
  <2> DEFINE j == n - k
  <2>1. /\ k \in Nat /\ k \in 0 .. n /\ k \in 0 .. n - 1 /\ k + 1 \in 1 .. n /\ k + 1 - 1 = k
        /\ j \in 1 .. n /\ n - (k + 1) + 1 = j /\ n - (k + 1) = j - 1
        /\ j \in 0 .. n /\ j - 1 \in 0 .. n
    BY <1>2
  <2>2. Near(e, b[k][i], w[j], i)
    BY <2>1
  <2>3. u[j].type = "insert_column" /\ i \in Holders(u[j].item) => b[k][u[j].item] # Gone
    BY <1>4, <2>1
  <2> HIDE DEF j
  <2> DEFINE op == Invert(u[j], u[j].id)
  <2>4. b[k + 1] = Apply(b[k], op)
    BY <1>1, <1>3, <2>1
  <2>5. b[k] \in Tables /\ w[j] \in Maps /\ w[j - 1] \in Maps /\ u[j] \in StackOps
    BY <1>1, <1>2, <1>4, <2>1
  <2>6. op \in Ops
    <3>1. \A o \in StackOps : o.id \in Nat \ {0}
      BY DEF StackOps, Ops, FieldOps, WidthOps, RecordOps, InsertOps, DeleteOps
    <3> QED
      BY <2>5, <3>1, InvertType
  <2>7. Near(e, Forth(w[j], op, i), w[j - 1], i)
    BY <1>4, <2>1 DEF Linked
  <2>8. op.type = "delete_column" => u[j].type = "insert_column" /\ op.item = u[j].item
    BY <2>5, InvertKinds DEF FieldOf
  <2> HIDE DEF op
  <2>9. Apply(b[k], op)[i] = Forth(b[k][i], op, i)
    BY <2>3, <2>5, <2>6, <2>8, ApplyForth
  <2>10. Near(e, Forth(b[k][i], op, i), Forth(w[j], op, i), i)
    BY <2>2, <2>5, <2>6, ForthNear
  <2>11. Near(e, Forth(b[k][i], op, i), w[j - 1], i)
    BY <2>5, <2>7, <2>10, NearTrans
  <2> QED
    BY <2>1, <2>4, <2>9, <2>11
<1>7. \A k \in Nat : k \in P
  <2> HIDE DEF P
  <2> QED
    BY <1>5, <1>6, Induct
<1>8. \A k \in 0 .. n : Near(e, b[k][i], w[n - k], i)
  BY <1>2, <1>7
<1> QED
  BY <1>8 DEF n, b

(* Columns are led back exactly, and every place of their trail is passed. *)
LEMMA UnwoundColumn ==
    ASSUME Inv, NEW c \in Columns, Trail(emptied, "undo", undo, data[c], c)
    PROVE  /\ Unwound(data, undo)[c] = FirstTable[c]
           /\ \A k \in 0 .. Len(undo) - 1 :
                  LET op == undo[Len(undo) - k]
                  IN  op.type = "insert_column" /\ op.item = c =>
                          Unwinding(data, undo)[k][c] # Gone
<1> DEFINE n == Len(undo)
           b == Unwinding(data, undo)
<1>1. /\ data \in Tables /\ undo \in Seq(StackOps) /\ data[c] \in Maps
      /\ n \in Nat /\ c \in Items /\ \A o : c \notin Holders(o)
  BY QueueTypes, Kinds DEF Inv, TypeOK, StoreOK, Tables, Maps, Holders
<1>2. PICK w \in [0 .. n -> Maps] :
          /\ w[n] = data[c]
          /\ w[0] = FirstTable[c]
          /\ \A j \in 1 .. n : Linked(emptied, w[j - 1], undo[j], w[j], c)
  BY Zenon DEF Trail, Joined
<1>3. \A k \in 0 .. n : Near(emptied, b[k][c], w[n - k], c)
  <2>1. Near(emptied, data[c], data[c], c)
    BY DEF Near
  <2>2. \A k \in 0 .. n - 1 :
            LET op == undo[n - k]
            IN  op.type = "insert_column" /\ c \in Holders(op.item) => b[k][op.item] # Gone
    BY <1>1
  <2> DEFINE m == data[c]
  <2>3. m \in Maps /\ Near(emptied, data[c], m, c) /\ w[n] = m
    BY <1>1, <1>2, <2>1
  <2> HIDE DEF m
  <2> QED
    BY <1>1, <1>2, <2>2, <2>3, UnwoundTrail
<1>4. \A k \in 0 .. n : b[k][c] = w[n - k]
  BY <1>3, NearColumn
<1> HIDE DEF b
<1>5. Unwound(data, undo)[c] = FirstTable[c]
  <2>1. n - n = 0 /\ n \in 0 .. n
    BY <1>1
  <2>2. Unwound(data, undo) = b[n]
    BY DEF Unwound, b
  <2> QED
    BY <1>2, <1>4, <2>1, <2>2
<1>6. ASSUME NEW k \in 0 .. n - 1, undo[n - k].type = "insert_column", undo[n - k].item = c
      PROVE  b[k][c] # Gone
  <2>1. n - k \in 1 .. n /\ k \in 0 .. n
    BY <1>1
  <2> DEFINE op == undo[n - k]
  <2>2. op \in StackOps
    BY <1>1, <2>1
  <2>3. Linked(emptied, w[(n - k) - 1], op, w[n - k], c)
    BY <1>2, <2>1
  <2>4. b[k][c] = w[n - k]
    BY <1>4, <2>1
  <2>5. op.type = "insert_column" /\ op.item = c
    BY <1>6
  <2> HIDE DEF op, n
  <2>6. w[n - k] = op.new
    BY <2>3, <2>5 DEF Linked, Forth, FieldOf
  <2>7. op.new \in FieldMaps
    BY <2>2, <2>5, OpKinds DEF StackOps
  <2> QED
    BY <2>4, <2>6, <2>7, GoneAssumption DEF FieldMaps
<1> QED
  BY <1>5, <1>6 DEF b

LEMMA TrailsLeadBack == Inv /\ TrailInv => UndoLeadsBack
<1> SUFFICES ASSUME Inv, TrailInv, chain = "idle", trouble = {}, ops <= UndoLimit
             PROVE  /\ \A c \in Columns : Unwound(data, undo)[c] = FirstTable[c]
                    /\ \A r \in Rows : data[r] # Gone =>
                           \/ Unwound(data, undo)[r] = FirstTable[r]
                           \/ /\ r \in emptied
                              /\ Unwound(data, undo)[r] = WithoutCell(FirstTable[r])
  BY DEF UndoLeadsBack
<1>1. data \in Tables /\ undo \in Seq(StackOps)
  BY QueueTypes DEF Inv, TypeOK, StoreOK
<1>2. ASSUME NEW i \in Tracked
      PROVE  \E m \in Maps : Trail(emptied, "undo", undo, m, i) /\ Near(emptied, data[i], m, i)
  <2>1. NoneIsComing
    BY DEF NoneIsComing, Coming
  <2>2. PICK a, b \in Maps : Between(a, b, i)
    BY DEF TrailInv, Trails
  <2> QED
    BY <2>1, <2>2 DEF Between
<1>3. ASSUME NEW c \in Columns
      PROVE  Trail(emptied, "undo", undo, data[c], c)
  <2>1. c \in Tracked
    BY DEF Tracked
  <2>2. PICK m \in Maps : Trail(emptied, "undo", undo, m, c) /\ Near(emptied, data[c], m, c)
    BY <1>2, <2>1
  <2> QED
    BY <2>2, NearColumn
<1>4. ASSUME NEW r \in Rows, data[r] # Gone
      PROVE  \/ Unwound(data, undo)[r] = FirstTable[r]
             \/ r \in emptied /\ Unwound(data, undo)[r] = WithoutCell(FirstTable[r])
  <2> DEFINE n == Len(undo)
             b == Unwinding(data, undo)
  <2>1. r \in Tracked /\ r \in Items /\ n \in Nat
    BY <1>1, <1>4, Kinds DEF Tracked
  <2>2. PICK m \in Maps : Trail(emptied, "undo", undo, m, r) /\ Near(emptied, data[r], m, r)
    BY <1>2, <2>1
  <2>3. PICK w \in [0 .. n -> Maps] :
            /\ w[n] = m
            /\ w[0] = FirstTable[r]
            /\ \A j \in 1 .. n : Linked(emptied, w[j - 1], undo[j], w[j], r)
    BY <2>2, Zenon DEF Trail, Joined
  <2>4. ASSUME NEW k \in 0 .. n - 1, undo[n - k].type = "insert_column",
               r \in Holders(undo[n - k].item)
        PROVE  b[k][undo[n - k].item] # Gone
    <3>1. undo[n - k].item = Rated /\ Rated \in Columns
      BY <2>4, RatedAssumption DEF Holders
    <3> QED
      BY <1>3, <2>4, <3>1, UnwoundColumn
  <2>5. \A k \in 0 .. n : Near(emptied, b[k][r], w[n - k], r)
    BY <1>1, <2>1, <2>2, <2>3, <2>4, UnwoundTrail
  <2>6. n - n = 0 /\ n \in 0 .. n
    BY <2>1
  <2>7. Unwound(data, undo) = b[n]
    BY DEF Unwound
  <2> HIDE DEF b, n
  <2>8. Near(emptied, Unwound(data, undo)[r], FirstTable[r], r)
    BY <2>3, <2>5, <2>6, <2>7
  <2>9. FirstTable[r] # Gone
    <3>1. r \notin Copies \cup Columns
      BY Kinds
    <3>2. [f \in Fields |-> IF f = "cell" /\ Rated \notin Present THEN Empty ELSE First]
              \in FieldMaps
      BY FirstAssumption DEF FieldMaps
    <3> QED
      BY <2>1, <3>1, <3>2, GoneAssumption DEF FirstTable, FieldMaps
  <2> QED
    BY <2>8, <2>9 DEF Near, Pale
<1> QED
  BY <1>3, <1>4, UnwoundColumn

(* Undo leads back: when the page rests, nothing has gone wrong and no more   *)
(* operations were made than the stack holds, the inverses of the undo stack *)
(* lead every column and every file still there to what it was before the    *)
(* user's first operation, but for cells that were lost with their column:   *)
(* they are empty or what they were (undoOperation, redoOperation,           *)
(* handleReconnect, and the deletion of a column in apply.js).               *)
THEOREM UndoingLeadsBack == Spec => []UndoLeadsBack
<1>1. Init => Inv /\ StackInv /\ SyncInv /\ TrailInv
  BY InitInv, InitStacks, InitSync, InitTrails
<1>2. /\ Inv /\ Inv' /\ StackInv /\ SyncInv /\ TrailInv /\ [Next]_vars
      => StackInv' /\ SyncInv' /\ TrailInv'
  BY NextStacks, NextSync, NextTrails
<1>3. Inv /\ TrailInv => UndoLeadsBack
  BY TrailsLeadBack
<1> QED
  BY <1>1, <1>2, <1>3, Invariance, PTL DEF Spec
=============================================================================
