---------------------------- MODULE MetadataStore ----------------------------
(***************************************************************************)
(* The store behind a metadata view of the web site                        *)
(* (frontend/src/metadata/store): a table that the browser changes at      *)
(* once, a queue of the operations that the server has yet to execute,     *)
(* and the stacks of undo and redo.                                        *)
(*                                                                         *)
(* A table maps its items, rows, columns and the view, to their fields.    *)
(* JavaScript runs one callback at a time, so an action is one event: a    *)
(* user's operation, an answer, a timer.                                   *)
(***************************************************************************)
EXTENDS Naturals, Sequences, SequencesExt, FiniteSets

CONSTANTS
    Rows,         \* files of the first table
    Copies,       \* rows that duplicating a file will make
    Columns,      \* columns, of which Present are in the first table
    Present,
    Rated,        \* the column whose cells are modelled, a predefined one
    View,         \* the view, an item like the others
    Values,       \* what a field may hold
    First,        \* the value every field has at first
    Empty,        \* the value of a cell that nobody filled
    Gone,         \* in place of the fields of an item that is not there
    NoItem,       \* the undefined key of an operation that lost it
    UndoLimit,    \* 10 in the code
    MaxOps,       \* bound: operations, undos and redos that the user makes
    MaxFailures   \* bound: requests that the server refuses or that get lost

ASSUME UndoLimitAssumption == UndoLimit \in Nat
ASSUME BoundsAssumption == MaxOps \in Nat /\ MaxFailures \in Nat
ASSUME FirstAssumption == First \in Values /\ Empty \in Values
ASSUME RatedAssumption == Rated \in Columns
ASSUME NoItemAssumption == NoItem \notin Columns
ASSUME KindsAssumption == /\ Rows \cap Copies = {}
                          /\ (Rows \cup Copies) \cap Columns = {}
                          /\ View \notin Rows \cup Copies \cup Columns

(* Every item has every field: those it has no use for stay what they are. *)
(* A row's cell is its value in Rated, one of the predefined columns        *)
(* (PRIVATE_COLUMN_KEYS): rows hold their values under the column's key,   *)
(* and nobody renames them.  The values in columns of the users' own, which *)
(* rows hold under the column's name, are left out, and so are the options *)
(* of a column, whose renaming rewrites cells.  data is the one setting    *)
(* that a change of column data names: the others are merged (apply.js) and *)
(* stay.                                                                   *)
Fields == {"name", "cell", "data", "sorts", "groupbys", "order"}
Items == Rows \cup Copies \cup Columns \cup {View}

ASSUME GoneAssumption == Gone \notin [Fields -> Values]

(* The field that an operation sets, for those that set one. *)
FieldOf ==
    [rename_file |-> "name", modify_records |-> "cell",
     rename_column |-> "name", modify_column_data |-> "data",
     modify_sorts |-> "sorts", modify_groupbys |-> "groupbys",
     modify_column_order |-> "order"]

AfterServer == {"insert_column", "modify_sorts", "duplicate_record"}
LocalOnly == {"modify_column_width"}
NeedLoading == {"modify_sorts"}
Undoable == {"rename_file", "modify_records", "insert_column", "delete_column",
             "rename_column", "modify_column_data", "modify_column_width",
             "modify_column_order"}
OpTypes == DOMAIN FieldOf \cup AfterServer \cup LocalOnly
             \cup {"delete_records", "delete_column"}

VARIABLES
    data,       \* this.data: the table that the browser shows
    widths,     \* widths of columns, kept in the browser alone
    undo, redos,
    emptied,    \* rows that lost their cell with its column: history alone
    pending,    \* pendingOperations
    chain,      \* isSendingOperation and what it waits for: "idle",
                \* "waiting" for an answer, or "wedged": for nothing
    inFlight,   \* the operation whose answer is waited for
    handler,    \* the undoRedoHandler that the chain of callbacks carries
    loading,    \* isLoading: the view shows no table to work on
    timer,      \* delayReloadDataTimer
    reloads,    \* requests of the table under way
    server,     \* the table of the server
    request,    \* "none", "sent", "done", "refused" or "lost": inFlight's
    made,       \* number of operations queued so far
    ops,        \* number of things the user did
    executed,   \* what the server executed, in its order
    failures,
    trouble     \* kinds of trouble there have been

store == <<data, widths, undo, redos, emptied>>
queue == <<pending, chain, inFlight, handler, made>>
screen == <<loading, timer, reloads>>
remote == <<server, request, executed, failures>>
vars == <<store, queue, screen, remote, ops, trouble>>

NoOp == [id |-> 0, type |-> "none", item |-> NoItem, new |-> First, old |-> First]
New == [kind |-> "new", op |-> NoOp]
NoEntry == [n |-> 0, op |-> NoOp]

FirstTable ==
    [i \in Items |-> IF i \in Copies \/ (i \in Columns /\ i \notin Present)
                     THEN Gone
                     ELSE [f \in Fields |-> IF f = "cell" /\ Rated \notin Present
                                            THEN Empty ELSE First]]

-----------------------------------------------------------------------------
(* Operations on a table *)

WithoutCell(m) == [m EXCEPT !.cell = Empty]

(* The rows that have values in a column *)
Holders(c) == IF c = Rated THEN Rows \cup Copies ELSE {}

(* A column goes with the values that rows have in it. *)
WithoutColumn(t, c) ==
    [i \in Items |-> IF i = c THEN Gone
                     ELSE IF i \in Holders(c) /\ t[i] # Gone THEN WithoutCell(t[i])
                     ELSE t[i]]

(* operations/apply.js.  Nothing happens to an item that is not there. *)
Apply(t, op) ==
    CASE op.type \in DOMAIN FieldOf ->
           IF t[op.item] = Gone THEN t
           ELSE [t EXCEPT ![op.item][FieldOf[op.type]] = op.new]
      [] op.type = "delete_records" -> [t EXCEPT ![op.item] = Gone]
      [] op.type = "delete_column" ->
           IF t[op.item] = Gone THEN t ELSE WithoutColumn(t, op.item)
      [] op.type = "insert_column" -> [t EXCEPT ![op.item] = op.new]
      [] OTHER -> t

(* The rows of a table that lose their cell when op is applied *)
Losing(t, op) == {r \in Rows \cup Copies :
                      op.type = "delete_column" /\ Apply(t, op)[r] # t[r]}

ApplyWidth(w, op) ==
    IF op.type = "modify_column_width" /\ op.item # NoItem
    THEN [w EXCEPT ![op.item] = op.new] ELSE w

InvertNothingElse(op, id) ==
    CASE op.type = "insert_column" -> [op EXCEPT !.id = id, !.type = "delete_column"]
      [] op.type = "delete_column" ->
           [op EXCEPT !.id = id, !.type = "insert_column", !.new = op.old]
      [] OTHER -> [op EXCEPT !.id = id]

(* operations/invert.js.  The inverse of a change of the order of columns   *)
(* is made with the type of a change of width, whose attributes do not     *)
(* include the order: it changes nothing.  A deleted column is inserted      *)
(* again, without the values that rows had in it.                          *)
Invert(op, id) ==
    CASE op.type = "insert_column" -> [op EXCEPT !.id = id, !.type = "delete_column"]
      [] op.type = "delete_column" ->
           [op EXCEPT !.id = id, !.type = "insert_column", !.new = op.old]
      [] op.type = "modify_column_order" ->
           [NoOp EXCEPT !.id = id, !.type = "modify_column_width"]
      [] OTHER -> [op EXCEPT !.id = id, !.new = op.old, !.old = op.new]

Busy == chain # "idle"
Undecided == (IF chain = "waiting" THEN {inFlight.op} ELSE {})
                \cup {pending[i].op : i \in DOMAIN pending}
InsertUndecided == \E op \in Undecided : op.type = "insert_column"

-----------------------------------------------------------------------------
(* The queue *)

(* Does serverOperator.applyOperation get as far as sending a request?      *)
(* A rename looks for its row, a change of column data for its column, and *)
(* what follows when there is none is a TypeError.                         *)
Sendable(e, t) ==
    e.op.type \in {"rename_file", "modify_column_data"} => t[e.op.item] # Gone

SendUnshifted(e, q) == /\ chain' = "waiting"
                       /\ inFlight' = e
                       /\ pending' = <<e>> \o q
                       /\ request' = "sent"

Send(e, q) == /\ chain' = "waiting"
              /\ inFlight' = e
              /\ pending' = q
              /\ request' = "sent"

StopUnshifted(c, q) == /\ chain' = c
                       /\ inFlight' = NoEntry
                       /\ pending' = pending
                       /\ request' = "none"

Stop(c, q) == /\ chain' = c
              /\ inFlight' = NoEntry
              /\ pending' = q
              /\ request' = "none"

SendNoMore(t, caught) ==
    Stop(IF pending = <<>> THEN "idle" ELSE "wedged", pending)

(* sendNextOperation, called by the callback of an answer with the table t. *)
(* An exception ends in the promise that the answer came by: when it still  *)
(* has a catch before it (caught), that one calls the callback again, with *)
(* an error, and the operation after next is tried.                        *)
SendNextOperation(t, caught) ==
    CASE pending = <<>> -> Stop("idle", <<>>)
      [] pending # <<>> /\ Sendable(Head(pending), t) ->
           Send(Head(pending), Tail(pending))
      [] pending # <<>> /\ ~Sendable(Head(pending), t) ->
           LET rest == Tail(pending) IN
           CASE ~caught -> Stop("wedged", rest)
             [] caught /\ rest = <<>> -> Stop("idle", <<>>)
             [] caught /\ rest # <<>> ->
                  IF Sendable(Head(rest), t) THEN Send(Head(rest), Tail(rest))
                  ELSE Stop("wedged", Tail(rest))

Throws(t) == pending # <<>> /\ ~Sendable(Head(pending), t)

DropWhenBusy(op, h, t) ==
    LET e == [n |-> made + 1, op |-> op] IN
    /\ made' = made + 1
    /\ IF Busy THEN UNCHANGED <<pending, chain, inFlight, handler, request>>
       ELSE handler' = h /\ Send(e, <<>>)

(* addPendingOperations and startSendOperation.  The handler of an          *)
(* operation that finds the queue busy is dropped.                         *)
AddPendingOperation(op, h, t) ==
    LET e == [n |-> made + 1, op |-> op] IN
    /\ made' = made + 1
    /\ IF Busy
       THEN /\ pending' = Append(pending, e)
            /\ UNCHANGED <<chain, inFlight, handler, request>>
       ELSE /\ handler' = h
            /\ IF Sendable(e, t) THEN Send(e, <<>>) ELSE Stop("wedged", <<>>)

(* handleUndoRedos: the stacks after it *)
Kept(u) == IF Len(u) > UndoLimit
           THEN SubSeq(u, Len(u) - UndoLimit + 1, Len(u)) ELSE u

UndoAfter(h, op, u) ==
    CASE h.kind = "new" -> IF op.type \in Undoable THEN Append(Kept(u), op)
                           ELSE Kept(u)
      [] h.kind = "redo" -> Append(u, h.op)
      [] OTHER -> u

RedosAfter(h, r) ==
    CASE h.kind = "new" -> <<>>
      [] h.kind = "undo" -> Append(r, h.op)
      [] OTHER -> r

(* Operations whose answer is handled by the wrong handler, and undos and   *)
(* redos that overtake a column on its way: see the README.                *)
Hurries(op, h) ==
    \/ Busy /\ op.type \in AfterServer /\ ~(h.kind = "new" /\ handler.kind = "new")
    \/ h.kind # "new" /\ InsertUndecided

(* applyOperation, with the stacks u and r that undo or redo has popped *)
ApplyOperation(op, h, u, r) ==
    LET late == op.type \in AfterServer
        t == IF late THEN data ELSE Apply(data, op) IN
    /\ ~loading /\ ops < MaxOps
    /\ ops' = ops + 1
    /\ loading' = (op.type \in NeedLoading)
    /\ data' = t
    /\ emptied' = emptied \cup Losing(data, op)
    /\ undo' = IF late THEN u ELSE UndoAfter(h, op, u)
    /\ redos' = IF late THEN r ELSE RedosAfter(h, r)
    /\ IF op.type \in LocalOnly
       THEN widths' = ApplyWidth(widths, op) /\ UNCHANGED <<queue, request>>
       ELSE AddPendingOperation(op, h, t) /\ UNCHANGED widths
    /\ trouble' = trouble
         \cup (IF Hurries(op, h) THEN {"hurried"} ELSE {})
         \cup (IF op.type \notin LocalOnly /\ ~Busy
                    /\ ~Sendable([n |-> 0, op |-> op], t)
               THEN {"thrown"} ELSE {})
    /\ UNCHANGED <<timer, reloads, server, executed, failures>>

-----------------------------------------------------------------------------
(* What the user does *)

Make(type, item, new, old) ==
    ApplyOperation([id |-> ops + 1, type |-> type, item |-> item,
                    new |-> new, old |-> old], New, undo, redos)

(* Tables of files: rows that are directories are left out, which the same *)
(* methods handle apart.                                                   *)
SetField(type, items) ==
    \E i \in items, v \in Values \ {Empty} :
        /\ data[i] # Gone
        /\ v # data[i][FieldOf[type]]
        /\ Make(type, i, v, data[i][FieldOf[type]])

ModifyRecords == data[Rated] # Gone /\ SetField("modify_records", Rows \cup Copies)
RenameFile == SetField("rename_file", Rows \cup Copies)
RenameColumn == SetField("rename_column", Columns \ {Rated})
ModifyColumnData == SetField("modify_column_data", Columns)
ModifySorts == SetField("modify_sorts", {View})
ModifyGroupbys == SetField("modify_groupbys", {View})
ModifyColumnOrder == SetField("modify_column_order", {View})

DeleteRecords ==
    \E i \in Rows \cup Copies :
        data[i] # Gone /\ Make("delete_records", i, First, First)

DuplicateRecord ==
    \E i \in Rows, c \in Copies :
        /\ data[i] # Gone /\ data[c] = Gone
        /\ \A op \in Undecided : op.new # c
        /\ server[c] = Gone
        /\ Make("duplicate_record", i, c, First)

InsertColumn ==
    \E c \in Columns, v \in Values \ {Empty} :
        /\ data[c] = Gone /\ ~InsertUndecided
        /\ Make("insert_column", c, [f \in Fields |-> v], First)

DeleteColumn ==
    \E c \in Columns : data[c] # Gone /\ Make("delete_column", c, First, data[c])

ModifyColumnWidth ==
    \E c \in Columns, v \in Values \ {Empty} :
        /\ data[c] # Gone /\ v # widths[c]
        /\ Make("modify_column_width", c, v, widths[c])

UndoUnpopped ==
    /\ undo # <<>>
    /\ ApplyOperation(Invert(Last(undo), ops + 1),
                      [kind |-> "undo", op |-> Last(undo)], undo, redos)

UndoOperation ==
    /\ undo # <<>>
    /\ ApplyOperation(Invert(Last(undo), ops + 1),
                      [kind |-> "undo", op |-> Last(undo)], Front(undo), redos)

RedoOperation ==
    /\ redos # <<>>
    /\ ApplyOperation(Last(redos), [kind |-> "redo", op |-> Last(redos)],
                      undo, Front(redos))

-----------------------------------------------------------------------------
(* The server: its answers as the store sees them *)

(* What the server has nothing to do with is refused: an item that is not   *)
(* there, a column that is, a file that has another name by now.           *)
Refused(op) ==
    IF op.type = "insert_column" THEN server[op.item] # Gone
    ELSE \/ op.type # "modify_records" /\ server[op.item] = Gone
         \/ op.type = "rename_file" /\ server[op.item].name # op.old

(* Values for a column that is not there are left out, and the answer is    *)
(* that of success, as it is for records that are not there.               *)
Ignored(op) == op.type = "modify_records" /\ server[Rated] = Gone

Executed(op) == CASE op.type = "duplicate_record" ->
                       [server EXCEPT ![op.new] = server[op.item]]
                  [] op.type # "duplicate_record" ->
                       IF Ignored(op) THEN server ELSE Apply(server, op)

Execute == /\ server' = Executed(inFlight.op)
           /\ executed' = Append(executed, inFlight.n)
           /\ trouble' = trouble \cup (IF Ignored(inFlight.op) THEN {"ignored"} ELSE {})

ServerExecutes ==
    /\ request = "sent"
    /\ IF Refused(inFlight.op)
       THEN request' = "refused" /\ UNCHANGED <<server, executed, trouble>>
       ELSE request' = "done" /\ Execute
    /\ UNCHANGED <<store, queue, screen, ops, failures>>

(* The server fails, or its answer does not arrive. *)
RequestFails ==
    /\ request = "sent"
    /\ failures < MaxFailures
    /\ failures' = failures + 1
    /\ \/ request' \in {"refused", "lost"} /\ UNCHANGED <<server, executed, trouble>>
       \/ ~Refused(inFlight.op) /\ request' = "lost" /\ Execute
    /\ UNCHANGED <<store, queue, screen, ops>>

-----------------------------------------------------------------------------
(* Answers *)

ReloadNothing(t) == reloads

(* The view as it is now: the code hands over the object itself, so that what *)
(* changes it in place later reaches the reload too.  Here such a reload    *)
(* counts as raced.                                                        *)
StartReload(t) == Append(reloads, [view |-> t[View], read |-> <<>>, seen |-> 0])

(* sendOperationCallback, called by the then of the request.  success_callback *)
(* reloads the table after a change of sorting and, 600 ms later, after a   *)
(* duplication.                                                            *)
Answer ==
    LET op == inFlight.op
        late == op.type \in AfterServer
        t == IF late THEN Apply(data, op) ELSE data IN
    /\ request = "done"
    /\ data' = t
    /\ undo' = IF late THEN UndoAfter(handler, op, undo) ELSE undo
    /\ redos' = IF late THEN RedosAfter(handler, redos) ELSE redos
    /\ timer' = (timer \/ op.type = "duplicate_record")
    /\ loading' = (loading \/ op.type = "modify_sorts")
    /\ reloads' = IF op.type = "modify_sorts" THEN StartReload(t) ELSE reloads
    /\ SendNextOperation(t, op.type # "rename_file")
    /\ trouble' = trouble \cup (IF Throws(t) THEN {"thrown"} ELSE {})
    /\ UNCHANGED <<widths, emptied, handler, made, ops, server, executed, failures>>

(* The catch of the request.  The operation stays as the browser applied    *)
(* it.  The catch of a rename reads the status of a response: when there   *)
(* is no response it throws, and nobody goes on with the queue.            *)
AnswerError ==
    /\ request \in {"refused", "lost"}
    /\ IF request = "lost" /\ inFlight.op.type = "rename_file"
       THEN Stop("wedged", pending)
       ELSE SendNextOperation(data, FALSE)
    /\ trouble' = trouble \cup {"failed"}
         \cup (IF Throws(data) THEN {"thrown"} ELSE {})
    /\ UNCHANGED <<store, handler, made, screen, ops, server, executed, failures>>

-----------------------------------------------------------------------------
(* Reloads *)

(* delayReloadMetadata, 600 ms later *)
TimerReloads ==
    /\ timer
    /\ timer' = FALSE
    /\ loading' = TRUE
    /\ reloads' = StartReload(data)
    /\ UNCHANGED <<store, queue, remote, ops, trouble>>

ServerReads ==
    \E i \in DOMAIN reloads :
        /\ reloads[i].read = <<>>
        /\ reloads' = [reloads EXCEPT ![i].read = <<server>>,
                                      ![i].seen = Len(executed)]
        /\ UNCHANGED <<store, queue, loading, timer, remote, ops, trouble>>

(* loadMetadata: rows and columns as the server read them, the view as it   *)
(* was when the reload began.  A reload is raced when the server read the  *)
(* table before it had executed what the browser showed, when the view has *)
(* changed since, or when the answer of an insertion will insert its       *)
(* column a second time.                                                   *)
ReloadMetadata ==
    \E i \in DOMAIN reloads :
        /\ reloads[i].read # <<>>
        /\ data' = [Head(reloads[i].read) EXCEPT ![View] = reloads[i].view]
        /\ reloads' = RemoveAt(reloads, i)
        /\ loading' = FALSE
        /\ trouble' = trouble
             \cup (IF \/ reloads[i].seen # made \/ reloads[i].view # data[View]
                       \/ InsertUndecided
                   THEN {"raced"} ELSE {})
        /\ UNCHANGED <<widths, undo, redos, emptied, queue, timer, remote, ops>>

-----------------------------------------------------------------------------

Init ==
    /\ data = FirstTable
    /\ widths = [c \in Columns |-> First]
    /\ undo = <<>> /\ redos = <<>> /\ emptied = {}
    /\ pending = <<>> /\ chain = "idle" /\ inFlight = NoEntry /\ handler = New
    /\ loading = FALSE /\ timer = FALSE /\ reloads = <<>>
    /\ server = FirstTable
    /\ request = "none"
    /\ made = 0 /\ ops = 0 /\ executed = <<>> /\ failures = 0
    /\ trouble = {}

User == \/ ModifyRecords \/ RenameFile \/ RenameColumn \/ ModifyColumnData
        \/ ModifySorts \/ ModifyGroupbys \/ ModifyColumnOrder
        \/ DeleteRecords \/ DuplicateRecord \/ InsertColumn \/ DeleteColumn
        \/ ModifyColumnWidth \/ UndoOperation \/ RedoOperation

Answers == Answer \/ AnswerError

Quiet == chain # "waiting" /\ ~timer /\ reloads = <<>>

(* The user may do nothing more. *)
Finished == Quiet /\ UNCHANGED vars

Next == User \/ ServerExecutes \/ RequestFails \/ Answers
          \/ TimerReloads \/ ServerReads \/ ReloadMetadata \/ Finished

(* Requests are executed or fail, answers arrive, timers run. *)
Spec == /\ Init /\ [][Next]_vars
        /\ WF_vars(ServerExecutes) /\ WF_vars(Answers)
        /\ WF_vars(TimerReloads) /\ WF_vars(ServerReads) /\ WF_vars(ReloadMetadata)

-----------------------------------------------------------------------------
(* Properties *)

FieldMaps == [Fields -> Values]
Tables == [Items -> FieldMaps \cup {Gone}]

FieldOps == [id : Nat \ {0}, type : DOMAIN FieldOf, item : Items,
             new : Values, old : Values]
WidthOps == [id : Nat \ {0}, type : LocalOnly, item : Columns \cup {NoItem},
             new : Values, old : Values]
RecordOps == [id : Nat \ {0}, type : {"delete_records", "duplicate_record"},
              item : Items, new : Values \cup Copies, old : Values]
InsertOps == [id : Nat \ {0}, type : {"insert_column"}, item : Columns,
              new : FieldMaps, old : Values \cup FieldMaps]
DeleteOps == [id : Nat \ {0}, type : {"delete_column"}, item : Columns,
              new : Values \cup FieldMaps, old : Values \cup FieldMaps]
Ops == FieldOps \cup WidthOps \cup RecordOps \cup InsertOps \cup DeleteOps

(* Operations that undo can invert: one that deletes a column knows it. *)
StackOps == {op \in Ops : /\ op.type \in Undoable
                          /\ op.type = "delete_column" => op.old \in FieldMaps}

Entries == [n : Nat, op : Ops]

QueueOK ==
    /\ made \in Nat
    /\ pending \in Seq(Entries)
    /\ chain \in {"idle", "waiting", "wedged"}
    /\ inFlight \in Entries \cup {NoEntry}
    /\ chain = "waiting" => inFlight \in Entries
    /\ chain = "waiting" <=> request # "none"
    /\ chain = "idle" => pending = <<>>
    /\ handler \in [kind : {"new"}, op : {NoOp}]
                      \cup [kind : {"undo", "redo"}, op : StackOps]

StoreOK ==
    /\ data \in Tables
    /\ widths \in [Columns -> Values]
    /\ undo \in Seq(StackOps) /\ redos \in Seq(StackOps)
    /\ emptied \subseteq Rows \cup Copies

Reloads == [view : FieldMaps \cup {Gone}, read : Seq(Tables), seen : Nat]

ScreenOK == loading \in BOOLEAN /\ timer \in BOOLEAN /\ reloads \in Seq(Reloads)

ServerOK ==
    /\ ops \in Nat /\ failures \in Nat
    /\ server \in Tables
    /\ request \in {"none", "sent", "done", "refused", "lost"}
    /\ executed \in Seq(Nat)

(* Types, and how the parts of the queue hang together: a request is under   *)
(* way exactly while an answer is waited for, and nothing is left in the   *)
(* queue of a store that saves nothing.                                    *)
TypeOK == QueueOK /\ StoreOK /\ ScreenOK /\ ServerOK

(* The server executes operations in the order in which the user did them, *)
(* and none twice: pendingOperations is a queue with one request under way, *)
(* whatever fails, throws or is undone.                                    *)
InOrder == \A i, j \in DOMAIN executed : i < j => executed[i] < executed[j]

(* What the browser shows once the queue is empty is what the server has,   *)
(* although the browser applied some operations before the server, some    *)
(* after it, and loaded the table anew in between, unless there was one of *)
(* the troubles that the README explains.                                  *)
QuietMeansInSync ==
    Quiet /\ chain = "idle" /\ trouble = {} => data = server

(* What undoing everything would make of a table: back[k] is what the last k *)
(* operations of the stack leave when they are undone.                     *)
Unwinding(t, u) ==
    LET back[k \in 0 .. Len(u)] ==
            IF k = 0 THEN t
            ELSE LET op == u[Len(u) - k + 1] IN Apply(back[k - 1], Invert(op, op.id))
    IN  back

Unwound(t, u) == Unwinding(t, u)[Len(u)]

(* Undo leads back: from the table on the screen, the inverses of what is    *)
(* on the undo stack lead to the first table, deleted and duplicated files  *)
(* and what has no undo left aside.  What was lost with its column is the   *)
(* exception: a cell of it that no later undo fills again stays empty, but  *)
(* it has no other value than its first, and the rest of the row is exact. *)
UndoLeadsBack ==
    Quiet /\ chain = "idle" /\ trouble = {} /\ ops <= UndoLimit =>
        LET t == Unwound(data, undo) IN
        /\ \A c \in Columns : t[c] = FirstTable[c]
        /\ \A r \in Rows : data[r] # Gone =>
               \/ t[r] = FirstTable[r]
               \/ r \in emptied /\ t[r] = WithoutCell(FirstTable[r])

(* No operation is on the stacks twice: what is undone moves to redos, what *)
(* is redone moves back, and new operations clear redos, at once or when   *)
(* the server answers.                                                     *)
StacksHoldEachOnce ==
    "hurried" \notin trouble =>
        LET both == undo \o redos IN
        \A i, j \in DOMAIN both : i # j => both[i].id # both[j].id

(* Saving ends: every operation gets its turn, unless one failed or threw. *)
SavingEnds == chain # "idle" ~> (chain = "idle" \/ trouble # {})

(* The table comes back after it was hidden for a reload, unless an operation *)
(* failed (that of a change of sorting hides the table until the page is    *)
(* left) or threw.                                                         *)
LoadingEnds == loading ~> (~loading \/ trouble # {})
=============================================================================
