-------------------------------- MODULE Sqlite --------------------------------
(***************************************************************************)
(* The SQLite wrapper: a connection, statement objects over it             *)
(* (prepared_statement and statement treat _stmt alike), result sets and   *)
(* transaction.  SQLite itself is external: the database handles it has    *)
(* open, the compiled statements, the transaction and the table.  What it  *)
(* answers is nondeterministic where a disk, a lock or memory decides.     *)
(*                                                                         *)
(* 0 is the null pointer; addresses are used again once they are free.     *)
(* One table has rows of two columns; one statement inserts a row, the     *)
(* other selects them all.  A result set steps the statement it came from  *)
(* and is used only while that is open, so next() is given the statement.  *)
(* A call that finds _stmt or _sqlite3 null changes nothing and returns    *)
(* false: it is no step.                                                   *)
(***************************************************************************)
EXTENDS Integers, Sequences, Functions

CONSTANTS
    Stmts,          \* the statement objects
    Values,         \* what a column may hold
    Null,           \* SQL's NULL, not one of Values
    ColumnFailures, \* whether binding one column may fail (memory, range)
    Handles,        \* the addresses of handles: as many may be open at a time
    Addresses,      \* those of compiled statements
    MaxRows         \* bound: rows in the table and in a transaction, also as far as
                    \* the program was told

ASSUME NullAssumption == Null \notin Values /\ ColumnFailures \in BOOLEAN
ASSUME AddressAssumption == 0 \notin Handles /\ 0 \notin Addresses
ASSUME BoundsAssumption == MaxRows \in Nat

VARIABLES
    handle,         \* connection::_sqlite3, 0 for null
    dbs,            \* SQLite: the handles that are open
    exists,         \* the statement objects that are in scope
    stmt,           \* _stmt of each, 0 for null
    compiled,       \* SQLite: the compiled statements
    inTransaction,  \* SQLite: the handles between BEGIN and its end
    writer,         \* SQLite: the handle that holds the write lock, or 0
    pending,        \* SQLite: the rows of the writer's transaction
    table,          \* SQLite: the rows that are committed
    rolledBack,     \* history: SQLite has rolled a transaction back by itself
    believed,       \* history: what bind() said is bound to each statement
    begun,          \* history: the handles with a transaction, as far as begin(),
                    \* commit() and rollback() told the program
    toldPending,    \* history: the rows it was told are inserted in each of these
    told,           \* history: the rows it was told are committed, and NoRow
                    \* for one that is, and that it has in toldPending
    forgot          \* history: a statement was left open when its object or
                    \* its connection went

external == <<inTransaction, writer, pending, table, rolledBack>>
promises == <<believed, begun, toldPending, told>>
vars == <<handle, dbs, exists, stmt, compiled, external, promises, forgot>>

Columns == {1, 2}
Rows == [Columns -> Values \cup {Null}]
Unbound == [c \in Columns |-> Null]
NoRow == <<>>

Compiled == [db : Handles, sql : {"insert", "select"},
             at : {"start", "row", "end"}, left : 0 .. MaxRows, bound : Rows]

TypeOK ==
    /\ handle \in Handles \cup {0} /\ dbs \subseteq Handles
    /\ exists \subseteq Stmts
    /\ stmt \in [Stmts -> Addresses \cup {0}]
    /\ DOMAIN compiled \subseteq Addresses
    /\ \A a \in DOMAIN compiled : compiled[a] \in Compiled
    /\ inTransaction \subseteq dbs
    /\ writer \in dbs \cup {0}
    /\ {pending, table} \subseteq Seq(Rows) /\ told \in Seq(Rows \cup {NoRow})
    /\ begun \subseteq dbs /\ toldPending \in [Handles -> Seq(Rows)]
    /\ believed \in [Stmts -> Rows]
    /\ forgot \in BOOLEAN /\ rolledBack \in BOOLEAN

Init ==
    /\ handle = 0 /\ dbs = {} /\ exists = {}
    /\ stmt = [s \in Stmts |-> 0] /\ compiled = [a \in {} |-> 0]
    /\ inTransaction = {} /\ writer = 0
    /\ pending = <<>> /\ table = <<>> /\ rolledBack = FALSE
    /\ begun = {} /\ toldPending = [h \in Handles |-> <<>>] /\ told = <<>>
    /\ believed = [s \in Stmts |-> Unbound]
    /\ forgot = FALSE

-----------------------------------------------------------------------------
(* SQLite, as far as the wrapper relies on it.                             *)

OpenOn(h) == {a \in DOMAIN compiled : compiled[a].db = h}

Reading(h) == \E a \in OpenOn(h) : compiled[a].at = "row"

\* Another handle's reader keeps the table from being changed.
Blocked(h) == \E g \in dbs \ {h} : Reading(g)

\* The transaction of the handle h ends, and the table is then t.
EndTransaction(h, t) ==
    /\ inTransaction' = inTransaction \ {h}
    /\ writer' = IF writer = h THEN 0 ELSE writer
    /\ pending' = IF writer = h THEN <<>> ELSE pending
    /\ table' = t

\* An error may roll the transaction back.  Only sqlite3_get_autocommit() would
\* tell, and the wrapper does not call it.
MayRollBack(h) ==
    \/ UNCHANGED external
    \/ /\ h \in inTransaction
       /\ EndTransaction(h, table)
       /\ rolledBack' = TRUE

\* The program knows that the transaction of the handle h has ended.
KnownEnd(h) ==
    /\ begun' = begun \ {h}
    /\ toldPending' = [toldPending EXCEPT ![h] = <<>>]

\* sqlite3_close(): refused while statements are open, else all is freed and
\* an open transaction rolled back.
Closes(h) == h # 0 /\ OpenOn(h) = {}

SqliteClose(h) ==
    IF Closes(h) THEN EndTransaction(h, table) /\ KnownEnd(h) /\ UNCHANGED rolledBack
                 ELSE UNCHANGED <<external, begun, toldPending>>

-----------------------------------------------------------------------------
(* connection                                                              *)

\* A statement object still has a statement on the connection.
LeftOpen == \E s \in exists : stmt[s] \in OpenOn(handle)

\* open() closes first.  sqlite3_open() gives a handle whether it fails or
\* not, and a program that goes on uses it.
Open ==
    \E h \in Handles \ dbs :
        /\ SqliteClose(handle)
        /\ handle' = h
        /\ dbs' = (IF Closes(handle) THEN dbs \ {handle} ELSE dbs) \cup {h}
        /\ forgot' = (forgot \/ LeftOpen)
        /\ UNCHANGED <<exists, stmt, compiled, believed, told>>

\* close(), which the destructor calls, too: what SQLite answers is ignored.
Close ==
    /\ handle # 0
    /\ SqliteClose(handle)
    /\ handle' = 0
    /\ dbs' = IF Closes(handle) THEN dbs \ {handle} ELSE dbs
    /\ forgot' = (forgot \/ LeftOpen)
    /\ UNCHANGED <<exists, stmt, compiled, believed, told>>

-----------------------------------------------------------------------------
(* statement, prepared_statement and result_set                            *)

\* The constructor: _stmt is null.
Create(s) ==
    /\ s \notin exists
    /\ exists' = exists \cup {s}
    /\ UNCHANGED <<handle, dbs, stmt, compiled, external, promises, forgot>>

\* The destructor does nothing: the pointer is gone.
Destroy(s) ==
    /\ s \in exists
    /\ exists' = exists \ {s}
    /\ forgot' = (forgot \/ stmt[s] # 0)
    /\ stmt' = [stmt EXCEPT ![s] = 0]
    /\ believed' = [believed EXCEPT ![s] = Unbound]
    /\ UNCHANGED <<handle, dbs, compiled, external, begun, toldPending, told>>

\* Mutant: the pointer stays.
CloseKeepsPointer(s) ==
    /\ s \in exists /\ stmt[s] # 0
    /\ compiled' = Restrict(compiled, DOMAIN compiled \ {stmt[s]})
    /\ UNCHANGED <<handle, dbs, exists, stmt, external, promises, forgot>>

\* close()
CloseStmt(s) ==
    /\ s \in exists /\ stmt[s] # 0
    /\ compiled' = Restrict(compiled, DOMAIN compiled \ {stmt[s]})
    /\ stmt' = [stmt EXCEPT ![s] = 0]
    /\ UNCHANGED <<handle, dbs, exists, external, promises, forgot>>

\* Mutant: the old statement is not closed first.
PrepareOver(s, q) ==
    /\ s \in exists /\ handle # 0
    /\ \E a \in Addresses \ DOMAIN compiled :
          /\ stmt' = [stmt EXCEPT ![s] = a]
          /\ compiled' = [x \in DOMAIN compiled \cup {a} |->
                IF x = a THEN [db |-> handle, sql |-> q, at |-> "start",
                               left |-> 0, bound |-> Unbound]
                         ELSE compiled[x]]
    /\ believed' = [believed EXCEPT ![s] = Unbound]
    /\ UNCHANGED <<handle, dbs, exists, external, begun, toldPending, told, forgot>>

\* prepare() and statement::execute_query(): close, then compile the SQL
\* statement q, which fails without a connection and may always fail.
Prepare(s, q) ==
    LET kept == Restrict(compiled, DOMAIN compiled \ {stmt[s]}) IN
    /\ s \in exists
    /\ \/ /\ stmt' = [stmt EXCEPT ![s] = 0]
          /\ compiled' = kept
       \/ /\ handle # 0
          /\ \E a \in Addresses \ DOMAIN kept :
                /\ stmt' = [stmt EXCEPT ![s] = a]
                /\ compiled' = [x \in DOMAIN kept \cup {a} |->
                      IF x = a THEN [db |-> handle, sql |-> q, at |-> "start",
                                     left |-> 0, bound |-> Unbound]
                               ELSE kept[x]]
    /\ believed' = [believed EXCEPT ![s] = Unbound]
    /\ UNCHANGED <<handle, dbs, exists, external, begun, toldPending, told, forgot>>

\* bind() gives the columns' answers joined by |: true when one was bound.
BindResult(failed) == failed # Columns

\* bind(): a statement that was stepped and not reset refuses all columns,
\* and so does the SELECT, which has no parameters.  Unless ColumnFailures,
\* columns are bound or refused together.
Bind(s, row) ==
    /\ s \in exists /\ stmt[s] # 0 /\ compiled[stmt[s]].sql = "insert"
    /\ \E failed \in SUBSET Columns :
          /\ IF compiled[stmt[s]].at # "start" THEN failed = Columns
             ELSE ColumnFailures \/ failed = {}
          /\ compiled' = [compiled EXCEPT ![stmt[s]].bound =
                [c \in Columns |-> IF c \in failed THEN @[c] ELSE row[c]]]
          /\ believed' = IF BindResult(failed)
                         THEN [believed EXCEPT ![s] = row] ELSE believed
    /\ UNCHANGED <<handle, dbs, exists, stmt, external, begun, toldPending, told, forgot>>

Reset(s) ==
    /\ s \in exists /\ stmt[s] # 0
    /\ compiled' = [compiled EXCEPT ![stmt[s]].at = "start", ![stmt[s]].left = 0]
    /\ UNCHANGED <<handle, dbs, exists, stmt, external, promises, forgot>>

ClearBindings(s) ==
    /\ s \in exists /\ stmt[s] # 0
    /\ compiled' = [compiled EXCEPT ![stmt[s]].bound = Unbound]
    /\ believed' = [believed EXCEPT ![s] = Unbound]
    /\ UNCHANGED <<handle, dbs, exists, stmt, external, begun, toldPending, told, forgot>>

\* What sqlite3_step() may answer for the compiled statement at a.
StepAnswers(a) ==
    LET c == compiled[a]
        rows == IF c.at = "row" THEN c.left
                ELSE Len(table) + (IF writer = c.db THEN Len(pending) ELSE 0)
    IN
    {"error"} \cup
    IF c.sql = "select" THEN {IF rows > 0 THEN "row" ELSE "done"}
    ELSE IF writer \notin {0, c.db} THEN {}
    ELSE IF c.db \notin inTransaction /\ Blocked(c.db) THEN {}
    ELSE {"done"}

\* What a step with that answer does to the statement itself.
Stepped(a, answer) ==
    [compiled EXCEPT
        ![a].at = IF answer = "row" THEN "row" ELSE "end",
        ![a].left = IF answer # "row" THEN 0
                    ELSE IF @ > 0 THEN @ - 1
                    ELSE Len(table) - 1
                         + (IF writer = compiled[a].db THEN Len(pending) ELSE 0)]

\* An insert of the bound row, in a transaction or by itself.
Inserted(a) ==
    LET c == compiled[a] IN
    IF c.db \in inTransaction
    THEN /\ writer' = c.db
         /\ pending' = Append(pending, c.bound)
         /\ table' = table
    ELSE /\ table' = Append(table, c.bound)
         /\ UNCHANGED <<writer, pending>>

\* execute_non_query() is true when the statement is done.
StepTrue(answer) == answer = "done"

\* What the program makes of an insert of this row that was true: the row waits
\* for the commit, or is stored.
Told(h, row) ==
    IF h \in begun
    THEN /\ toldPending' = [toldPending EXCEPT ![h] = Append(@, row)]
         /\ told' = IF h \in inTransaction THEN told ELSE Append(told, NoRow)
    ELSE told' = Append(told, row) /\ UNCHANGED toldPending

\* execute_non_query().  An insert that is done is told as such.
ExecuteNonQuery(s) ==
    LET a == stmt[s] IN
    /\ s \in exists /\ a # 0
    /\ compiled[a].sql = "insert" =>
          /\ Len(table) + Len(pending) < MaxRows
          /\ Len(table) + Len(toldPending[compiled[a].db]) < MaxRows
    /\ \E answer \in StepAnswers(a) :
          /\ compiled' = Stepped(a, answer)
          /\ \/ answer = "error" /\ MayRollBack(compiled[a].db)
             \/ /\ answer = "done" /\ compiled[a].sql = "insert"
                /\ Inserted(a)
                /\ UNCHANGED <<inTransaction, rolledBack>>
             \/ /\ answer # "error" /\ compiled[a].sql = "select"
                /\ UNCHANGED external
          /\ IF compiled[a].sql = "insert" /\ StepTrue(answer)
             THEN Told(compiled[a].db, believed[s])
             ELSE UNCHANGED <<toldPending, told>>
    /\ UNCHANGED <<handle, dbs, exists, stmt, believed, begun, forgot>>

\* next() of a result set of s, which comes from a query; what it makes of a
\* row is the program's.
NextRow(s) ==
    LET a == stmt[s] IN
    /\ s \in exists /\ a # 0
    /\ compiled[a].sql = "select"
    /\ \E answer \in StepAnswers(a) :
          /\ compiled' = Stepped(a, answer)
          /\ IF answer = "error" THEN MayRollBack(compiled[a].db) ELSE UNCHANGED external
    /\ UNCHANGED <<handle, dbs, exists, stmt, promises, forgot>>

-----------------------------------------------------------------------------
(* transaction, over statement::execute()                                  *)

\* begin(): an error when there is a transaction on the handle already.
Begin ==
    /\ handle \in dbs \ inTransaction
    /\ inTransaction' = inTransaction \cup {handle}
    /\ begun' = begun \cup {handle}
    /\ toldPending' = [toldPending EXCEPT ![handle] = <<>>]
    /\ UNCHANGED <<handle, dbs, exists, stmt, compiled, writer, pending, table,
                   rolledBack, believed, told, forgot>>

\* Mutant: an error of COMMIT is told as success.
CommitTold(ok, rows) == rows

\* commit() returns true, and the rows count as stored, when SQLite says so.
CommitResult(ok, rows) == IF ok THEN rows ELSE <<>>

\* commit(): on an error, e.g. because of another handle's reader, the
\* transaction stays open, or has been rolled back; without one it is an error.
Commit ==
    LET rows == IF writer = handle THEN pending ELSE <<>> IN
    /\ handle \in dbs
    /\ \E ok \in BOOLEAN :
          /\ ok => handle \in inTransaction /\ (writer = handle => ~Blocked(handle))
          /\ told' = told \o CommitResult(ok, toldPending[handle])
          /\ IF ok THEN /\ EndTransaction(handle, table \o rows) /\ KnownEnd(handle)
                        /\ UNCHANGED rolledBack
                   ELSE MayRollBack(handle) /\ UNCHANGED <<begun, toldPending>>
    /\ UNCHANGED <<handle, dbs, exists, stmt, compiled, believed, forgot>>

\* rollback(): an error when there is no transaction.
Rollback ==
    /\ handle \in inTransaction
    /\ EndTransaction(handle, table) /\ KnownEnd(handle)
    /\ UNCHANGED <<handle, dbs, exists, stmt, compiled, rolledBack, believed, told, forgot>>

-----------------------------------------------------------------------------
Next ==
    \/ Open \/ Close \/ Begin \/ Commit \/ Rollback
    \/ \E s \in Stmts :
          \/ Create(s) \/ Destroy(s) \/ CloseStmt(s)
          \/ \E q \in {"insert", "select"} : Prepare(s, q)
          \/ \E row \in [Columns -> Values] : Bind(s, row)
          \/ Reset(s) \/ ClearBindings(s)
          \/ ExecuteNonQuery(s) \/ NextRow(s)

Spec == Init /\ [][Next]_vars

-----------------------------------------------------------------------------
(* What a program relies on.                                               *)

\* Each statement object has a compiled statement of its own or none, however
\* prepare, its errors and close follow each other: nothing is finalized
\* twice or stepped after it was finalized.
FinalizedOnce ==
    /\ \A s \in exists : stmt[s] # 0 => stmt[s] \in DOMAIN compiled
    /\ \A s, r \in exists : stmt[s] = stmt[r] /\ stmt[s] # 0 => s = r

\* Handles, statements and transactions fit each other.
Sound == TypeOK /\ FinalizedOnce

\* Each row the program was told is stored is in the table, at its place and
\* with the values bind() said are bound; and nothing else is, until SQLite has
\* rolled a transaction back by itself.  The program does not learn of that: what
\* it inserts from then on is stored at once, though it takes it to wait for its
\* commit, which fails (NoRow).  (With ColumnFailures it is false: see BindResult.)
TableAsTold ==
    /\ Len(table) = Len(told)
    /\ \A i \in DOMAIN told : told[i] # NoRow => told[i] = table[i]
    /\ ~rolledBack => table = told

\* While statements are closed before their objects and their connection go,
\* the connection's handle is the only one open in SQLite: none is lost with
\* its transaction and its lock.
NoHandleLost == ~forgot => dbs \subseteq {handle}


=============================================================================
