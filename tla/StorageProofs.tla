---------------------------- MODULE StorageProofs ----------------------------
(***************************************************************************)
(* What the program keeps on the disk.  The SQLite wrapper keeps its       *)
(* statements apart, tells the truth about the rows it stored, and loses   *)
(* no handle unless the program forgets a statement.  The log files keep   *)
(* the records in order, and none is lost but by a crash, a failing write  *)
(* or its age.                                                             *)
(***************************************************************************)
EXTENDS Sqlite, FileOutput, SequenceFacts

-----------------------------------------------------------------------------
(* SQLite: the inductive invariant.                                        *)


\* What is out of scope has no statement, so that an object created again
\* starts without one.
Scoped == \A s \in Stmts \ exists : stmt[s] = 0

\* The rows stay within the bound of the model.
Within == Len(table) + Len(pending) =< MaxRows

\* Unless the program forgot one, each compiled statement is some object's.
Owned ==
    ~forgot => \A a \in DOMAIN compiled : \E s \in exists : stmt[s] = a

\* What is bound is what the program was told.
Agreed ==
    ~ColumnFailures =>
        \A s \in exists : stmt[s] # 0 => compiled[stmt[s]].bound = believed[s]

\* The rows of SQLite and of what the program was told.
RowTypes ==
    /\ dbs \subseteq Handles /\ inTransaction \subseteq dbs /\ writer \in dbs \cup {0}
    /\ {pending, table} \subseteq Seq(Rows) /\ told \in Seq(Rows \cup {NoRow})
    /\ begun \subseteq dbs /\ toldPending \in [Handles -> Seq(Rows)]
    /\ rolledBack \in BOOLEAN

\* What is pending is the writer's, and the program knows of its transaction; it
\* knows of others just when SQLite has rolled one back.
Held ==
    /\ writer \in inTransaction \cup {0} /\ (writer = 0 => pending = <<>>)
    /\ inTransaction \subseteq begun /\ (~rolledBack => begun \subseteq inTransaction)

\* What is pending is what the program was told, while there is a transaction.
PendingTold ==
    \A h \in inTransaction : toldPending[h] = IF writer = h THEN pending ELSE <<>>

\* The rows and the transactions.
RowsInv ==
    /\ RowTypes /\ Within /\ Held
    /\ ~ColumnFailures => TableAsTold /\ PendingTold

IInv == TypeOK /\ FinalizedOnce /\ Scoped /\ Owned /\ NoHandleLost /\ RowsInv /\ Agreed

-----------------------------------------------------------------------------
(* The next step, action by action.                                        *)

LEMMA InitIInv == Init => IInv
<1> SUFFICES ASSUME Init PROVE IInv
  OBVIOUS
<1> USE DEF Init
<1>1. Unbound \in Rows
  BY DEF Unbound, Rows
<1>2. DOMAIN compiled = {}
  OBVIOUS
<1>3. TypeOK
  <2>1. <<>> \in Seq(Rows)
    OBVIOUS
  <2>2. {pending, table} \subseteq Seq(Rows) /\ told \in Seq(Rows \cup {NoRow})
        /\ toldPending \in [Handles -> Seq(Rows)]
    BY <2>1
  <2>3. \A a \in DOMAIN compiled : compiled[a] \in Compiled
    BY <1>2
  <2>4. stmt \in [Stmts -> Addresses \cup {0}]
    OBVIOUS
  <2>5. believed \in [Stmts -> Rows]
    BY <1>1
  <2> QED BY <1>2, <2>2, <2>3, <2>4, <2>5 DEF TypeOK
<1>4. Within
  <2>1. Len(table) = 0 /\ Len(pending) = 0
    OBVIOUS
  <2> QED BY <2>1, BoundsAssumption DEF Within
<1>5. FinalizedOnce /\ Scoped /\ Owned /\ NoHandleLost /\ Agreed
  BY <1>2 DEF FinalizedOnce, Scoped, Owned, NoHandleLost, Agreed
<1>6. RowsInv
  BY <1>3, <1>4 DEF TypeOK, RowsInv, RowTypes, Held, TableAsTold, PendingTold
<1> QED BY <1>3, <1>5, <1>6 DEF IInv

\* What each lemma about the rows begins with.
LEMMA TypesOfRows == IInv => RowTypes /\ Held /\ Within
  BY DEF IInv, RowsInv

\* The end of a transaction keeps what the others hold.
LEMMA EndTransactionKeeps ==
    ASSUME RowTypes, Held, NEW h \in Handles, NEW t \in Seq(Rows), EndTransaction(h, t)
    PROVE  /\ inTransaction' = inTransaction \ {h} /\ table' = t
           /\ writer' \in inTransaction' \cup {0} /\ (writer' = 0 => pending' = <<>>)
           /\ writer' \in {0, writer}
           /\ pending' \in Seq(Rows) /\ Len(pending') =< Len(pending)
           /\ writer = h => pending' = <<>>
           /\ writer # h => pending' = pending
           /\ \A g \in inTransaction' :
                 (IF writer' = g THEN pending' ELSE <<>>) = (IF writer = g THEN pending ELSE <<>>)
<1>1. h # 0
  BY AddressAssumption
<1>2. CASE writer = h
  <2>1. writer' = 0 /\ pending' = <<>> /\ <<>> \in Seq(Rows) /\ Len(<<>>) = 0
    BY <1>2 DEF EndTransaction
  <2>2. Len(pending) \in Nat
    BY DEF RowTypes
  <2>3. 0 \notin inTransaction'
    BY AddressAssumption DEF EndTransaction, RowTypes, Held
  <2> QED BY <1>2, <2>1, <2>2, <2>3 DEF EndTransaction
<1>3. CASE writer # h
  <2>1. writer' = writer /\ pending' = pending /\ pending \in Seq(Rows) /\ Len(pending) \in Nat
    BY <1>3 DEF EndTransaction, RowTypes
  <2> QED BY <1>3, <2>1 DEF EndTransaction, Held
<1> QED BY <1>2, <1>3

\* The program knows of this end.
LEMMA KnownEndKeeps ==
    ASSUME RowTypes, Held, NEW h \in Handles, NEW t \in Seq(Rows), EndTransaction(h, t),
           KnownEnd(h), rolledBack' = rolledBack
    PROVE  /\ begun' = begun \ {h} /\ toldPending' \in [Handles -> Seq(Rows)]
           /\ Held' /\ (PendingTold => PendingTold')
<1>1. /\ begun' = begun \ {h} /\ toldPending' \in [Handles -> Seq(Rows)]
      /\ \A g \in Handles \ {h} : toldPending'[g] = toldPending[g]
  BY DEF KnownEnd, RowTypes
<1>2. Held'
  BY <1>1, EndTransactionKeeps DEF Held
<1>3. ASSUME PendingTold PROVE PendingTold'
  <2> SUFFICES ASSUME NEW g \in inTransaction'
               PROVE  toldPending'[g] = IF writer' = g THEN pending' ELSE <<>>
    BY DEF PendingTold
  <2>1. g \in inTransaction /\ g # h /\ g \in Handles
    BY EndTransactionKeeps DEF RowTypes
  <2> QED BY <1>1, <1>3, <2>1, EndTransactionKeeps DEF PendingTold
<1> QED BY <1>1, <1>2, <1>3

\* An error: SQLite may roll the transaction back, and the program does not learn
\* of it.
LEMMA MayRollBackKeeps ==
    ASSUME RowTypes, Held, NEW h \in Handles, MayRollBack(h),
           UNCHANGED <<dbs, begun, toldPending>>
    PROVE  /\ inTransaction' \subseteq dbs' /\ writer' \in dbs' \cup {0}
           /\ pending' \in Seq(Rows) /\ Len(pending') =< Len(pending)
           /\ table' = table /\ rolledBack' \in BOOLEAN
           /\ Held' /\ (PendingTold => PendingTold') /\ (~rolledBack' => ~rolledBack)
<1>1. CASE UNCHANGED external
  <2>1. Len(pending) \in Nat
    BY DEF RowTypes
  <2> QED BY <1>1, <2>1 DEF external, RowTypes, Held, PendingTold
<1>2. CASE h \in inTransaction /\ EndTransaction(h, table) /\ rolledBack' = TRUE
  <2>1. table \in Seq(Rows)
    BY DEF RowTypes
  <2>2. Held'
    BY <1>2, <2>1, EndTransactionKeeps DEF Held
  <2>3. PendingTold => PendingTold'
    BY <1>2, <2>1, EndTransactionKeeps DEF PendingTold
  <2>4. /\ inTransaction' \subseteq dbs' /\ writer' \in dbs' \cup {0}
        /\ pending' \in Seq(Rows) /\ Len(pending') =< Len(pending) /\ table' = table
    BY <1>2, <2>1, EndTransactionKeeps DEF RowTypes
  <2> QED BY <1>2, <2>2, <2>3, <2>4
<1> QED BY <1>1, <1>2 DEF MayRollBack

\* What becomes shorter stays within the bound.
LEMMA ShorterWithin ==
    ASSUME RowTypes, Within, pending' \in Seq(Rows), table' = table,
           Len(pending') =< Len(pending)
    PROVE  Within'
<1>1. Len(table) \in Nat /\ Len(pending) \in Nat /\ Len(pending') \in Nat
  BY DEF RowTypes
<1>2. Len(table) + Len(pending) =< MaxRows /\ MaxRows \in Nat
  BY BoundsAssumption DEF Within
<1>3. Len(table') + Len(pending') =< MaxRows
  BY <1>1, <1>2
<1> QED BY <1>3 DEF Within

\* An error keeps the rows.
LEMMA ErrorKeeps ==
    ASSUME IInv, NEW h \in Handles, MayRollBack(h), UNCHANGED <<dbs, begun, toldPending, told>>
    PROVE  RowsInv'
<1>1. RowTypes /\ Held /\ Within
  BY TypesOfRows
<1>2. /\ inTransaction' \subseteq dbs' /\ writer' \in dbs' \cup {0}
      /\ pending' \in Seq(Rows) /\ Len(pending') =< Len(pending)
      /\ table' = table /\ rolledBack' \in BOOLEAN
      /\ Held' /\ (PendingTold => PendingTold') /\ (~rolledBack' => ~rolledBack)
  BY <1>1, MayRollBackKeeps
<1>3. RowTypes'
  BY <1>1, <1>2 DEF RowTypes
<1>4. Within'
  BY <1>1, <1>2, ShorterWithin
<1>5. TableAsTold => TableAsTold'
  BY <1>2 DEF TableAsTold
<1> QED BY <1>2, <1>3, <1>4, <1>5 DEF IInv, RowsInv

\* Closing a handle: an open transaction is rolled back, the table stays.
LEMMA SqliteCloseKeeps ==
    ASSUME IInv, SqliteClose(handle), UNCHANGED told,
           dbs' = IF Closes(handle) THEN dbs \ {handle} ELSE dbs
    PROVE  RowsInv'
<1>1. RowTypes /\ Held /\ Within /\ table \in Seq(Rows)
  BY TypesOfRows DEF RowTypes
<1>2. ~ColumnFailures => TableAsTold /\ PendingTold
  BY DEF IInv, RowsInv
<1>3. CASE Closes(handle)
  <2>1. /\ handle \in Handles /\ EndTransaction(handle, table) /\ KnownEnd(handle)
        /\ rolledBack' = rolledBack /\ dbs' = dbs \ {handle}
    BY <1>3 DEF SqliteClose, Closes, IInv, TypeOK
  <2>2. Held' /\ (PendingTold => PendingTold')
    BY <1>1, <2>1, KnownEndKeeps
  <2>3. /\ inTransaction' = inTransaction \ {handle} /\ writer' \in inTransaction' \cup {0}
        /\ pending' \in Seq(Rows) /\ Len(pending') =< Len(pending) /\ table' = table
    BY <1>1, <2>1, EndTransactionKeeps
  <2>4. begun' = begun \ {handle} /\ toldPending' \in [Handles -> Seq(Rows)]
    BY <1>1, <2>1, KnownEndKeeps
  <2>5. RowTypes'
    BY <1>1, <2>1, <2>3, <2>4 DEF RowTypes
  <2>6. Within'
    BY <1>1, <2>3, ShorterWithin
  <2>7. TableAsTold => TableAsTold'
    BY <2>1, <2>3 DEF TableAsTold
  <2> QED BY <1>2, <2>2, <2>5, <2>6, <2>7 DEF RowsInv
<1>4. CASE ~Closes(handle)
  <2>1. UNCHANGED <<external, begun, toldPending, told, dbs>>
    BY <1>4 DEF SqliteClose
  <2> QED BY <1>1, <1>2, <2>1 DEF RowsInv, RowTypes, Held, Within, TableAsTold, PendingTold,
                                  external
<1> QED BY <1>3, <1>4

LEMMA OpenKeeps == ASSUME IInv, Open PROVE IInv'
<1>1. PICK h \in Handles \ dbs :
        /\ SqliteClose(handle)
        /\ handle' = h
        /\ dbs' = (IF Closes(handle) THEN dbs \ {handle} ELSE dbs) \cup {h}
        /\ forgot' = (forgot \/ LeftOpen)
        /\ UNCHANGED <<exists, stmt, compiled, believed, told>>
  BY DEF Open
<1>2. RowsInv'
  <2>1. RowTypes /\ Held /\ Within /\ table \in Seq(Rows)
    BY TypesOfRows DEF RowTypes
  <2>2. ~ColumnFailures => TableAsTold /\ PendingTold
    BY DEF IInv, RowsInv
  <2>3. CASE Closes(handle)
    <3>1. /\ handle \in Handles /\ EndTransaction(handle, table) /\ KnownEnd(handle)
          /\ rolledBack' = rolledBack /\ dbs' = (dbs \ {handle}) \cup {h} /\ told' = told
      BY <1>1, <2>3 DEF SqliteClose, Closes, IInv, TypeOK
    <3>2. Held' /\ (PendingTold => PendingTold')
      BY <2>1, <3>1, KnownEndKeeps
    <3>3. /\ inTransaction' = inTransaction \ {handle} /\ writer' \in inTransaction' \cup {0}
          /\ pending' \in Seq(Rows) /\ Len(pending') =< Len(pending) /\ table' = table
      BY <2>1, <3>1, EndTransactionKeeps
    <3>4. begun' = begun \ {handle} /\ toldPending' \in [Handles -> Seq(Rows)]
      BY <2>1, <3>1, KnownEndKeeps
    <3>5. RowTypes'
      BY <2>1, <3>1, <3>3, <3>4 DEF RowTypes
    <3>6. Within'
      BY <2>1, <3>3, ShorterWithin
    <3>7. TableAsTold => TableAsTold'
      BY <3>1, <3>3 DEF TableAsTold
    <3> QED BY <2>2, <3>2, <3>5, <3>6, <3>7 DEF RowsInv
  <2>4. CASE ~Closes(handle)
    <3>1. UNCHANGED <<external, begun, toldPending, told>> /\ dbs' = dbs \cup {h}
      BY <1>1, <2>4 DEF SqliteClose
    <3> QED BY <2>1, <2>2, <3>1 DEF RowsInv, RowTypes, Held, Within, TableAsTold, PendingTold,
                                    external
  <2> QED BY <2>3, <2>4
<1>3. TypeOK'
  BY <1>1, <1>2 DEF IInv, TypeOK, RowsInv, RowTypes
<1>4. FinalizedOnce' /\ Scoped' /\ Agreed'
  BY <1>1 DEF IInv, FinalizedOnce, Scoped, Agreed
<1>5. Owned'
  BY <1>1 DEF IInv, Owned
<1>6. NoHandleLost'
  <2> SUFFICES ASSUME ~forgot' PROVE dbs' \subseteq {handle'}
    BY DEF NoHandleLost
  <2>1. ~forgot /\ ~LeftOpen
    BY <1>1
  <2>2. dbs \subseteq {handle} /\ dbs \subseteq Handles /\ 0 \notin Handles
    BY <2>1, AddressAssumption DEF IInv, NoHandleLost, TypeOK
  <2>3. handle # 0 => Closes(handle)
    BY <2>1 DEF IInv, Owned, LeftOpen, OpenOn, Closes
  <2> QED BY <1>1, <2>2, <2>3
<1> QED BY <1>2, <1>3, <1>4, <1>5, <1>6 DEF IInv

LEMMA CloseKeeps == ASSUME IInv, Close PROVE IInv'
<1> USE DEF Close
<1>2. RowsInv'
  BY SqliteCloseKeeps
<1>3. TypeOK'
  BY <1>2 DEF IInv, TypeOK, RowsInv, RowTypes
<1>4. FinalizedOnce' /\ Scoped' /\ Agreed'
  BY DEF IInv, FinalizedOnce, Scoped, Agreed
<1>5. Owned'
  BY DEF IInv, Owned
<1>6. NoHandleLost'
  <2> SUFFICES ASSUME ~forgot' PROVE dbs' \subseteq {handle'}
    BY DEF NoHandleLost
  <2>1. ~forgot /\ ~LeftOpen
    OBVIOUS
  <2>2. Closes(handle)
    BY <2>1 DEF IInv, Owned, LeftOpen, OpenOn, Closes
  <2> QED BY <2>1, <2>2 DEF IInv, NoHandleLost
<1> QED BY <1>2, <1>3, <1>4, <1>5, <1>6 DEF IInv

-----------------------------------------------------------------------------
(* The statements.  What a step leaves alone and what the compiled         *)
(* statements become is enough for each of them.                           *)

\* A step that changes neither the rows nor the connection.
LEMMA RowsKept ==
    ASSUME IInv, UNCHANGED external, UNCHANGED <<handle, dbs, begun, toldPending, told>>,
           forgot => forgot'
    PROVE  /\ RowsInv' /\ NoHandleLost'
           /\ inTransaction' \subseteq dbs' /\ writer' \in dbs' \cup {0}
           /\ handle' \in Handles \cup {0} /\ dbs' \subseteq Handles
           /\ {pending', table'} \subseteq Seq(Rows) /\ told' \in Seq(Rows \cup {NoRow})
           /\ begun' \subseteq dbs' /\ toldPending' \in [Handles -> Seq(Rows)]
           /\ rolledBack' \in BOOLEAN
<1>1. RowsInv'
  BY DEF IInv, RowsInv, RowTypes, Held, Within, TableAsTold, PendingTold, external
<1>2. NoHandleLost' /\ handle' \in Handles \cup {0}
  BY DEF IInv, TypeOK, NoHandleLost
<1> QED BY <1>1, <1>2 DEF RowsInv, RowTypes

LEMMA CreateKeeps == ASSUME IInv, NEW s \in Stmts, Create(s) PROVE IInv'
<1> USE DEF Create, promises
<1>1. stmt[s] = 0
  BY DEF IInv, Scoped
<1>2. TypeOK'
  BY RowsKept DEF IInv, TypeOK
<1>3. FinalizedOnce' /\ Scoped' /\ Owned'
  BY <1>1 DEF IInv, FinalizedOnce, Scoped, Owned
<1>4. Agreed'
  BY <1>1, RowsKept DEF IInv, Agreed
<1> QED BY <1>2, <1>3, <1>4, RowsKept DEF IInv

LEMMA DestroyKeeps == ASSUME IInv, NEW s \in Stmts, Destroy(s) PROVE IInv'
<1> USE DEF Destroy
<1>1. Unbound \in Rows
  BY DEF Unbound, Rows
<1>2. /\ stmt' \in [Stmts -> Addresses \cup {0}]
      /\ stmt'[s] = 0 /\ \A r \in Stmts \ {s} : stmt'[r] = stmt[r]
      /\ believed' \in [Stmts -> Rows]
      /\ \A r \in Stmts \ {s} : believed'[r] = believed[r]
      /\ exists \subseteq Stmts
  BY <1>1 DEF IInv, TypeOK
<1>3. TypeOK'
  BY <1>2, RowsKept DEF IInv, TypeOK
<1>4. FinalizedOnce'
  BY <1>2 DEF IInv, FinalizedOnce
<1>5. Scoped'
  BY <1>2 DEF IInv, Scoped
<1>6. Owned'
  <2> SUFFICES ASSUME ~forgot', NEW a \in DOMAIN compiled
               PROVE  \E r \in exists' : stmt'[r] = a
    BY DEF Owned
  <2>1. ~forgot /\ stmt[s] = 0
    OBVIOUS
  <2>2. PICK r \in exists : stmt[r] = a
    BY <2>1 DEF IInv, Owned
  <2>3. a # 0
    BY AddressAssumption DEF IInv, TypeOK
  <2> QED BY <1>2, <2>1, <2>2, <2>3
<1>7. Agreed'
  BY <1>2, RowsKept DEF IInv, Agreed
<1> QED BY <1>3, <1>4, <1>5, <1>6, <1>7, RowsKept DEF IInv

LEMMA CloseStmtKeeps == ASSUME IInv, NEW s \in Stmts, CloseStmt(s) PROVE IInv'
<1> USE DEF CloseStmt, promises
<1>1. /\ stmt' \in [Stmts -> Addresses \cup {0}]
      /\ stmt'[s] = 0 /\ \A r \in Stmts \ {s} : stmt'[r] = stmt[r]
      /\ exists \subseteq Stmts
  BY DEF IInv, TypeOK
<1>2. /\ DOMAIN compiled' = DOMAIN compiled \ {stmt[s]}
      /\ \A a \in DOMAIN compiled' : compiled'[a] = compiled[a]
  BY DEF Restrict
<1>3. TypeOK'
  BY <1>1, <1>2, RowsKept DEF IInv, TypeOK
<1>4. FinalizedOnce'
  BY <1>1, <1>2 DEF IInv, FinalizedOnce
<1>5. Scoped'
  BY <1>1 DEF IInv, Scoped
<1>6. Owned'
  BY <1>1, <1>2 DEF IInv, Owned
<1>7. Agreed'
  <2>1. \A r \in exists \ {s} : stmt[r] # 0 => stmt[r] \in DOMAIN compiled'
    BY <1>2 DEF IInv, FinalizedOnce
  <2> QED BY <1>1, <1>2, <2>1, RowsKept DEF IInv, Agreed
<1> QED BY <1>3, <1>4, <1>5, <1>6, <1>7, RowsKept DEF IInv

LEMMA PrepareKeeps ==
    ASSUME IInv, NEW s \in Stmts, NEW q \in {"insert", "select"}, Prepare(s, q)
    PROVE  IInv'
<1> DEFINE kept == Restrict(compiled, DOMAIN compiled \ {stmt[s]})
           fresh == [db |-> handle, sql |-> q, at |-> "start",
                     left |-> 0, bound |-> Unbound]
<1>1. /\ s \in exists /\ exists' = exists /\ exists \subseteq Stmts
      /\ UNCHANGED <<handle, dbs, external, begun, toldPending, told, forgot>>
      /\ believed' = [believed EXCEPT ![s] = Unbound]
  BY DEF Prepare, IInv, TypeOK
<1>2. Unbound \in Rows
  BY DEF Unbound, Rows
<1>3. /\ believed' \in [Stmts -> Rows] /\ believed'[s] = Unbound
      /\ \A r \in Stmts \ {s} : believed'[r] = believed[r]
  BY <1>1, <1>2 DEF IInv, TypeOK
<1>4. /\ DOMAIN kept = DOMAIN compiled \ {stmt[s]}
      /\ \A a \in DOMAIN kept : kept[a] = compiled[a]
  BY DEF Restrict
<1>5. /\ stmt \in [Stmts -> Addresses \cup {0}]
      /\ DOMAIN compiled \subseteq Addresses /\ 0 \notin Addresses
      /\ \A a \in DOMAIN compiled : compiled[a] \in Compiled
  BY AddressAssumption DEF IInv, TypeOK
<1>6. \A r \in exists \ {s} : stmt[r] # 0 => stmt[r] \in DOMAIN kept
  BY <1>1, <1>4 DEF IInv, FinalizedOnce
<1>7. CASE stmt' = [stmt EXCEPT ![s] = 0] /\ compiled' = kept
  <2> HIDE DEF kept
  <2>1. /\ stmt' \in [Stmts -> Addresses \cup {0}] /\ stmt'[s] = 0
        /\ \A r \in Stmts \ {s} : stmt'[r] = stmt[r]
    BY <1>5, <1>7
  <2>2. TypeOK'
    BY <1>1, <1>3, <1>4, <1>5, <1>7, <2>1, RowsKept DEF IInv, TypeOK
  <2>3. FinalizedOnce'
    BY <1>1, <1>6, <1>7, <2>1 DEF IInv, FinalizedOnce
  <2>4. Scoped'
    BY <1>1, <2>1 DEF IInv, Scoped
  <2>5. Owned'
    BY <1>1, <1>4, <1>7, <2>1 DEF IInv, Owned
  <2>6. Agreed'
    BY <1>1, <1>3, <1>4, <1>6, <1>7, <2>1, RowsKept DEF IInv, Agreed
  <2> QED BY <1>1, <2>2, <2>3, <2>4, <2>5, <2>6, RowsKept DEF IInv
<1>8. CASE /\ handle # 0
           /\ \E a \in Addresses \ DOMAIN kept :
                 /\ stmt' = [stmt EXCEPT ![s] = a]
                 /\ compiled' = [x \in DOMAIN kept \cup {a} |->
                       IF x = a THEN fresh ELSE kept[x]]
  <2> HIDE DEF kept
  <2>1. PICK a \in Addresses \ DOMAIN kept :
          /\ stmt' = [stmt EXCEPT ![s] = a]
          /\ compiled' = [x \in DOMAIN kept \cup {a} |->
                IF x = a THEN fresh ELSE kept[x]]
    BY <1>8
  <2>2. /\ stmt' \in [Stmts -> Addresses \cup {0}] /\ stmt'[s] = a
        /\ \A r \in Stmts \ {s} : stmt'[r] = stmt[r]
    BY <1>5, <2>1
  <2>3. fresh \in Compiled /\ fresh.bound = Unbound
    <3>1. handle \in Handles /\ 0 \in 0 .. MaxRows
      BY <1>8, BoundsAssumption DEF IInv, TypeOK
    <3> QED BY <1>2, <3>1 DEF Compiled
  <2>4. /\ DOMAIN compiled' = DOMAIN kept \cup {a} /\ compiled'[a] = fresh
        /\ \A x \in DOMAIN kept : compiled'[x] = compiled[x]
    BY <1>4, <2>1
  <2> HIDE DEF fresh
  <2>5. TypeOK'
    <3>1. DOMAIN compiled' \subseteq Addresses
      BY <1>4, <1>5, <2>4
    <3>2. \A x \in DOMAIN compiled' : compiled'[x] \in Compiled
      BY <1>4, <1>5, <2>3, <2>4
    <3> QED BY <1>1, <1>3, <2>2, <3>1, <3>2, RowsKept DEF IInv, TypeOK
  <2>6. FinalizedOnce'
    BY <1>1, <1>6, <2>2, <2>4 DEF IInv, FinalizedOnce
  <2>7. Scoped'
    BY <1>1, <2>2 DEF IInv, Scoped
  <2>8. Owned'
    BY <1>1, <1>4, <2>2, <2>4 DEF IInv, Owned
  <2>9. Agreed'
    <3> SUFFICES ASSUME ~ColumnFailures, NEW r \in exists, stmt'[r] # 0
                 PROVE  compiled'[stmt'[r]].bound = believed'[r]
      BY <1>1 DEF Agreed
    <3>1. CASE r = s
      BY <1>3, <2>2, <2>3, <2>4, <3>1
    <3>2. CASE r # s
      <4>1. stmt'[r] = stmt[r] /\ believed'[r] = believed[r] /\ stmt[r] \in DOMAIN kept
        BY <1>1, <1>3, <1>6, <2>2, <3>2
      <4>2. compiled'[stmt[r]] = compiled[stmt[r]]
        BY <2>4, <4>1
      <4> QED BY <2>2, <3>2, <4>1, <4>2 DEF IInv, Agreed
    <3> QED BY <3>1, <3>2
  <2> QED BY <1>1, <2>5, <2>6, <2>7, <2>8, <2>9, RowsKept DEF IInv
<1> QED BY <1>7, <1>8 DEF Prepare

\* A step that changes what is compiled at one address only in place.
LEMMA InPlace ==
    ASSUME IInv, NEW s \in exists, stmt[s] # 0, UNCHANGED <<exists, stmt, forgot>>,
           DOMAIN compiled' = DOMAIN compiled,
           \A a \in DOMAIN compiled \ {stmt[s]} : compiled'[a] = compiled[a],
           stmt[s] \in DOMAIN compiled => compiled'[stmt[s]] \in Compiled
    PROVE  /\ FinalizedOnce' /\ Scoped' /\ Owned'
           /\ DOMAIN compiled' \subseteq Addresses
           /\ \A a \in DOMAIN compiled' : compiled'[a] \in Compiled
           /\ \A r \in exists \ {s} :
                 stmt[r] # 0 => compiled'[stmt[r]] = compiled[stmt[r]]
<1>1. FinalizedOnce' /\ Scoped' /\ Owned'
  BY DEF IInv, FinalizedOnce, Scoped, Owned
<1>2. DOMAIN compiled' \subseteq Addresses
  BY DEF IInv, TypeOK
<1>3. \A a \in DOMAIN compiled' : compiled'[a] \in Compiled
  BY DEF IInv, TypeOK
<1>4. \A r \in exists \ {s} :
        stmt[r] # 0 => compiled'[stmt[r]] = compiled[stmt[r]]
  BY DEF IInv, FinalizedOnce
<1> QED BY <1>1, <1>2, <1>3, <1>4

LEMMA BindKeeps ==
    ASSUME IInv, NEW s \in Stmts, NEW row \in [Columns -> Values], Bind(s, row)
    PROVE  IInv'
<1> DEFINE a == stmt[s]
           to(failed) == [c \in Columns |->
                            IF c \in failed THEN compiled[a].bound[c] ELSE row[c]]
<1>1. PICK failed \in SUBSET Columns :
        /\ IF compiled[a].at # "start" THEN failed = Columns
           ELSE ColumnFailures \/ failed = {}
        /\ compiled' = [compiled EXCEPT ![a].bound = to(failed)]
        /\ believed' = IF BindResult(failed)
                       THEN [believed EXCEPT ![s] = row] ELSE believed
  BY DEF Bind
<1>2. /\ s \in exists /\ a # 0 /\ exists \subseteq Stmts
      /\ UNCHANGED <<handle, dbs, exists, stmt, external, begun, toldPending, told, forgot>>
  BY DEF Bind, IInv, TypeOK
<1>3. a \in DOMAIN compiled /\ compiled[a] \in Compiled
  BY <1>2 DEF IInv, FinalizedOnce, TypeOK
<1>4. row \in Rows /\ compiled[a].bound \in Rows
  BY <1>3 DEF Rows, Compiled
<1>5. to(failed) \in Rows
  BY <1>1, <1>4 DEF Rows
<1>6. /\ DOMAIN compiled' = DOMAIN compiled
      /\ \A x \in DOMAIN compiled \ {a} : compiled'[x] = compiled[x]
      /\ compiled'[a] = [compiled[a] EXCEPT !.bound = to(failed)]
  BY <1>1, <1>3
<1>7. compiled'[a] \in Compiled /\ compiled'[a].bound = to(failed)
  BY <1>3, <1>5, <1>6 DEF Compiled
<1>8. believed' \in [Stmts -> Rows]
      /\ \A r \in Stmts \ {s} : believed'[r] = believed[r]
  BY <1>1, <1>4 DEF IInv, TypeOK
<1>9. TypeOK'
  BY <1>2, <1>6, <1>7, <1>8, RowsKept, InPlace DEF IInv, TypeOK
<1>10. Agreed'
  <2> SUFFICES ASSUME ~ColumnFailures
               PROVE  \A r \in exists : stmt[r] # 0 =>
                        compiled'[stmt[r]].bound = believed'[r]
    BY <1>2, RowsKept DEF Agreed
  <2>1. \A r \in exists : stmt[r] # 0 => compiled[stmt[r]].bound = believed[r]
    BY DEF IInv, Agreed
  <2>2. \A r \in exists \ {s} : stmt[r] # 0 =>
          compiled'[stmt[r]].bound = believed'[r]
    BY <1>2, <1>6, <1>7, <1>8, <2>1, InPlace
  <2>3. CASE failed = Columns
    <3>1. to(failed) = compiled[a].bound
      BY <1>4, <2>3 DEF Rows
    <3>2. believed'[s] = believed[s]
      BY <1>1, <2>3 DEF BindResult
    <3> QED BY <1>2, <1>7, <2>1, <2>2, <3>1, <3>2
  <2>4. CASE failed = {}
    <3>1. to(failed) = row
      BY <1>4, <2>4 DEF Rows
    <3>2. believed'[s] = row
      BY <1>1, <2>4 DEF BindResult, Columns, IInv, TypeOK
    <3> QED BY <1>2, <1>7, <2>2, <3>1, <3>2
  <2> QED BY <1>1, <2>3, <2>4
<1> QED BY <1>2, <1>6, <1>7, <1>9, <1>10, RowsKept, InPlace DEF IInv

LEMMA ResetKeeps == ASSUME IInv, NEW s \in Stmts, Reset(s) PROVE IInv'
<1> DEFINE a == stmt[s]
<1>1. /\ s \in exists /\ a # 0 /\ exists \subseteq Stmts
      /\ UNCHANGED <<handle, dbs, exists, stmt, external, promises, forgot>>
  BY DEF Reset, IInv, TypeOK
<1>2. a \in DOMAIN compiled /\ compiled[a] \in Compiled
  BY <1>1 DEF IInv, FinalizedOnce, TypeOK
<1>3. /\ DOMAIN compiled' = DOMAIN compiled
      /\ \A x \in DOMAIN compiled \ {a} : compiled'[x] = compiled[x]
      /\ compiled'[a] = [compiled[a] EXCEPT !.at = "start", !.left = 0]
  BY <1>2 DEF Reset
<1>4. 0 \in 0 .. MaxRows
  BY BoundsAssumption
<1>5. compiled'[a] \in Compiled /\ compiled'[a].bound = compiled[a].bound
  BY <1>2, <1>3, <1>4 DEF Compiled
<1>6. TypeOK'
  BY <1>1, <1>3, <1>5, RowsKept, InPlace DEF IInv, TypeOK, promises
<1>7. Agreed'
  <2>1. \A r \in exists \ {s} :
          stmt[r] # 0 => compiled'[stmt[r]] = compiled[stmt[r]]
    BY <1>1, <1>3, <1>5, InPlace
  <2> QED BY <1>1, <1>5, <2>1, RowsKept DEF IInv, Agreed, promises
<1> QED BY <1>1, <1>3, <1>5, <1>6, <1>7, RowsKept, InPlace DEF IInv, promises

LEMMA ClearBindingsKeeps ==
    ASSUME IInv, NEW s \in Stmts, ClearBindings(s) PROVE IInv'
<1> DEFINE a == stmt[s]
<1>1. /\ s \in exists /\ a # 0 /\ exists \subseteq Stmts
      /\ UNCHANGED <<handle, dbs, exists, stmt, external, begun, toldPending, told, forgot>>
      /\ believed' = [believed EXCEPT ![s] = Unbound]
  BY DEF ClearBindings, IInv, TypeOK
<1>2. a \in DOMAIN compiled /\ compiled[a] \in Compiled
  BY <1>1 DEF IInv, FinalizedOnce, TypeOK
<1>3. /\ DOMAIN compiled' = DOMAIN compiled
      /\ \A x \in DOMAIN compiled \ {a} : compiled'[x] = compiled[x]
      /\ compiled'[a] = [compiled[a] EXCEPT !.bound = Unbound]
  BY <1>2 DEF ClearBindings
<1>4. Unbound \in Rows
  BY DEF Unbound, Rows
<1>5. compiled'[a] \in Compiled /\ compiled'[a].bound = Unbound
  BY <1>2, <1>3, <1>4 DEF Compiled
<1>6. /\ believed' \in [Stmts -> Rows] /\ believed'[s] = Unbound
      /\ \A r \in Stmts \ {s} : believed'[r] = believed[r]
  BY <1>1, <1>4 DEF IInv, TypeOK
<1>7. TypeOK'
  BY <1>1, <1>3, <1>5, <1>6, RowsKept, InPlace DEF IInv, TypeOK
<1>8. Agreed'
  <2>1. \A r \in exists \ {s} :
          stmt[r] # 0 => compiled'[stmt[r]] = compiled[stmt[r]]
    BY <1>1, <1>3, <1>5, InPlace
  <2> QED BY <1>1, <1>5, <1>6, <2>1, RowsKept DEF IInv, Agreed
<1> QED BY <1>1, <1>3, <1>5, <1>7, <1>8, RowsKept, InPlace DEF IInv

\* A step of a compiled statement counts its rows and keeps what is bound.
LEMMA SteppedInPlace ==
    ASSUME IInv, NEW a \in DOMAIN compiled, NEW answer \in StepAnswers(a),
           compiled' = Stepped(a, answer)
    PROVE  /\ DOMAIN compiled' = DOMAIN compiled
           /\ \A x \in DOMAIN compiled \ {a} : compiled'[x] = compiled[x]
           /\ compiled'[a] \in Compiled
           /\ compiled'[a].bound = compiled[a].bound
<1> DEFINE c == compiled[a]
           inReach == Len(table) + (IF writer = c.db THEN Len(pending) ELSE 0)
           more == Len(table) - 1 + (IF writer = c.db THEN Len(pending) ELSE 0)
           at == IF answer = "row" THEN "row" ELSE "end"
           left == IF answer # "row" THEN 0
                   ELSE IF c.left > 0 THEN c.left - 1 ELSE more
<1>1. c \in Compiled
  BY DEF IInv, TypeOK
<1>2. /\ DOMAIN compiled' = DOMAIN compiled
      /\ \A x \in DOMAIN compiled \ {a} : compiled'[x] = compiled[x]
      /\ compiled'[a] = [c EXCEPT !.at = at, !.left = left]
  BY DEF Stepped
<1>3. c.left \in 0 .. MaxRows /\ MaxRows \in Nat
  BY <1>1, BoundsAssumption DEF Compiled
<1>4. Len(table) \in Nat /\ Len(pending) \in Nat
      /\ Len(table) + Len(pending) =< MaxRows
  BY DEF IInv, TypeOK, RowsInv, Within
<1>5. answer = "row" => IF c.at = "row" THEN c.left > 0 ELSE inReach > 0
  BY DEF StepAnswers
<1>6. left \in 0 .. MaxRows
  BY <1>3, <1>4, <1>5
<1>7. at \in {"start", "row", "end"}
  OBVIOUS
<1> HIDE DEF left, at
<1>8. compiled'[a] \in Compiled /\ compiled'[a].bound = c.bound
  BY <1>1, <1>2, <1>6, <1>7 DEF Compiled
<1> QED BY <1>2, <1>8

LEMMA NextRowKeeps == ASSUME IInv, NEW s \in Stmts, NextRow(s) PROVE IInv'
<1> DEFINE a == stmt[s]
<1>1. /\ s \in exists /\ a # 0 /\ exists \subseteq Stmts
      /\ UNCHANGED <<handle, dbs, exists, stmt, promises, forgot>>
  BY DEF NextRow, IInv, TypeOK
<1>2. a \in DOMAIN compiled /\ compiled[a].db \in Handles
  BY <1>1 DEF IInv, FinalizedOnce, TypeOK, Compiled
<1>3. /\ DOMAIN compiled' = DOMAIN compiled
      /\ \A x \in DOMAIN compiled \ {a} : compiled'[x] = compiled[x]
      /\ compiled'[a] \in Compiled /\ compiled'[a].bound = compiled[a].bound
  BY <1>2, SteppedInPlace DEF NextRow
<1>4. RowsInv'
  <2>1. MayRollBack(compiled[a].db)
    BY DEF NextRow, MayRollBack
  <2> QED BY <1>1, <1>2, <2>1, ErrorKeeps DEF promises
<1>5. TypeOK'
  BY <1>1, <1>3, <1>4, InPlace DEF IInv, TypeOK, RowsInv, RowTypes, promises
<1>6. NoHandleLost'
  BY <1>1 DEF IInv, NoHandleLost
<1>7. Agreed'
  BY <1>1, <1>3, InPlace DEF IInv, Agreed, promises
<1> QED BY <1>1, <1>3, <1>4, <1>5, <1>6, <1>7, InPlace DEF IInv, promises

\* An insert that is done: the row is where the program was told it is, or the
\* program takes it to wait while it is stored.
LEMMA InsertKeeps ==
    ASSUME IInv, NEW a \in DOMAIN compiled, NEW row \in Rows, Inserted(a),
           Told(compiled[a].db, row), ~ColumnFailures => compiled[a].bound = row,
           Len(table) + Len(pending) < MaxRows,
           UNCHANGED <<dbs, begun, inTransaction, rolledBack>>,
           compiled[a].db \in inTransaction => writer \in {0, compiled[a].db}
    PROVE  RowsInv'
<1> DEFINE h == compiled[a].db
           b == compiled[a].bound
<1>1. RowTypes /\ Held /\ Within
  BY TypesOfRows
<1>2. ~ColumnFailures => TableAsTold /\ PendingTold
  BY DEF IInv, RowsInv
<1>3. h \in Handles /\ b \in Rows
  BY DEF IInv, TypeOK, Compiled
<1>4. /\ pending \in Seq(Rows) /\ table \in Seq(Rows) /\ told \in Seq(Rows \cup {NoRow})
      /\ toldPending \in [Handles -> Seq(Rows)] /\ dbs \subseteq Handles
      /\ Len(table) \in Nat /\ Len(pending) \in Nat /\ Len(told) \in Nat /\ MaxRows \in Nat
  BY <1>1, BoundsAssumption DEF RowTypes
<1> HIDE DEF h, b
<1>5. CASE h \in inTransaction
  <2>1. /\ h \in begun /\ writer' = h /\ pending' = Append(pending, b)
        /\ table' = table /\ told' = told
        /\ toldPending' = [toldPending EXCEPT ![h] = Append(@, row)]
    BY <1>1, <1>5 DEF Inserted, Told, Held, h, b
  <2>2. /\ pending' \in Seq(Rows) /\ Len(pending') = Len(pending) + 1
        /\ Append(toldPending[h], row) \in Seq(Rows)
    BY <1>3, <1>4, <2>1
  <2>3. /\ toldPending' \in [Handles -> Seq(Rows)]
        /\ toldPending'[h] = Append(toldPending[h], row)
        /\ \A g \in Handles \ {h} : toldPending'[g] = toldPending[g]
    BY <1>3, <1>4, <2>1, <2>2
  <2>4. RowTypes'
    BY <1>1, <1>5, <2>1, <2>2, <2>3 DEF RowTypes
  <2>5. Within'
    BY <1>4, <2>1, <2>2 DEF Within
  <2>6. Held'
    BY <1>1, <1>3, <1>5, <2>1, AddressAssumption DEF Held
  <2>7. ASSUME ~ColumnFailures PROVE TableAsTold' /\ PendingTold'
    <3>1. TableAsTold'
      BY <1>2, <2>1, <2>7 DEF TableAsTold
    <3>2. b = row /\ PendingTold
      BY <1>2, <2>7 DEF b
    <3>3. toldPending[h] = pending
      <4>1. toldPending[h] = IF writer = h THEN pending ELSE <<>>
        BY <1>5, <3>2 DEF PendingTold
      <4>2. writer \in {0, h} /\ (writer = 0 => pending = <<>>)
        BY <1>1, <1>5 DEF Held, h
      <4> QED BY <4>1, <4>2
    <3>4. ASSUME NEW g \in inTransaction', g # h
          PROVE  toldPending'[g] = IF writer' = g THEN pending' ELSE <<>>
      <4>1. g \in inTransaction /\ g \in Handles \ {h}
        BY <1>1, <3>4 DEF RowTypes
      <4>2. writer # g
        BY <1>1, <1>5, <3>4, <4>1, AddressAssumption DEF h
      <4>3. toldPending[g] = <<>>
        BY <3>2, <4>1, <4>2 DEF PendingTold
      <4> QED BY <2>1, <2>3, <3>4, <4>1, <4>3
    <3>5. toldPending'[h] = pending'
      BY <2>1, <2>3, <3>2, <3>3
    <3>6. PendingTold'
      BY <2>1, <3>4, <3>5 DEF PendingTold
    <3> QED BY <3>1, <3>6
  <2> QED BY <2>4, <2>5, <2>6, <2>7 DEF RowsInv
<1>6. CASE h \notin inTransaction
  <2> DEFINE t == IF h \in begun THEN NoRow ELSE row
  <2>1. /\ table' = Append(table, b) /\ UNCHANGED <<writer, pending>>
        /\ told' = Append(told, t)
        /\ toldPending' = IF h \in begun
                          THEN [toldPending EXCEPT ![h] = Append(@, row)] ELSE toldPending
    BY <1>6 DEF Inserted, Told, h, b
  <2>2. t \in Rows \cup {NoRow}
    OBVIOUS
  <2>3. /\ table' \in Seq(Rows) /\ Len(table') = Len(table) + 1
        /\ DOMAIN told' = 1 .. Len(told) + 1 /\ DOMAIN told = 1 .. Len(told)
        /\ \A i \in 1 .. Len(table) : table'[i] = table[i]
        /\ table'[Len(table) + 1] = b
        /\ told' \in Seq(Rows \cup {NoRow}) /\ Len(told') = Len(told) + 1
        /\ \A i \in 1 .. Len(told) : told'[i] = told[i]
        /\ told'[Len(told) + 1] = t
    <3> HIDE DEF t
    <3> QED BY <1>3, <1>4, <2>1, <2>2
  <2>4. /\ toldPending' \in [Handles -> Seq(Rows)]
        /\ \A g \in Handles \ {h} : toldPending'[g] = toldPending[g]
    <3>1. Append(toldPending[h], row) \in Seq(Rows)
      BY <1>3, <1>4
    <3> QED BY <1>3, <1>4, <2>1, <3>1
  <2>5. RowTypes'
    BY <1>1, <2>1, <2>3, <2>4 DEF RowTypes
  <2>6. Within'
    BY <1>4, <2>1, <2>3 DEF Within
  <2>7. Held'
    BY <1>1, <2>1 DEF Held
  <2>8. ASSUME ~ColumnFailures PROVE TableAsTold' /\ PendingTold'
    <3>1. b = row /\ PendingTold /\ TableAsTold
      BY <1>2, <2>8 DEF b
    <3>2. Len(table') = Len(told')
      BY <2>3, <3>1 DEF TableAsTold
    <3>3. ASSUME NEW i \in DOMAIN told', told'[i] # NoRow PROVE told'[i] = table'[i]
      <4>1. CASE i = Len(told) + 1
        <5>1. told'[i] = row /\ table'[i] = b
          BY <2>3, <3>1, <3>3, <4>1 DEF TableAsTold
        <5> QED BY <3>1, <5>1
      <4>2. CASE i # Len(told) + 1
        <5>1. i \in 1 .. Len(told)
          BY <1>4, <2>3, <4>2
        <5>2. told'[i] = told[i] /\ table'[i] = table[i]
          BY <2>3, <3>1, <5>1 DEF TableAsTold
        <5> QED BY <2>3, <3>1, <3>3, <5>1, <5>2 DEF TableAsTold
      <4> QED BY <4>1, <4>2
    <3>4. ASSUME ~rolledBack' PROVE table' = told'
      <4>1. h \notin begun /\ table = told
        BY <1>1, <1>6, <3>1, <3>4 DEF Held, TableAsTold
      <4> QED BY <2>1, <3>1, <4>1
    <3>5. PendingTold'
      <4> SUFFICES ASSUME NEW g \in inTransaction'
                   PROVE  toldPending'[g] = IF writer' = g THEN pending' ELSE <<>>
        BY DEF PendingTold
      <4>1. g \in inTransaction /\ g \in Handles \ {h}
        BY <1>1, <1>6 DEF RowTypes
      <4> QED BY <2>1, <2>4, <3>1, <4>1 DEF PendingTold
    <3> QED BY <3>2, <3>3, <3>4, <3>5 DEF TableAsTold
  <2> QED BY <2>5, <2>6, <2>7, <2>8 DEF RowsInv
<1> QED BY <1>5, <1>6

LEMMA ExecuteNonQueryKeeps ==
    ASSUME IInv, NEW s \in Stmts, ExecuteNonQuery(s) PROVE IInv'
<1> DEFINE a == stmt[s]
           c == compiled[a]
<1>1. /\ s \in exists /\ a # 0 /\ exists \subseteq Stmts
      /\ UNCHANGED <<handle, dbs, exists, stmt, believed, begun, forgot>>
      /\ c.sql = "insert" => Len(table) + Len(pending) < MaxRows
  BY DEF ExecuteNonQuery, IInv, TypeOK
<1>2. a \in DOMAIN compiled /\ c \in Compiled /\ c.db \in Handles /\ believed[s] \in Rows
  BY <1>1 DEF IInv, FinalizedOnce, TypeOK, Compiled
<1>3. PICK answer \in StepAnswers(a) :
        /\ compiled' = Stepped(a, answer)
        /\ \/ answer = "error" /\ MayRollBack(c.db)
           \/ /\ answer = "done" /\ c.sql = "insert"
              /\ Inserted(a)
              /\ UNCHANGED <<inTransaction, rolledBack>>
           \/ /\ answer # "error" /\ c.sql = "select"
              /\ UNCHANGED external
        /\ IF c.sql = "insert" /\ StepTrue(answer)
           THEN Told(c.db, believed[s])
           ELSE UNCHANGED <<toldPending, told>>
  BY DEF ExecuteNonQuery
<1>4. /\ DOMAIN compiled' = DOMAIN compiled
      /\ \A x \in DOMAIN compiled \ {a} : compiled'[x] = compiled[x]
      /\ compiled'[a] \in Compiled /\ compiled'[a].bound = c.bound
  BY <1>2, <1>3, SteppedInPlace
<1>5. RowsInv'
  <2>1. CASE answer = "done" /\ c.sql = "insert" /\ Inserted(a)
                 /\ UNCHANGED <<inTransaction, rolledBack>>
    <3>1. Told(c.db, believed[s])
      BY <1>3, <2>1 DEF StepTrue
    <3>2. ~ColumnFailures => c.bound = believed[s]
      BY <1>1 DEF IInv, Agreed
    <3>3. writer \in {0, c.db}
      BY <1>3, <2>1 DEF StepAnswers
    <3> QED BY <1>1, <1>2, <2>1, <3>1, <3>2, <3>3, InsertKeeps
  <2>2. CASE ~(answer = "done" /\ c.sql = "insert")
    <3>1. MayRollBack(c.db) /\ UNCHANGED <<toldPending, told>>
      BY <1>3, <2>2 DEF MayRollBack, StepTrue
    <3> QED BY <1>1, <1>2, <3>1, ErrorKeeps
  <2>3. CASE answer = "done" /\ c.sql = "insert"
    BY <1>3, <2>1, <2>3
  <2> QED BY <2>2, <2>3
<1>6. TypeOK'
  BY <1>1, <1>4, <1>5, InPlace DEF IInv, TypeOK, RowsInv, RowTypes
<1>7. NoHandleLost'
  BY <1>1 DEF IInv, NoHandleLost
<1>8. Agreed'
  BY <1>1, <1>4, InPlace DEF IInv, Agreed
<1> QED BY <1>1, <1>4, <1>5, <1>6, <1>7, <1>8, InPlace DEF IInv

-----------------------------------------------------------------------------
(* The transaction.                                                        *)

\* A step that touches no statement.
LEMMA StatementsKept ==
    ASSUME IInv, UNCHANGED <<exists, stmt, compiled, believed, forgot>>
    PROVE  /\ FinalizedOnce' /\ Scoped' /\ Owned'
           /\ Agreed'
  BY DEF IInv, FinalizedOnce, Scoped, Owned, Agreed

LEMMA BeginKeeps == ASSUME IInv, Begin PROVE IInv'
<1>1. /\ handle \in dbs /\ handle \notin inTransaction /\ handle \in Handles
      /\ inTransaction' = inTransaction \cup {handle} /\ begun' = begun \cup {handle}
      /\ toldPending' = [toldPending EXCEPT ![handle] = <<>>]
      /\ UNCHANGED <<handle, dbs, exists, stmt, compiled, writer, pending, table,
                     rolledBack, believed, told, forgot>>
  BY DEF Begin, IInv, TypeOK
<1>2. RowTypes /\ Held /\ Within /\ <<>> \in Seq(Rows)
  BY TypesOfRows
<1>3. /\ toldPending' \in [Handles -> Seq(Rows)] /\ toldPending'[handle] = <<>>
      /\ \A g \in Handles \ {handle} : toldPending'[g] = toldPending[g]
  BY <1>1, <1>2 DEF RowTypes
<1>4. RowTypes' /\ Held' /\ Within'
  BY <1>1, <1>2, <1>3 DEF RowTypes, Held, Within
<1>5. PendingTold => PendingTold'
  <2> SUFFICES ASSUME PendingTold, NEW g \in inTransaction'
               PROVE  toldPending'[g] = IF writer' = g THEN pending' ELSE <<>>
    BY DEF PendingTold
  <2>1. CASE g = handle
    <3>1. writer # handle
      BY <1>1, <1>2, AddressAssumption DEF Held
    <3> QED BY <1>1, <1>3, <2>1, <3>1
  <2>2. CASE g # handle
    <3>1. g \in inTransaction /\ g \in Handles
      BY <1>1, <1>2, <2>2 DEF RowTypes
    <3> QED BY <1>1, <1>3, <2>2, <3>1 DEF PendingTold
  <2> QED BY <2>1, <2>2
<1>6. RowsInv'
  BY <1>1, <1>4, <1>5 DEF IInv, RowsInv, TableAsTold
<1>7. TypeOK' /\ NoHandleLost'
  BY <1>1, <1>6 DEF IInv, TypeOK, RowsInv, RowTypes, NoHandleLost
<1> QED BY <1>1, <1>6, <1>7, StatementsKept DEF IInv

LEMMA RollbackKeeps == ASSUME IInv, Rollback PROVE IInv'
<1>1. /\ handle \in Handles /\ EndTransaction(handle, table) /\ KnownEnd(handle)
      /\ UNCHANGED <<handle, dbs, exists, stmt, compiled, rolledBack, believed, told, forgot>>
  BY DEF Rollback, IInv, TypeOK
<1>2. RowTypes /\ Held /\ Within /\ table \in Seq(Rows)
  BY TypesOfRows DEF RowTypes
<1>3. Held' /\ (PendingTold => PendingTold')
  BY <1>1, <1>2, KnownEndKeeps
<1>4. begun' = begun \ {handle} /\ toldPending' \in [Handles -> Seq(Rows)]
  BY <1>1, <1>2, KnownEndKeeps
<1>5. /\ inTransaction' = inTransaction \ {handle} /\ writer' \in inTransaction' \cup {0}
      /\ pending' \in Seq(Rows) /\ Len(pending') =< Len(pending) /\ table' = table
  BY <1>1, <1>2, EndTransactionKeeps
<1>6. RowTypes'
  BY <1>1, <1>2, <1>4, <1>5 DEF RowTypes
<1>7. Within'
  BY <1>2, <1>5, ShorterWithin
<1>8. RowsInv'
  BY <1>1, <1>3, <1>5, <1>6, <1>7 DEF IInv, RowsInv, TableAsTold
<1>9. TypeOK' /\ NoHandleLost'
  BY <1>1, <1>8 DEF IInv, TypeOK, RowsInv, RowTypes, NoHandleLost
<1> QED BY <1>1, <1>8, <1>9, StatementsKept DEF IInv

LEMMA SeqOfMore == ASSUME NEW S, NEW T, NEW q \in Seq(S), S \subseteq T PROVE q \in Seq(T)
<1>1. q = [i \in 1 .. Len(q) |-> q[i]] /\ Len(q) \in Nat /\ \A i \in 1 .. Len(q) : q[i] \in T
  OBVIOUS
<1> QED BY <1>1, SeqDef

\* Rows that are committed as the program was told.
LEMMA ToldConcat ==
    ASSUME NEW t \in Seq(Rows), NEW u \in Seq(Rows \cup {NoRow}), NEW s \in Seq(Rows),
           Len(t) = Len(u), \A i \in DOMAIN u : u[i] # NoRow => u[i] = t[i]
    PROVE  /\ Len(t \o s) = Len(u \o s)
           /\ \A i \in DOMAIN (u \o s) : (u \o s)[i] # NoRow => (u \o s)[i] = (t \o s)[i]
<1>1. Len(t) \in Nat /\ Len(u) \in Nat /\ Len(s) \in Nat /\ DOMAIN u = 1 .. Len(u)
  OBVIOUS
<1>2. s \in Seq(Rows \cup {NoRow})
  BY SeqOfMore
<1>3. /\ Len(t \o s) = Len(t) + Len(s) /\ Len(u \o s) = Len(u) + Len(s)
      /\ DOMAIN (u \o s) = 1 .. Len(u) + Len(s)
      /\ \A i \in 1 .. Len(t) + Len(s) :
            (t \o s)[i] = IF i =< Len(t) THEN t[i] ELSE s[i - Len(t)]
      /\ \A i \in 1 .. Len(u) + Len(s) :
            (u \o s)[i] = IF i =< Len(u) THEN u[i] ELSE s[i - Len(u)]
  <2>1. /\ Len(t \o s) = Len(t) + Len(s)
        /\ \A i \in 1 .. Len(t) + Len(s) :
              (t \o s)[i] = IF i =< Len(t) THEN t[i] ELSE s[i - Len(t)]
    BY ConcatProperties
  <2>2. /\ u \o s \in Seq(Rows \cup {NoRow}) /\ Len(u \o s) = Len(u) + Len(s)
        /\ \A i \in 1 .. Len(u) + Len(s) :
              (u \o s)[i] = IF i =< Len(u) THEN u[i] ELSE s[i - Len(u)]
    BY <1>2, ConcatProperties
  <2>3. DOMAIN (u \o s) = 1 .. Len(u) + Len(s)
    BY <2>2
  <2> QED BY <2>1, <2>2, <2>3
<1> QED BY <1>1, <1>3

LEMMA CommitKeeps == ASSUME IInv, Commit PROVE IInv'
<1> DEFINE rows == IF writer = handle THEN pending ELSE <<>>
<1>1. PICK ok \in BOOLEAN :
        /\ ok => handle \in inTransaction
        /\ told' = told \o CommitResult(ok, toldPending[handle])
        /\ IF ok THEN /\ EndTransaction(handle, table \o rows) /\ KnownEnd(handle)
                      /\ UNCHANGED rolledBack
                 ELSE MayRollBack(handle) /\ UNCHANGED <<begun, toldPending>>
  BY DEF Commit
<1>2. /\ UNCHANGED <<handle, dbs, exists, stmt, compiled, believed, forgot>>
      /\ handle \in Handles
  BY DEF Commit, IInv, TypeOK
<1>3. RowTypes /\ Held /\ Within
  BY TypesOfRows
<1>4. /\ pending \in Seq(Rows) /\ table \in Seq(Rows) /\ told \in Seq(Rows \cup {NoRow})
      /\ toldPending[handle] \in Seq(Rows) /\ <<>> \in Seq(Rows)
  BY <1>2, <1>3 DEF RowTypes
<1>5. rows \in Seq(Rows)
  BY <1>4
<1> HIDE DEF rows
<1>6. RowsInv'
  <2>1. CASE ok
    <3>1. /\ handle \in inTransaction /\ told' = told \o toldPending[handle]
          /\ EndTransaction(handle, table \o rows) /\ KnownEnd(handle)
          /\ rolledBack' = rolledBack
      BY <1>1, <2>1 DEF CommitResult
    <3>2. table \o rows \in Seq(Rows) /\ Len(table \o rows) = Len(table) + Len(rows)
      BY <1>4, <1>5
    <3>3. /\ table' = table \o rows /\ pending' \in Seq(Rows)
          /\ inTransaction' = inTransaction \ {handle} /\ writer' \in inTransaction' \cup {0}
          /\ writer = handle => pending' = <<>>
          /\ writer # handle => pending' = pending
      BY <1>2, <1>3, <3>1, <3>2, EndTransactionKeeps
    <3>4. Held' /\ (PendingTold => PendingTold')
      BY <1>2, <1>3, <3>1, <3>2, KnownEndKeeps
    <3>5. begun' = begun \ {handle} /\ toldPending' \in [Handles -> Seq(Rows)]
      BY <1>2, <1>3, <3>1, <3>2, KnownEndKeeps
    <3>6. told' \in Seq(Rows \cup {NoRow})
      BY <1>4, <3>1, SeqOfMore, ConcatProperties
    <3>7. RowTypes'
      BY <1>2, <1>3, <3>1, <3>2, <3>3, <3>5, <3>6 DEF RowTypes
    <3>8. Within'
      <4>1. /\ Len(table) \in Nat /\ Len(pending) \in Nat /\ MaxRows \in Nat
            /\ Len(table) + Len(pending) =< MaxRows /\ Len(<<>>) = 0
        BY <1>3, <1>4, BoundsAssumption DEF Within
      <4>2. Len(rows) + Len(pending') = Len(pending)
        BY <3>3, <4>1 DEF rows
      <4>3. Len(table') = Len(table) + Len(rows) /\ Len(rows) \in Nat /\ Len(pending') \in Nat
        BY <1>5, <3>2, <3>3
      <4>4. Len(table') + Len(pending') =< MaxRows
        BY <4>1, <4>2, <4>3
      <4> QED BY <4>4 DEF Within
    <3>9. ASSUME ~ColumnFailures PROVE TableAsTold' /\ PendingTold'
      <4>1. TableAsTold /\ PendingTold
        BY <3>9 DEF IInv, RowsInv
      <4>2. toldPending[handle] = rows
        BY <3>1, <4>1 DEF PendingTold, rows
      <4>3. table' = table \o rows /\ told' = told \o rows
        BY <3>1, <3>3, <4>2
      <4>4. TableAsTold'
        <5>1. Len(table) = Len(told) /\ \A i \in DOMAIN told : told[i] # NoRow => told[i] = table[i]
          BY <4>1 DEF TableAsTold
        <5>2. /\ Len(table') = Len(told')
              /\ \A i \in DOMAIN told' : told'[i] # NoRow => told'[i] = table'[i]
          BY <1>4, <1>5, <4>3, <5>1, ToldConcat
        <5>3. ~rolledBack' => table' = told'
          BY <3>1, <4>1, <4>3 DEF TableAsTold
        <5> QED BY <5>2, <5>3 DEF TableAsTold
      <4> QED BY <3>4, <4>1, <4>4
    <3> QED BY <3>4, <3>7, <3>8, <3>9 DEF RowsInv
  <2>2. CASE ~ok
    <3>1. told' = told
      BY <1>1, <1>4, <2>2 DEF CommitResult
    <3> QED BY <1>1, <1>2, <2>2, <3>1, ErrorKeeps
  <2> QED BY <2>1, <2>2
<1>7. TypeOK' /\ NoHandleLost'
  BY <1>2, <1>6 DEF IInv, TypeOK, RowsInv, RowTypes, NoHandleLost
<1> QED BY <1>2, <1>6, <1>7, StatementsKept DEF IInv

-----------------------------------------------------------------------------
(* The theorems.                                                           *)

LEMMA NextIInv == IInv /\ [Next]_vars => IInv'
<1> SUFFICES ASSUME IInv, [Next]_vars PROVE IInv'
  OBVIOUS
<1>1. CASE UNCHANGED vars
  <2>1. UNCHANGED external /\ UNCHANGED <<handle, dbs, begun, toldPending, told, forgot>>
        /\ UNCHANGED <<exists, stmt, compiled, believed>>
    BY <1>1 DEF vars, promises
  <2>2. TypeOK'
    BY <2>1, RowsKept DEF IInv, TypeOK
  <2> QED BY <2>1, <2>2, RowsKept, StatementsKept DEF IInv
<1>2. CASE Open \/ Close \/ Begin \/ Commit \/ Rollback
  BY <1>2, OpenKeeps, CloseKeeps, BeginKeeps, CommitKeeps, RollbackKeeps
<1>3. ASSUME NEW s \in Stmts,
             \/ Create(s) \/ Destroy(s) \/ CloseStmt(s)
             \/ \E q \in {"insert", "select"} : Prepare(s, q)
             \/ \E row \in [Columns -> Values] : Bind(s, row)
             \/ Reset(s) \/ ClearBindings(s)
             \/ ExecuteNonQuery(s) \/ NextRow(s)
      PROVE  IInv'
  BY <1>3, CreateKeeps, DestroyKeeps, CloseStmtKeeps, PrepareKeeps, BindKeeps,
     ResetKeeps, ClearBindingsKeeps, ExecuteNonQueryKeeps, NextRowKeeps
<1> QED BY <1>1, <1>2, <1>3 DEF Next

LEMMA Invariant == Spec => []IInv
  BY InitIInv, NextIInv, PTL DEF Spec

\* For any statement objects, rows and bounds, no statement is finalized twice
\* or stepped after it was finalized, and two objects never share one.
THEOREM StatementsApart == Spec => []Sound
<1>1. IInv => Sound
  BY DEF IInv, Sound
<1> QED BY <1>1, Invariant, PTL

\* As long as a bind() fails for all columns or for none, the committed rows
\* are the ones execute_non_query() and commit() told the program of, and those
\* that the program takes to wait in a transaction SQLite has rolled back by itself.
THEOREM ToldTrue == ~ColumnFailures => (Spec => []TableAsTold)
<1> SUFFICES ASSUME ~ColumnFailures PROVE Spec => []TableAsTold
  OBVIOUS
<1>1. IInv => TableAsTold
  BY DEF IInv, RowsInv
<1> QED BY <1>1, Invariant, PTL

\* A program that closes its statements before their objects and their
\* connection go never has two handles open in SQLite, so that it leaks none.
THEOREM HandlesAccounted == Spec => []NoHandleLost
<1>1. IInv => NoHandleLost
  BY DEF IInv
<1> QED BY <1>1, Invariant, PTL

-----------------------------------------------------------------------------
(* The log files: sequences of records.                                    *)

LEMMA RecordsAre ==
    ASSUME NEW s \in Seq(Records)
    PROVE  /\ Len(s) \in Nat /\ DOMAIN s = 1 .. Len(s)
           /\ RecordsOf(s) = {s[i] : i \in 1 .. Len(s)}
           /\ RecordsOf(s) \subseteq Records
<1>1. Len(s) \in Nat /\ DOMAIN s = 1 .. Len(s)
  BY LenProperties
<1>2. \A i \in 1 .. Len(s) : s[i] \in Records
  BY ElementOfSeq
<1> QED BY <1>1, <1>2 DEF RecordsOf

LEMMA RecordsConcat ==
    ASSUME NEW s \in Seq(Records), NEW t \in Seq(Records)
    PROVE  /\ s \o t \in Seq(Records)
           /\ RecordsOf(s \o t) = RecordsOf(s) \cup RecordsOf(t)
           /\ (/\ Ascending(s) /\ Ascending(t)
               /\ \A r \in RecordsOf(s), q \in RecordsOf(t) : r < q)
                 => Ascending(s \o t)
<1> DEFINE c == s \o t
<1>1. /\ c \in Seq(Records) /\ Len(c) = Len(s) + Len(t)
      /\ \A i \in 1 .. Len(s) + Len(t) : c[i] = IF i <= Len(s) THEN s[i] ELSE t[i - Len(s)]
  BY ConcatProperties
<1>2. /\ Len(s) \in Nat /\ Len(t) \in Nat
      /\ DOMAIN s = 1 .. Len(s) /\ DOMAIN t = 1 .. Len(t) /\ DOMAIN c = 1 .. Len(s) + Len(t)
      /\ RecordsOf(s) = {s[i] : i \in 1 .. Len(s)} /\ RecordsOf(t) = {t[i] : i \in 1 .. Len(t)}
  BY <1>1, RecordsAre
<1> HIDE DEF c
<1>3. ASSUME NEW i \in 1 .. Len(s) + Len(t)
      PROVE  \/ i \in 1 .. Len(s) /\ c[i] = s[i] /\ c[i] \in RecordsOf(s)
             \/ i - Len(s) \in 1 .. Len(t) /\ c[i] = t[i - Len(s)] /\ c[i] \in RecordsOf(t)
                /\ i > Len(s)
  <2>1. Len(s) \in Nat /\ Len(t) \in Nat
    BY <1>2
  <2>2. CASE i <= Len(s)
    <3>1. i \in 1 .. Len(s) /\ c[i] = s[i]
      BY <1>1, <2>1, <2>2
    <3> QED BY <1>2, <3>1
  <2>3. CASE ~(i <= Len(s))
    <3>1. i - Len(s) \in 1 .. Len(t) /\ c[i] = t[i - Len(s)] /\ i > Len(s)
      BY <1>1, <2>1, <2>3
    <3>2. t[i - Len(s)] \in RecordsOf(t)
      BY <1>2, <3>1
    <3> QED BY <3>1, <3>2
  <2> QED BY <2>2, <2>3
<1>4. RecordsOf(c) = RecordsOf(s) \cup RecordsOf(t)
  <2>1. RecordsOf(c) = {c[i] : i \in 1 .. Len(s) + Len(t)}
    BY <1>2 DEF RecordsOf
  <2>2. \A i \in 1 .. Len(s) : i \in 1 .. Len(s) + Len(t) /\ c[i] = s[i]
    BY <1>1, <1>2
  <2>3. ASSUME NEW i \in 1 .. Len(t)
        PROVE  Len(s) + i \in 1 .. Len(s) + Len(t) /\ c[Len(s) + i] = t[i]
    <3>1. Len(s) \in Nat /\ Len(t) \in Nat
      BY <1>2
    <3>2. Len(s) + i \in 1 .. Len(s) + Len(t) /\ ~(Len(s) + i <= Len(s)) /\ Len(s) + i - Len(s) = i
      BY <3>1
    <3> QED BY <1>1, <3>2
  <2> QED BY <1>2, <1>3, <2>1, <2>2, <2>3
<1>5. ASSUME Ascending(s), Ascending(t), \A r \in RecordsOf(s), q \in RecordsOf(t) : r < q
      PROVE  Ascending(c)
  <2> SUFFICES ASSUME NEW i \in 1 .. Len(s) + Len(t), NEW j \in 1 .. Len(s) + Len(t), i < j
               PROVE  c[i] < c[j]
    BY <1>2 DEF Ascending
  <2>1. CASE i > Len(s)
    <3>1. i - Len(s) \in 1 .. Len(t) /\ j - Len(s) \in 1 .. Len(t) /\ i - Len(s) < j - Len(s)
          /\ c[i] = t[i - Len(s)] /\ c[j] = t[j - Len(s)]
      BY <1>2, <1>3, <2>1
    <3> QED BY <1>2, <1>5, <3>1 DEF Ascending
  <2>2. CASE i <= Len(s) /\ j <= Len(s)
    <3>1. i \in 1 .. Len(s) /\ j \in 1 .. Len(s) /\ c[i] = s[i] /\ c[j] = s[j]
      BY <1>1, <1>2, <2>2
    <3> QED BY <1>2, <1>5, <3>1 DEF Ascending
  <2>3. CASE i <= Len(s) /\ j > Len(s)
    <3>1. c[i] \in RecordsOf(s) /\ c[j] \in RecordsOf(t)
      BY <1>2, <1>3, <2>3
    <3> QED BY <1>5, <3>1
  <2> QED BY <1>2, <2>1, <2>2, <2>3
<1> QED BY <1>1, <1>4, <1>5 DEF c

LEMMA RecordsSplit ==
    ASSUME NEW b \in Seq(Records), NEW k \in 0 .. Len(b)
    PROVE  LET a == SubSeq(b, 1, k)
               c == SubSeq(b, k + 1, Len(b))
           IN /\ a \in Seq(Records) /\ c \in Seq(Records)
              /\ RecordsOf(b) = RecordsOf(a) \cup RecordsOf(c)
              /\ Ascending(b) => /\ Ascending(a) /\ Ascending(c)
                                 /\ \A r \in RecordsOf(a), q \in RecordsOf(c) : r < q
<1> DEFINE a == SubSeq(b, 1, k)
           c == SubSeq(b, k + 1, Len(b))
<1>1. Len(b) \in Nat /\ k \in Nat /\ k <= Len(b) /\ DOMAIN b = 1 .. Len(b)
  BY RecordsAre
<1>7. RecordsOf(b) = {b[i] : i \in 1 .. Len(b)} /\ \A i \in 1 .. Len(b) : b[i] \in Records
  BY RecordsAre, ElementOfSeq
<1>2. a \in Seq(Records) /\ Len(a) = k /\ \A i \in 1 .. k : a[i] = b[i]
  <2>1. /\ a \in Seq(Records) /\ Len(a) = IF 1 <= k THEN k - 1 + 1 ELSE 0
        /\ \A i \in 1 .. k - 1 + 1 : a[i] = b[1 + i - 1]
    BY <1>1, <1>7, SubSeqProperties
  <2> HIDE DEF a
  <2> QED BY <1>1, <2>1
<1>3. c \in Seq(Records) /\ Len(c) = Len(b) - k /\ \A i \in 1 .. Len(b) - k : c[i] = b[k + i]
  <2> DEFINE l == Len(b)
  <2>1. /\ c \in Seq(Records) /\ Len(c) = IF k + 1 <= l THEN l - (k + 1) + 1 ELSE 0
        /\ \A i \in 1 .. l - (k + 1) + 1 : c[i] = b[(k + 1) + i - 1]
    BY <1>1, <1>7, SubSeqProperties
  <2> HIDE DEF c, l
  <2>2. Len(c) = l - k
    <3>1. Len(c) = IF k + 1 <= l THEN l - (k + 1) + 1 ELSE 0
      BY <2>1
    <3>2. l \in Nat /\ k \in Nat /\ k <= l
      BY <1>1 DEF l
    <3> QED BY <3>1, <3>2
  <2> USE DEF l
  <2>3. ASSUME NEW i \in 1 .. Len(b) - k PROVE c[i] = b[k + i]
    <3>1. i \in 1 .. Len(b) - (k + 1) + 1 /\ (k + 1) + i - 1 = k + i
      BY <1>1
    <3> QED BY <2>1, <3>1
  <2> QED BY <2>1, <2>2, <2>3
<1> HIDE DEF a, c
<1>4. /\ DOMAIN a = 1 .. k /\ DOMAIN c = 1 .. Len(b) - k
      /\ RecordsOf(a) = {a[i] : i \in 1 .. k} /\ RecordsOf(c) = {c[i] : i \in 1 .. Len(b) - k}
  BY <1>2, <1>3, RecordsAre
<1>5. RecordsOf(b) = RecordsOf(a) \cup RecordsOf(c)
  <2>1. ASSUME NEW r \in RecordsOf(b) PROVE r \in RecordsOf(a) \cup RecordsOf(c)
    <3>1. PICK i \in 1 .. Len(b) : r = b[i]
      BY <1>7
    <3>2. i \in 1 .. k \/ (i - k \in 1 .. Len(b) - k /\ k + (i - k) = i)
      BY <1>1
    <3> QED BY <1>2, <1>3, <1>4, <3>1, <3>2
  <2>2. \A i \in 1 .. k : i \in 1 .. Len(b)
    BY <1>1
  <2>3. \A i \in 1 .. Len(b) - k : k + i \in 1 .. Len(b)
    BY <1>1
  <2>4. ASSUME NEW r \in RecordsOf(a) PROVE r \in RecordsOf(b)
    BY <1>2, <1>4, <1>7, <2>2
  <2>5. ASSUME NEW r \in RecordsOf(c) PROVE r \in RecordsOf(b)
    BY <1>3, <1>4, <1>7, <2>3
  <2> QED BY <2>1, <2>4, <2>5
<1>6. ASSUME Ascending(b)
      PROVE  /\ Ascending(a) /\ Ascending(c)
             /\ \A r \in RecordsOf(a), q \in RecordsOf(c) : r < q
  <2>1. \A i, j \in 1 .. Len(b) : i < j => b[i] < b[j]
    BY <1>1, <1>6 DEF Ascending
  <2>2. Ascending(a)
    BY <1>1, <1>2, <1>4, <2>1 DEF Ascending
  <2>3. Ascending(c)
    BY <1>1, <1>3, <1>4, <2>1 DEF Ascending
  <2>4. ASSUME NEW i \in 1 .. k, NEW j \in 1 .. Len(b) - k PROVE a[i] < c[j]
    <3>1. i \in 1 .. Len(b) /\ k + j \in 1 .. Len(b) /\ i < k + j
      BY <1>1
    <3> QED BY <1>2, <1>3, <2>1, <3>1
  <2> QED BY <1>4, <2>2, <2>3, <2>4
<1> QED BY <1>2, <1>3, <1>5, <1>6 DEF a, c

-----------------------------------------------------------------------------
(* The log files: a directory fs, and the records b on their way to a file. *)

Directory(fs) == DOMAIN fs \subseteq Names /\ \A g \in DOMAIN fs : fs[g] \in Seq(Records)

\* What InOrder says of a process that did not start too soon.
InOrderOf(fs, b) ==
    /\ \A f \in DOMAIN fs : Ascending(fs[f])
    /\ \A f, g \in DOMAIN fs : Before(f, g) =>
          \A r \in RecordsOf(fs[f]), q \in RecordsOf(fs[g]) : r < q
    /\ Ascending(b)
    /\ \A f \in DOMAIN fs, r \in RecordsOf(b) :
          \A q \in RecordsOf(fs[f]) : q < r

\* The file f is the last one.
Latest(fs, f) == f \in DOMAIN fs /\ \A g \in DOMAIN fs : g = f \/ Before(g, f)

AllRecords(fs, b) == RecordsOf(b) \cup UNION {RecordsOf(fs[g]) : g \in DOMAIN fs}

LEMMA LogFacts ==
    /\ MaxRecords \in Nat /\ MaxTime \in Nat /\ MaxDays \in Nat /\ MaxLines \in Nat \ {0}
    /\ Records \subseteq Nat
  BY LogBoundsAssumption, MaxLinesAssumption DEF Records

\* A name is not before itself.
LEMMA BeforeIsStrict ==
    ASSUME NEW f \in Names, NEW g \in Names
    PROVE  ~Before(f, f) /\ ~(Before(f, g) /\ Before(g, f))
<1>1. f[1] \in Nat /\ f[2] \in Nat /\ g[1] \in Nat /\ g[2] \in Nat
  BY LogFacts DEF Names, Times
<1> QED BY <1>1 DEF Before

\* Numbers that are equally long sort by their values: what is opened in order is
\* in order for who reads it by name.
LEMMA SortedAsOpened ==
    ASSUME NEW f \in Names, NEW g \in Names, SortsBefore(f, g), ~OutgrowsWidth(f, g)
    PROVE  Before(f, g)
<1>1. CASE f[1] < g[1]
  BY <1>1 DEF Before
<1>2. CASE f[1] = g[1] /\ DigitsBefore(f[2], g[2])
  <2>1. Length(f[2]) = Length(g[2])
    BY <1>2 DEF OutgrowsWidth
  <2>2. f[2] < g[2]
    BY <1>2, <2>1 DEF DigitsBefore
  <2> QED BY <1>2, <2>2 DEF Before
<1> QED BY <1>1, <1>2 DEF SortsBefore

LEMMA InOrderIs ==
    ASSUME NEW fs, Directory(fs), NEW b, InOrderOf(fs, b)
    PROVE  \A f, g \in DOMAIN fs :
              Before(f, g) \/ (SortsBefore(f, g) /\ ~OutgrowsWidth(f, g)) =>
                 \A r \in RecordsOf(fs[f]), q \in RecordsOf(fs[g]) : r < q
<1> TAKE f, g \in DOMAIN fs
<1> HAVE Before(f, g) \/ (SortsBefore(f, g) /\ ~OutgrowsWidth(f, g))
<1>1. Before(f, g)
  BY SortedAsOpened DEF Directory
<1> QED BY <1>1 DEF InOrderOf

\* The stream writes some of what it holds.
LEMMA FlushedFacts ==
    ASSUME NEW fs, Directory(fs), NEW f, NEW b \in Seq(Records), NEW k \in 0 .. Len(b)
    PROVE  /\ Directory(Flushed(fs, f, b, k))
           /\ DOMAIN Flushed(fs, f, b, k) = DOMAIN fs
           /\ \A g \in DOMAIN fs : g # f => Flushed(fs, f, b, k)[g] = fs[g]
           /\ f \in DOMAIN fs =>
                 /\ Flushed(fs, f, b, k)[f] = fs[f] \o SubSeq(b, 1, k)
                 /\ RecordsOf(Flushed(fs, f, b, k)[f])
                       = RecordsOf(fs[f]) \cup RecordsOf(SubSeq(b, 1, k))
<1> DEFINE a == SubSeq(b, 1, k)
           d == Flushed(fs, f, b, k)
<1>1. a \in Seq(Records)
  BY RecordsSplit
<1>2. d = IF f \in DOMAIN fs THEN [fs EXCEPT ![f] = @ \o a] ELSE fs
  BY DEF Flushed
<1>3. f \in DOMAIN fs => fs[f] \o a \in Seq(Records)
                         /\ RecordsOf(fs[f] \o a) = RecordsOf(fs[f]) \cup RecordsOf(a)
  BY <1>1, RecordsConcat DEF Directory
<1> HIDE DEF a, d
<1>4. /\ DOMAIN d = DOMAIN fs /\ \A g \in DOMAIN fs : g # f => d[g] = fs[g]
      /\ f \in DOMAIN fs => d[f] = fs[f] \o a
  BY <1>2
<1>5. Directory(d)
  BY <1>3, <1>4 DEF Directory
<1> QED BY <1>3, <1>4, <1>5 DEF a, d

\* Nothing is lost by that, and the order is kept.
LEMMA FlushedKeeps ==
    ASSUME NEW fs, Directory(fs), NEW f \in DOMAIN fs, NEW b \in Seq(Records),
           NEW k \in 0 .. Len(b)
    PROVE  LET d == Flushed(fs, f, b, k)
               c == SubSeq(b, k + 1, Len(b))
           IN /\ AllRecords(d, c) = AllRecords(fs, b)
              /\ InOrderOf(fs, b) /\ Latest(fs, f) => InOrderOf(d, c)
<1> DEFINE a == SubSeq(b, 1, k)
           c == SubSeq(b, k + 1, Len(b))
           d == Flushed(fs, f, b, k)
<1>1. /\ a \in Seq(Records) /\ c \in Seq(Records)
      /\ RecordsOf(b) = RecordsOf(a) \cup RecordsOf(c)
      /\ Ascending(b) => /\ Ascending(a) /\ Ascending(c)
                         /\ \A r \in RecordsOf(a), q \in RecordsOf(c) : r < q
  BY RecordsSplit
<1> HIDE DEF c
<1>2. /\ Directory(d) /\ DOMAIN d = DOMAIN fs
      /\ \A g \in DOMAIN fs : g # f => d[g] = fs[g]
      /\ d[f] = fs[f] \o a
      /\ RecordsOf(d[f]) = RecordsOf(fs[f]) \cup RecordsOf(a)
  <2>1. d = [fs EXCEPT ![f] = @ \o a]
    BY DEF Flushed
  <2>2. fs[f] \o a \in Seq(Records) /\ RecordsOf(fs[f] \o a) = RecordsOf(fs[f]) \cup RecordsOf(a)
    BY <1>1, RecordsConcat DEF Directory
  <2> HIDE DEF a, d
  <2> QED BY <2>1, <2>2 DEF Directory
<1> HIDE DEF a, d
<1>3. AllRecords(d, c) = AllRecords(fs, b)
  <2>1. ASSUME NEW r \in AllRecords(d, c) PROVE r \in AllRecords(fs, b)
    <3>1. CASE r \in RecordsOf(c)
      BY <1>1, <3>1 DEF AllRecords
    <3>2. ASSUME NEW g \in DOMAIN fs, r \in RecordsOf(d[g]) PROVE r \in AllRecords(fs, b)
      <4>1. r \in RecordsOf(fs[g]) \/ r \in RecordsOf(b)
        BY <1>1, <1>2, <3>2
      <4> QED BY <4>1 DEF AllRecords
    <3> QED BY <1>2, <3>1, <3>2 DEF AllRecords
  <2>2. ASSUME NEW r \in AllRecords(fs, b) PROVE r \in AllRecords(d, c)
    <3>1. CASE r \in RecordsOf(b)
      <4>1. r \in RecordsOf(c) \/ r \in RecordsOf(d[f])
        BY <1>1, <1>2, <3>1
      <4> QED BY <1>2, <4>1 DEF AllRecords
    <3>2. ASSUME NEW g \in DOMAIN fs, r \in RecordsOf(fs[g]) PROVE r \in AllRecords(d, c)
      <4>1. r \in RecordsOf(d[g])
        BY <1>2, <3>2
      <4> QED BY <1>2, <4>1 DEF AllRecords
    <3> QED BY <3>1, <3>2 DEF AllRecords
  <2> QED BY <2>1, <2>2
<1>4. ASSUME InOrderOf(fs, b), Latest(fs, f) PROVE InOrderOf(d, c)
  <2>1. Ascending(b) /\ Ascending(fs[f])
        /\ \A g \in DOMAIN fs, r \in RecordsOf(b) : \A q \in RecordsOf(fs[g]) : q < r
    BY <1>4 DEF InOrderOf
  <2>2. \A q \in RecordsOf(fs[f]), r \in RecordsOf(a) : q < r
    BY <1>1, <2>1
  <2>3. Ascending(d[f])
    BY <1>1, <1>2, <2>1, <2>2, RecordsConcat DEF Directory
  <2>4. \A g \in DOMAIN d : Ascending(d[g])
    BY <1>2, <1>4, <2>3 DEF InOrderOf
  <2>5. ASSUME NEW g \in DOMAIN fs, NEW h \in DOMAIN fs, Before(g, h),
               NEW r \in RecordsOf(d[g]), NEW q \in RecordsOf(d[h])
        PROVE  r < q
    <3>1. g # f
      <4>1. g \in Names /\ h \in Names /\ f \in Names
        BY DEF Directory
      <4> QED BY <1>4, <2>5, <4>1, BeforeIsStrict DEF Latest
    <3>2. r \in RecordsOf(fs[g])
      BY <1>2, <3>1
    <3>3. q \in RecordsOf(fs[h]) \/ q \in RecordsOf(a)
      BY <1>2
    <3> QED BY <1>1, <1>4, <2>1, <2>5, <3>2, <3>3 DEF InOrderOf
  <2>6. ASSUME NEW g \in DOMAIN fs, NEW r \in RecordsOf(c), NEW q \in RecordsOf(d[g])
        PROVE  q < r
    <3>1. q \in RecordsOf(fs[g]) \/ q \in RecordsOf(a)
      BY <1>2
    <3> QED BY <1>1, <2>1, <3>1
  <2> QED BY <1>1, <1>2, <2>1, <2>4, <2>5, <2>6 DEF InOrderOf
<1> QED BY <1>3, <1>4 DEF c, d

\* The newest record comes last.
LEMMA AppendedKeeps ==
    ASSUME NEW fs, Directory(fs), NEW b \in Seq(Records), NEW r \in Records,
           \A q \in AllRecords(fs, b) : q < r
    PROVE  /\ Append(b, r) \in Seq(Records) /\ Len(Append(b, r)) = Len(b) + 1
           /\ RecordsOf(Append(b, r)) = RecordsOf(b) \cup {r}
           /\ AllRecords(fs, Append(b, r)) = AllRecords(fs, b) \cup {r}
           /\ InOrderOf(fs, b) => InOrderOf(fs, Append(b, r))
<1> DEFINE c == Append(b, r)
           o == <<r>>
<1>1. o \in Seq(Records) /\ c = b \o o /\ Len(o) = 1 /\ o[1] = r /\ Len(c) = Len(b) + 1
  BY AppendIsConcat
<1>2. DOMAIN o = {1}
  BY <1>1, LenProperties
<1>3. RecordsOf(o) = {r}
  BY <1>1, <1>2 DEF RecordsOf
<1>4. Ascending(o)
  BY <1>2 DEF Ascending
<1> HIDE DEF o, c
<1>5. \A q \in RecordsOf(b) : q < r
  BY DEF AllRecords
<1>6. /\ c \in Seq(Records) /\ RecordsOf(c) = RecordsOf(b) \cup {r}
      /\ Ascending(b) => Ascending(c)
  BY <1>1, <1>3, <1>4, <1>5, RecordsConcat
<1>7. AllRecords(fs, c) = AllRecords(fs, b) \cup {r}
  BY <1>6 DEF AllRecords
<1>8. \A g \in DOMAIN fs : \A q \in RecordsOf(fs[g]) : q < r
  BY DEF AllRecords
<1>9. ASSUME InOrderOf(fs, b) PROVE InOrderOf(fs, c)
  BY <1>6, <1>8, <1>9 DEF InOrderOf
<1> QED BY <1>1, <1>6, <1>7, <1>9 DEF c

\* Files are removed.
LEMMA WithoutKeeps ==
    ASSUME NEW fs, Directory(fs), NEW gone, NEW b
    PROVE  LET d == Without(fs, gone) IN
           /\ Directory(d) /\ DOMAIN d = DOMAIN fs \ gone
           /\ \A g \in DOMAIN d : d[g] = fs[g]
           /\ AllRecords(fs, b) \subseteq AllRecords(d, <<>>) \cup RecordsOf(b)
                                            \cup UNION {RecordsOf(fs[g]) : g \in gone}
           /\ AllRecords(d, <<>>) \subseteq AllRecords(fs, b)
           /\ InOrderOf(fs, b) => InOrderOf(d, <<>>)
<1> DEFINE d == Without(fs, gone)
<1>1. DOMAIN d = DOMAIN fs \ gone /\ \A g \in DOMAIN d : d[g] = fs[g]
  BY DEF Without
<1> HIDE DEF d
<1>2. DOMAIN <<>> = {} /\ RecordsOf(<<>>) = {} /\ Ascending(<<>>)
  BY DEF RecordsOf, Ascending
<1>3. Directory(d)
  BY <1>1 DEF Directory
<1>4. ASSUME NEW r \in AllRecords(fs, b)
      PROVE  r \in AllRecords(d, <<>>) \cup RecordsOf(b) \cup UNION {RecordsOf(fs[g]) : g \in gone}
  <2>1. ASSUME NEW g \in DOMAIN fs, r \in RecordsOf(fs[g])
        PROVE  r \in AllRecords(d, <<>>) \cup UNION {RecordsOf(fs[h]) : h \in gone}
    BY <1>1, <2>1 DEF AllRecords
  <2> QED BY <2>1 DEF AllRecords
<1>5. ASSUME NEW r \in AllRecords(d, <<>>) PROVE r \in AllRecords(fs, b)
  BY <1>1, <1>2 DEF AllRecords
<1>6. ASSUME InOrderOf(fs, b) PROVE InOrderOf(d, <<>>)
  BY <1>1, <1>2, <1>6 DEF InOrderOf
<1> QED BY <1>1, <1>3, <1>4, <1>5, <1>6 DEF d

\* A file is opened whose name is later than all there are.
LEMMA WithEmptyKeeps ==
    ASSUME NEW fs, Directory(fs), NEW f \in Names
    PROVE  LET d == WithEmpty(fs, f) IN
           /\ Directory(d) /\ DOMAIN d = DOMAIN fs \cup {f}
           /\ \A g \in DOMAIN fs : g # f => d[g] = fs[g]
           /\ AllRecords(d, <<>>) \subseteq AllRecords(fs, <<>>)
           /\ (\A g \in DOMAIN fs : Before(g, f)) =>
                 /\ f \notin DOMAIN fs
                 /\ AllRecords(fs, <<>>) \subseteq AllRecords(d, <<>>)
                 /\ Latest(d, f)
                 /\ InOrderOf(fs, <<>>) => InOrderOf(d, <<>>)
<1> DEFINE d == WithEmpty(fs, f)
<1>1. /\ DOMAIN d = DOMAIN fs \cup {f} /\ d[f] = <<>>
      /\ \A g \in DOMAIN fs : g # f => d[g] = fs[g]
  BY DEF WithEmpty
<1> HIDE DEF d
<1>2. /\ DOMAIN <<>> = {} /\ RecordsOf(<<>>) = {} /\ Ascending(<<>>)
      /\ <<>> \in Seq(Records)
  BY DEF RecordsOf, Ascending
<1>3. Directory(d)
  BY <1>1, <1>2 DEF Directory
<1>4. ASSUME NEW r \in AllRecords(d, <<>>) PROVE r \in AllRecords(fs, <<>>)
  <2>1. PICK g \in DOMAIN d : r \in RecordsOf(d[g])
    BY <1>2 DEF AllRecords
  <2>2. g # f
    BY <1>1, <1>2, <2>1
  <2> QED BY <1>1, <2>1, <2>2 DEF AllRecords
<1>5. ASSUME \A g \in DOMAIN fs : Before(g, f)
      PROVE  /\ f \notin DOMAIN fs
             /\ AllRecords(fs, <<>>) \subseteq AllRecords(d, <<>>)
             /\ Latest(d, f)
             /\ InOrderOf(fs, <<>>) => InOrderOf(d, <<>>)
  <2>1. f \notin DOMAIN fs
    BY <1>5, BeforeIsStrict
  <2>2. AllRecords(fs, <<>>) \subseteq AllRecords(d, <<>>)
    BY <1>1, <2>1 DEF AllRecords
  <2>3. Latest(d, f)
    BY <1>1, <1>5 DEF Latest
  <2>4. ASSUME InOrderOf(fs, <<>>) PROVE InOrderOf(d, <<>>)
    <3>1. \A g \in DOMAIN d : Ascending(d[g])
      BY <1>1, <1>2, <2>1, <2>4 DEF InOrderOf
    <3>2. ASSUME NEW g \in DOMAIN d, NEW h \in DOMAIN d, Before(g, h),
                 NEW r \in RecordsOf(d[g]), NEW q \in RecordsOf(d[h])
          PROVE  r < q
      <4>1. g \in DOMAIN fs /\ h \in DOMAIN fs /\ g # f /\ h # f
        BY <1>1, <1>2, <3>2
      <4> QED BY <1>1, <2>4, <3>2, <4>1 DEF InOrderOf
    <3> QED BY <1>2, <3>1, <3>2 DEF InOrderOf
  <2> QED BY <2>1, <2>2, <2>3, <2>4
<1> QED BY <1>1, <1>3, <1>4, <1>5 DEF d

-----------------------------------------------------------------------------
(* The log files: the inductive invariant.                                 *)

\* Every record there is was logged.
Known == AllRecords(files, buffer) \subseteq 1 .. logged /\ accepted \subseteq 1 .. logged

\* No file has a name that is still to come.
NamesInTime ==
    ~reused => \A f \in DOMAIN files :
                  f[1] <= now /\ (running /\ f[1] = now => f[2] <= seq)

OpenIsLatest == isOpen /\ ~reused => Latest(files, name)

LogIInv ==
    /\ LogTypeOK /\ seq <= logged
    /\ ~isOpen => buffer = <<>>
    /\ isOpen => running
    /\ Known /\ NamesInTime /\ OpenIsLatest
    /\ InOrder /\ NothingVanishes

LEMMA LogInvFacts ==
    ASSUME LogIInv
    PROVE  /\ Directory(files) /\ buffer \in Seq(Records) /\ Len(buffer) \in Nat
           /\ logged \in Nat /\ logged <= MaxRecords /\ seq \in Nat /\ now \in Nat
           /\ ~reused => /\ InOrderOf(files, buffer)
                         /\ accepted \ excused \subseteq AllRecords(files, buffer)
<1>1. Directory(files) /\ buffer \in Seq(Records)
  BY DEF LogIInv, LogTypeOK, Directory
<1>2. Len(buffer) \in Nat
  BY <1>1, LenProperties
<1>3. logged \in Nat /\ logged <= MaxRecords /\ seq \in Nat /\ now \in Nat
  BY LogFacts DEF LogIInv, LogTypeOK, Times
<1>4. ASSUME ~reused
      PROVE  /\ InOrderOf(files, buffer)
             /\ accepted \ excused \subseteq AllRecords(files, buffer)
  <2>1. InOrderOf(files, buffer)
    BY <1>4 DEF LogIInv, InOrder, InOrderOf
  <2>2. accepted \ excused \subseteq AllRecords(files, buffer)
    BY <1>4 DEF LogIInv, NothingVanishes, AllRecords
  <2> QED BY <2>1, <2>2
<1> QED BY <1>1, <1>2, <1>3, <1>4

\* The directory and the buffer a step leaves.
LEMMA LogInvFrom ==
    ASSUME Directory(files'), buffer' \in Seq(Records), now' \in Times,
           running' \in BOOLEAN, isOpen' \in BOOLEAN, good' \in BOOLEAN, reused' \in BOOLEAN,
           name' \in Names, lines' \in 0 .. MaxLines - 1, seq' \in 0 .. MaxRecords,
           logged' \in 0 .. MaxRecords, accepted' \subseteq 1 .. logged',
           excused' \subseteq Records, seq' <= logged',
           ~isOpen' => buffer' = <<>>, isOpen' => running',
           AllRecords(files', buffer') \subseteq 1 .. logged',
           NamesInTime', OpenIsLatest',
           ~reused' => InOrderOf(files', buffer'),
           ~reused' => accepted' \ excused' \subseteq AllRecords(files', buffer')
    PROVE  LogIInv'
<1>1. accepted' \subseteq Records
  BY LogFacts DEF Records
<1>2. LogTypeOK'
  BY <1>1 DEF LogTypeOK, Directory
<1>3. InOrder'
  <2> SUFFICES ASSUME ~reused' PROVE InOrder'
    BY DEF InOrder
  <2>1. \A f, g \in DOMAIN files' :
           Before(f, g) \/ (SortsBefore(f, g) /\ ~OutgrowsWidth(f, g)) =>
              \A r \in RecordsOf(files'[f]), q \in RecordsOf(files'[g]) : r < q
    BY InOrderIs
  <2> QED BY <2>1 DEF InOrder, InOrderOf
<1>4. NothingVanishes'
  BY DEF NothingVanishes, AllRecords
<1> QED BY <1>2, <1>3, <1>4 DEF LogIInv, Known

\* A sequence that is a prefix of its continuation.
LEMMA PrefixOfConcat ==
    ASSUME NEW s \in Seq(Records), NEW t \in Seq(Records)
    PROVE  IsPrefix(s, s \o t)
<1>1. /\ Len(s) \in Nat /\ Len(t) \in Nat /\ s \o t \in Seq(Records)
      /\ Len(s \o t) = Len(s) + Len(t)
  BY ConcatProperties, LenProperties
<1>2. SubSeq(s, 1, Len(s)) = s /\ SubSeq(s \o t, 1, Len(s)) = s
  BY SubSeqFull, SubSeqOfConcat1
<1> QED BY <1>1, <1>2 DEF IsPrefix

\* put() to an open stream, whether it was open before or has been opened in
\* a directory fs that has nothing after the file f.
LEMMA PutOpenKeeps ==
    ASSUME LogIInv, running, logged < MaxRecords, logged' = logged + 1,
           UNCHANGED <<now, running, reused>>,
           NEW fs, NEW f \in Names, NEW n \in 0 .. MaxRecords, NEW isGood \in BOOLEAN,
           PutOpen(logged', fs, f, n, isGood),
           Directory(fs), n <= logged + 1, AllRecords(fs, buffer) \subseteq 1 .. logged,
           ~reused => /\ InOrderOf(fs, buffer) /\ Latest(fs, f)
                      /\ accepted \ excused \subseteq AllRecords(fs, buffer)
                      /\ \A g \in DOMAIN fs : g[1] <= now /\ (g[1] = now => g[2] <= n)
    PROVE  /\ LogIInv'
           /\ \A g \in DOMAIN fs : g[1] >= now - MaxDays =>
                 g \in DOMAIN files' /\ IsPrefix(fs[g], files'[g])
<1> DEFINE r == logged'
           count == IF isGood THEN lines + 1 ELSE lines
           B(fits) == IF isGood /\ fits THEN Append(buffer, r) ELSE buffer
           missed(fits) == IF isGood /\ ~fits THEN {r} ELSE {}
<1>1. name' = f /\ seq' = n /\ accepted' = IF isGood THEN accepted \cup {r} ELSE accepted
  BY DEF PutOpen
<1>2. PICK fits \in BOOLEAN, k \in 0 .. Len(buffer) + 1 :
        /\ k <= Len(B(fits))
        /\ isGood \/ fits
        /\ \/ /\ ~Full(count)
              /\ (~isGood \/ ~fits) => k = 0
              /\ isOpen' = TRUE /\ lines' = count /\ good' = (isGood /\ fits)
              /\ buffer' = SubSeq(B(fits), k + 1, Len(B(fits)))
              /\ files' = Flushed(fs, f, B(fits), k)
              /\ excused' = excused \cup missed(fits)
           \/ /\ Full(count)
              /\ isOpen' = FALSE /\ lines' = 0 /\ good' = FALSE
              /\ buffer' = <<>>
              /\ files' = Without(Flushed(fs, f, B(fits), k), OldFiles(Flushed(fs, f, B(fits), k)))
              /\ excused' = excused \cup missed(fits)
                   \cup RecordsOf(SubSeq(B(fits), k + 1, Len(B(fits))))
                   \cup UNION {RecordsOf(Flushed(fs, f, B(fits), k)[g]) :
                                  g \in OldFiles(Flushed(fs, f, B(fits), k))}
  BY Zenon DEF PutOpen
<1> DEFINE b == B(fits)
           c == SubSeq(b, k + 1, Len(b))
           d == Flushed(fs, f, b, k)
           lost == missed(fits)
<1>3. /\ buffer \in Seq(Records) /\ logged \in Nat /\ r \in Records /\ r \in 1 .. logged'
      /\ r = logged' /\ logged' \in 0 .. MaxRecords /\ 1 .. logged \subseteq 1 .. logged'
      /\ \A q \in AllRecords(fs, buffer) : q < r
  BY LogInvFacts, LogFacts DEF Records
<1>4. /\ b \in Seq(Records)
      /\ AllRecords(fs, buffer) \subseteq AllRecords(fs, b)
      /\ AllRecords(fs, b) \subseteq 1 .. logged'
      /\ isGood /\ r \notin lost => r \in AllRecords(fs, b)
      /\ InOrderOf(fs, buffer) => InOrderOf(fs, b)
  <2>1. /\ Append(buffer, r) \in Seq(Records)
        /\ AllRecords(fs, Append(buffer, r)) = AllRecords(fs, buffer) \cup {r}
        /\ InOrderOf(fs, buffer) => InOrderOf(fs, Append(buffer, r))
    BY <1>3, AppendedKeeps
  <2> HIDE DEF r
  <2> QED BY <1>3, <2>1
<1> HIDE DEF r, b
<1>5. k \in 0 .. Len(b)
  <2>1. Len(b) \in Nat /\ k <= Len(b) /\ k \in Nat
    BY <1>2, <1>4, LogInvFacts, LenProperties DEF b
  <2> QED BY <2>1
<1>6. c \in Seq(Records) /\ RecordsOf(c) \subseteq RecordsOf(b) /\ RecordsOf(b) \subseteq Records
  BY <1>4, <1>5, RecordsSplit, RecordsAre
<1> HIDE DEF c
<1>7. /\ Directory(d) /\ DOMAIN d = DOMAIN fs
      /\ \A g \in DOMAIN fs : IsPrefix(fs[g], d[g])
  <2>1. CASE f \in DOMAIN fs
    <3>1. SubSeq(b, 1, k) \in Seq(Records) /\ fs[f] \in Seq(Records)
      BY <1>4, <1>5, <2>1, RecordsSplit DEF Directory
    <3>2. fs[f] \o SubSeq(b, 1, k) \in Seq(Records) /\ IsPrefix(fs[f], fs[f] \o SubSeq(b, 1, k))
      BY <3>1, PrefixOfConcat, RecordsConcat
    <3>3. d = [fs EXCEPT ![f] = fs[f] \o SubSeq(b, 1, k)]
      BY <2>1 DEF Flushed
    <3>4. ASSUME NEW g \in DOMAIN fs, g # f PROVE IsPrefix(fs[g], fs[g])
      <4>1. fs[g] \in Seq(Records)
        BY DEF Directory
      <4> QED BY <4>1 DEF IsPrefix
    <3> HIDE DEF d
    <3> QED BY <2>1, <3>2, <3>3, <3>4 DEF Directory
  <2>2. CASE f \notin DOMAIN fs
    <3>1. d = fs
      BY <2>2 DEF Flushed
    <3>2. ASSUME NEW g \in DOMAIN fs PROVE IsPrefix(fs[g], fs[g])
      <4>1. fs[g] \in Seq(Records)
        BY DEF Directory
      <4> QED BY <4>1 DEF IsPrefix
    <3> QED BY <3>1, <3>2
  <2> QED BY <2>1, <2>2
<1>8. /\ AllRecords(d, c) \subseteq 1 .. logged'
      /\ ~reused => /\ InOrderOf(d, c) /\ Latest(d, f)
                    /\ AllRecords(fs, b) \subseteq AllRecords(d, c)
  <2>1. CASE f \in DOMAIN fs
    <3>1. /\ AllRecords(d, c) = AllRecords(fs, b)
          /\ InOrderOf(fs, b) /\ Latest(fs, f) => InOrderOf(d, c)
      BY <1>4, <1>5, <2>1, FlushedKeeps DEF c
    <3> HIDE DEF d
    <3> QED BY <1>4, <1>7, <3>1 DEF Latest
  <2>2. CASE f \notin DOMAIN fs
    <3>1. d = fs /\ reused
      BY <2>2 DEF Flushed, Latest
    <3>2. AllRecords(fs, c) \subseteq AllRecords(fs, b)
      BY <1>6 DEF AllRecords
    <3> HIDE DEF d
    <3> QED BY <1>4, <3>1, <3>2
  <2> QED BY <2>1, <2>2
<1>9. ASSUME ~reused
      PROVE  \A g \in DOMAIN d : g[1] <= now /\ (g[1] = now => g[2] <= n)
  BY <1>7, <1>9
<1>10. accepted' \subseteq 1 .. logged'
  BY <1>1, <1>3 DEF LogIInv, Known
<1>11. ASSUME ~reused
       PROVE  accepted' \ (excused \cup lost) \subseteq AllRecords(fs, b)
  BY <1>1, <1>4, <1>11
<1>12. /\ now' \in Times /\ running' /\ reused' \in BOOLEAN /\ name' \in Names
       /\ seq' \in 0 .. MaxRecords /\ seq' <= logged' /\ running' \in BOOLEAN
  BY <1>1 DEF LogIInv, LogTypeOK
<1>13. lines \in Nat /\ lines <= MaxLines - 1 /\ MaxLines \in Nat \ {0}
  BY LogFacts DEF LogIInv, LogTypeOK
<1>14. excused \subseteq Records /\ lost \subseteq Records
  BY <1>3 DEF LogIInv, LogTypeOK, r
<1> DEFINE old == OldFiles(d)
<1>15. \/ /\ ~Full(count)
          /\ isOpen' = TRUE /\ lines' = count /\ good' = (isGood /\ fits)
          /\ buffer' = c /\ files' = d /\ excused' = excused \cup lost
       \/ /\ Full(count)
          /\ isOpen' = FALSE /\ lines' = 0 /\ good' = FALSE
          /\ buffer' = <<>> /\ files' = Without(d, old)
          /\ excused' = excused \cup lost \cup RecordsOf(c) \cup UNION {RecordsOf(d[g]) : g \in old}
  BY <1>2 DEF b, c, r
<1>16. old \subseteq DOMAIN d /\ \A g \in old : g[1] < now - MaxDays
  BY DEF OldFiles
<1> HIDE DEF d, lost, old
<1>17. CASE /\ ~Full(count)
            /\ isOpen' = TRUE /\ lines' = count /\ good' = (isGood /\ fits)
            /\ buffer' = c /\ files' = d /\ excused' = excused \cup lost
  <2>1. lines' \in 0 .. MaxLines - 1
    BY <1>13, <1>17 DEF Full
  <2>2. NamesInTime' /\ OpenIsLatest'
    BY <1>1, <1>8, <1>9, <1>12, <1>17 DEF NamesInTime, OpenIsLatest, Latest
  <2>3. ~reused' => accepted' \ excused' \subseteq AllRecords(files', buffer')
    BY <1>8, <1>11, <1>17
  <2>4. LogIInv'
    BY <1>3, <1>6, <1>7, <1>8, <1>10, <1>12, <1>14, <1>17, <2>1, <2>2, <2>3, LogInvFrom
  <2> QED BY <1>7, <1>17, <2>4
<1>18. CASE /\ Full(count)
            /\ isOpen' = FALSE /\ lines' = 0 /\ good' = FALSE
            /\ buffer' = <<>> /\ files' = Without(d, old)
            /\ excused' = excused \cup lost \cup RecordsOf(c) \cup UNION {RecordsOf(d[g]) : g \in old}
  <2> DEFINE w == Without(d, old)
  <2>1. /\ Directory(w) /\ DOMAIN w = DOMAIN d \ old
        /\ \A g \in DOMAIN w : w[g] = d[g]
        /\ AllRecords(d, c) \subseteq AllRecords(w, <<>>) \cup RecordsOf(c)
                                         \cup UNION {RecordsOf(d[g]) : g \in old}
        /\ AllRecords(w, <<>>) \subseteq AllRecords(d, c)
        /\ InOrderOf(d, c) => InOrderOf(w, <<>>)
    BY <1>7, WithoutKeeps
  <2> HIDE DEF w
  <2>2. files' = w
    BY <1>18 DEF w
  <2>3. lines' \in 0 .. MaxLines - 1
    BY <1>13, <1>18
  <2>4. NamesInTime' /\ OpenIsLatest'
    BY <1>1, <1>9, <1>12, <1>18, <2>1, <2>2 DEF NamesInTime, OpenIsLatest
  <2>5. ~reused' => accepted' \ excused' \subseteq AllRecords(files', buffer')
    BY <1>8, <1>11, <1>18, <2>1, <2>2
  <2>6. UNION {RecordsOf(d[g]) : g \in old} \subseteq Records
    <3>1. \A g \in old : d[g] \in Seq(Records)
      BY <1>7, <1>16 DEF Directory
    <3> QED BY <3>1, RecordsAre
  <2>7. excused' \subseteq Records
    BY <1>6, <1>14, <1>18, <2>6
  <2>8. <<>> \in Seq(Records)
    OBVIOUS
  <2>9. LogIInv'
    BY <1>3, <1>8, <1>10, <1>12, <1>18, <2>1, <2>2, <2>3, <2>4, <2>5, <2>7, <2>8, LogInvFrom
  <2>10. ASSUME NEW g \in DOMAIN fs, g[1] >= now - MaxDays
         PROVE  g \in DOMAIN files' /\ IsPrefix(fs[g], files'[g])
    <3>1. g \in Names
      BY DEF Directory
    <3>2. g[1] \in Nat /\ now \in Nat /\ MaxDays \in Nat
      BY <3>1, LogFacts, LogInvFacts DEF Names, Times
    <3>3. g \notin old
      BY <1>16, <2>10, <3>2
    <3> QED BY <1>7, <2>1, <2>2, <3>3
  <2> QED BY <2>9, <2>10
<1> QED BY <1>15, <1>17, <1>18

\* A step that leaves the directory and the stream's buffer as they are.
LEMMA SameFilesKeep ==
    ASSUME LogIInv, UNCHANGED <<files, buffer, name, accepted, excused>>,
           now' \in Times, now <= now', running' \in BOOLEAN, isOpen' \in BOOLEAN,
           good' \in BOOLEAN, lines' \in 0 .. MaxLines - 1, seq' \in 0 .. MaxRecords,
           logged' \in 0 .. MaxRecords, logged <= logged', seq' <= logged',
           ~isOpen' => buffer' = <<>>, isOpen' => running' /\ isOpen,
           reused' \in BOOLEAN, reused => reused', NamesInTime'
    PROVE  LogIInv'
<1>1. accepted' \subseteq 1 .. logged' /\ AllRecords(files', buffer') \subseteq 1 .. logged'
  <2>1. 1 .. logged \subseteq 1 .. logged'
    BY LogInvFacts
  <2> QED BY <2>1 DEF LogIInv, Known, AllRecords
<1>2. OpenIsLatest'
  BY DEF LogIInv, OpenIsLatest, Latest
<1>3. /\ Directory(files') /\ buffer' \in Seq(Records)
      /\ ~reused' => /\ InOrderOf(files', buffer')
                     /\ accepted' \ excused' \subseteq AllRecords(files', buffer')
  BY LogInvFacts
<1>4. name' \in Names /\ excused' \subseteq Records
  BY DEF LogIInv, LogTypeOK
<1> QED BY <1>1, <1>2, <1>3, <1>4, LogInvFrom

LEMMA InitLogIInv == ASSUME LogInit PROVE LogIInv
<1>1. LogTypeOK
  <2>1. 0 \in Times /\ 0 \in 0 .. MaxRecords /\ 0 \in 0 .. MaxLines - 1
    BY LogFacts DEF Times
  <2>2. <<>> \in Seq(Records) /\ <<0, 0>> \in Names
    BY <2>1 DEF Names
  <2> QED BY <2>1, <2>2 DEF LogInit, LogTypeOK
<1>2. DOMAIN files = {} /\ buffer = <<>> /\ RecordsOf(buffer) = {} /\ Ascending(buffer)
  BY DEF LogInit, RecordsOf, Ascending
<1>3. Known
  BY <1>2 DEF LogInit, Known, AllRecords
<1>4. NamesInTime /\ OpenIsLatest /\ InOrder /\ NothingVanishes
  BY <1>2 DEF LogInit, NamesInTime, OpenIsLatest, InOrder, NothingVanishes
<1> QED BY <1>1, <1>2, <1>3, <1>4 DEF LogIInv, LogInit

LEMMA TickKeeps == ASSUME LogIInv, Tick PROVE LogIInv'
<1>1. now' = now + 1 /\ now' \in Times /\ now <= now' /\ now \in Nat
  BY LogFacts, LogInvFacts DEF Tick, Times
<1>2. NamesInTime'
  <2>1. ASSUME ~reused, NEW g \in DOMAIN files
        PROVE  g[1] <= now' /\ g[1] # now'
    <3>1. g[1] \in Nat
      BY LogInvFacts DEF Directory, Names, Times
    <3>2. g[1] <= now
      BY <2>1 DEF LogIInv, NamesInTime
    <3> QED BY <1>1, <3>1, <3>2
  <2> QED BY <2>1 DEF Tick, NamesInTime
<1> QED BY <1>1, <1>2, LogInvFacts, SameFilesKeep DEF Tick, streamVars, LogIInv, LogTypeOK

\* A process that starts in a second of which there is a file has started too soon.
LEMMA StartKeeps == ASSUME LogIInv, Start PROVE LogIInv'
<1>1. NamesInTime'
  BY DEF LogIInv, NamesInTime, Start
<1>2. seq' = 0 /\ 0 \in 0 .. MaxRecords /\ lines' = 0 /\ 0 \in 0 .. MaxLines - 1 /\ seq' <= logged'
  BY LogFacts, LogInvFacts DEF Start
<1>3. reused' \in BOOLEAN /\ (reused => reused')
  BY DEF Start, LogIInv, LogTypeOK
<1>4. buffer = <<>>
  BY DEF Start, LogIInv
<1>5. now' \in Times /\ now <= now' /\ logged' \in 0 .. MaxRecords /\ logged <= logged'
  BY LogInvFacts DEF Start, LogIInv, LogTypeOK
<1>6. running' \in BOOLEAN /\ isOpen' = FALSE /\ isOpen' \in BOOLEAN /\ good' \in BOOLEAN
  BY DEF Start
<1>7. UNCHANGED <<files, buffer, name, accepted, excused>>
  BY DEF Start
<1> QED BY <1>1, <1>2, <1>3, <1>4, <1>5, <1>6, <1>7, SameFilesKeep

\* The name of the next file is later than that of any there is.
LEMMA NextNameIsLatest ==
    ASSUME LogIInv, running, logged < MaxRecords
    PROVE  /\ NextName \in Names /\ seq + 1 \in 0 .. MaxRecords /\ seq + 1 <= logged + 1
           /\ ~reused => \A g \in DOMAIN files : Before(g, NextName)
<1>1. seq + 1 \in 0 .. MaxRecords /\ seq + 1 <= logged + 1 /\ now \in Times
  BY LogFacts, LogInvFacts DEF LogIInv, LogTypeOK
<1>2. NextName \in Names
  BY <1>1 DEF NextName, Names
<1>3. ASSUME ~reused, NEW g \in DOMAIN files PROVE Before(g, NextName)
  <2>1. g[1] <= now /\ (g[1] = now => g[2] <= seq)
    BY <1>3 DEF LogIInv, NamesInTime
  <2>2. g[1] \in Nat /\ g[2] \in Nat
    BY LogInvFacts DEF Directory, Names, Times
  <2>3. NextName[1] = now /\ NextName[2] = seq + 1
    BY DEF NextName
  <2> QED BY <2>1, <2>2, <2>3, LogInvFacts DEF Before
<1> QED BY <1>1, <1>2, <1>3

\* What every step of put() does to the files: they stay, but for old ones, and
\* keep what is in them at their front.
YoungKept(fs, gs) ==
    \A f \in DOMAIN fs : f[1] >= now - MaxDays =>
        f \in DOMAIN gs /\ IsPrefix(fs[f], gs[f])

LEMMA SameIsKept == ASSUME NEW fs, Directory(fs) PROVE YoungKept(fs, fs)
<1>1. ASSUME NEW f \in DOMAIN fs PROVE IsPrefix(fs[f], fs[f])
  <2>1. fs[f] \in Seq(Records)
    BY DEF Directory
  <2> QED BY <2>1 DEF IsPrefix
<1> QED BY <1>1 DEF YoungKept

LEMMA PutKeeps ==
    ASSUME LogIInv, Put
    PROVE  LogIInv' /\ (~reused' => YoungKept(files, files'))
<1>1. /\ running /\ logged < MaxRecords /\ logged' = logged + 1
      /\ UNCHANGED <<now, running, reused>>
  BY DEF Put
<1>2. CASE isOpen /\ PutOpen(logged', files, name, seq, good)
  <2>1. /\ name \in Names /\ seq \in 0 .. MaxRecords /\ good \in BOOLEAN /\ seq <= logged + 1
        /\ AllRecords(files, buffer) \subseteq 1 .. logged
    BY LogInvFacts DEF LogIInv, LogTypeOK, Known
  <2>2. ~reused => /\ Latest(files, name)
                   /\ \A g \in DOMAIN files : g[1] <= now /\ (g[1] = now => g[2] <= seq)
    BY <1>1, <1>2 DEF LogIInv, OpenIsLatest, NamesInTime
  <2> QED BY <1>1, <1>2, <2>1, <2>2, LogInvFacts, PutOpenKeeps DEF YoungKept
<1>3. CASE ~isOpen /\ PutOpen(logged', WithEmpty(files, NextName), NextName, seq + 1, TRUE)
  <2> DEFINE f == NextName
             d == WithEmpty(files, f)
  <2>1. buffer = <<>>
    BY <1>3 DEF LogIInv
  <2>2. /\ f \in Names /\ seq + 1 \in 0 .. MaxRecords /\ seq + 1 <= logged + 1
        /\ ~reused => \A g \in DOMAIN files : Before(g, f)
    BY <1>1, NextNameIsLatest
  <2>3. f[1] = now /\ f[2] = seq + 1
    BY DEF NextName
  <2> HIDE DEF f
  <2>4. /\ Directory(d) /\ DOMAIN d = DOMAIN files \cup {f}
        /\ \A g \in DOMAIN files : g # f => d[g] = files[g]
        /\ AllRecords(d, <<>>) \subseteq AllRecords(files, <<>>)
        /\ (\A g \in DOMAIN files : Before(g, f)) =>
              /\ f \notin DOMAIN files
              /\ AllRecords(files, <<>>) \subseteq AllRecords(d, <<>>)
              /\ Latest(d, f)
              /\ InOrderOf(files, <<>>) => InOrderOf(d, <<>>)
    BY <2>2, LogInvFacts, WithEmptyKeeps
  <2>5. PutOpen(logged', d, f, seq + 1, TRUE)
    BY <1>3 DEF f
  <2> HIDE DEF d
  <2>6. AllRecords(d, buffer) \subseteq 1 .. logged
    BY <2>1, <2>4 DEF LogIInv, Known
  <2>7. ~reused => /\ InOrderOf(d, buffer) /\ Latest(d, f)
                   /\ accepted \ excused \subseteq AllRecords(d, buffer)
    BY <2>1, <2>2, <2>4, LogInvFacts
  <2>8. ASSUME ~reused, NEW g \in DOMAIN d
        PROVE  g[1] <= now /\ (g[1] = now => g[2] <= seq + 1)
    <3>1. CASE g = f
      BY <2>3, <3>1, LogInvFacts
    <3>2. CASE g \in DOMAIN files
      <4>1. g[1] <= now /\ (g[1] = now => g[2] <= seq)
        BY <1>1, <2>8, <3>2 DEF LogIInv, NamesInTime
      <4>2. g[2] \in Nat
        BY <3>2, LogInvFacts, LogFacts DEF Directory, Names
      <4> QED BY <4>1, <4>2, LogInvFacts
    <3> QED BY <2>4, <3>1, <3>2
  <2>9. /\ LogIInv'
        /\ \A g \in DOMAIN d : g[1] >= now - MaxDays =>
              g \in DOMAIN files' /\ IsPrefix(d[g], files'[g])
    BY <1>1, <2>2, <2>4, <2>5, <2>6, <2>7, <2>8, PutOpenKeeps
  <2>10. ASSUME ~reused, NEW g \in DOMAIN files
         PROVE  g \in DOMAIN d /\ d[g] = files[g]
    BY <2>2, <2>4, <2>10
  <2> QED BY <1>1, <2>9, <2>10 DEF YoungKept
<1>4. CASE /\ ~isOpen /\ seq' = seq + 1
           /\ UNCHANGED <<isOpen, good, name, lines, buffer, files, accepted, excused>>
  <2>1. /\ now' \in Times /\ running' \in BOOLEAN /\ isOpen' \in BOOLEAN /\ ~isOpen'
        /\ lines' \in 0 .. MaxLines - 1 /\ good' \in BOOLEAN /\ reused' \in BOOLEAN
    BY <1>1, <1>4 DEF LogIInv, LogTypeOK
  <2>5. now <= now' /\ logged' \in 0 .. MaxRecords /\ logged <= logged'
    BY <1>1, LogFacts, LogInvFacts
  <2>2. seq' \in 0 .. MaxRecords /\ seq' <= logged' /\ buffer' = <<>>
    BY <1>1, <1>4, NextNameIsLatest DEF LogIInv
  <2>3. NamesInTime'
    <3>1. ASSUME ~reused, NEW g \in DOMAIN files
          PROVE  g[1] <= now /\ (g[1] = now => g[2] <= seq + 1)
      <4>1. g[1] <= now /\ (g[1] = now => g[2] <= seq)
        BY <1>1, <3>1 DEF LogIInv, NamesInTime
      <4>2. g[2] \in Nat
        BY LogInvFacts, LogFacts DEF Directory, Names
      <4> QED BY <4>1, <4>2, LogInvFacts
    <3> QED BY <1>1, <1>4, <3>1 DEF NamesInTime
  <2>4. LogIInv'
    BY <1>1, <1>4, <2>1, <2>2, <2>3, <2>5, SameFilesKeep
  <2> QED BY <1>4, <2>4, LogInvFacts, SameIsKept
<1> QED BY <1>2, <1>3, <1>4 DEF Put

\* The process ends, and a part of the buffer, or nothing of it, is written.
LEMMA EndKeeps ==
    ASSUME LogIInv, running, running' = FALSE, isOpen' = FALSE,
           NEW k \in 0 .. Len(buffer),
           files' = Flushed(files, name, buffer, k),
           excused' = excused \cup RecordsOf(SubSeq(buffer, k + 1, Len(buffer))),
           buffer' = <<>>, UNCHANGED <<now, good, name, lines, seq, logged, accepted, reused>>
    PROVE  LogIInv' /\ (~reused' => YoungKept(files, files'))
<1> DEFINE d == Flushed(files, name, buffer, k)
           c == SubSeq(buffer, k + 1, Len(buffer))
<1>1. c \in Seq(Records) /\ RecordsOf(c) \subseteq Records
  BY LogInvFacts, RecordsSplit, RecordsAre
<1>2. RecordsOf(<<>>) = {} /\ Ascending(<<>>) /\ <<>> \in Seq(Records)
  BY DEF RecordsOf, Ascending
<1>3. /\ Directory(d) /\ DOMAIN d = DOMAIN files
      /\ AllRecords(d, <<>>) \subseteq AllRecords(files, buffer)
      /\ ~reused => /\ AllRecords(files, buffer) \subseteq AllRecords(d, <<>>) \cup RecordsOf(c)
                    /\ InOrderOf(d, <<>>) /\ YoungKept(files, d)
  <2>1. CASE isOpen /\ name \in DOMAIN files
    <3>1. /\ AllRecords(d, c) = AllRecords(files, buffer)
          /\ InOrderOf(files, buffer) /\ Latest(files, name) => InOrderOf(d, c)
      BY <2>1, LogInvFacts, FlushedKeeps
    <3>2. /\ SubSeq(buffer, 1, k) \in Seq(Records) /\ files[name] \in Seq(Records)
          /\ d = [files EXCEPT ![name] = files[name] \o SubSeq(buffer, 1, k)]
      BY <2>1, LogInvFacts, RecordsSplit DEF Directory, Flushed
    <3>3. /\ files[name] \o SubSeq(buffer, 1, k) \in Seq(Records)
          /\ IsPrefix(files[name], files[name] \o SubSeq(buffer, 1, k))
      BY <3>2, PrefixOfConcat, RecordsConcat
    <3> HIDE DEF d, c
    <3>4. /\ Directory(d) /\ DOMAIN d = DOMAIN files
          /\ \A g \in DOMAIN files : g # name => d[g] = files[g]
          /\ IsPrefix(files[name], d[name])
      BY <2>1, <3>2, <3>3, LogInvFacts DEF Directory
    <3>5. /\ AllRecords(d, <<>>) \subseteq AllRecords(files, buffer)
          /\ AllRecords(files, buffer) \subseteq AllRecords(d, <<>>) \cup RecordsOf(c)
      BY <1>2, <3>1 DEF AllRecords
    <3>6. ASSUME ~reused PROVE InOrderOf(d, <<>>)
      <4>1. InOrderOf(d, c)
        BY <2>1, <3>1, <3>6, LogInvFacts DEF LogIInv, OpenIsLatest
      <4> QED BY <1>2, <4>1 DEF InOrderOf
    <3>7. YoungKept(files, d)
      <4>1. YoungKept(files, files)
        BY LogInvFacts, SameIsKept
      <4> QED BY <3>4, <4>1 DEF YoungKept
    <3> QED BY <3>4, <3>5, <3>6, <3>7
  <2>2. CASE ~isOpen \/ name \notin DOMAIN files
    <3>1. CASE name \notin DOMAIN files
      <4>1. d = files
        BY <3>1 DEF Flushed
      <4>2. isOpen => reused
        BY <3>1 DEF LogIInv, OpenIsLatest, Latest
      <4>3. ~isOpen => buffer = <<>>
        BY DEF LogIInv
      <4> HIDE DEF d, c
      <4>4. AllRecords(d, <<>>) \subseteq AllRecords(files, buffer)
        BY <1>2, <4>1 DEF AllRecords
      <4> QED BY <4>1, <4>2, <4>3, <4>4, LogInvFacts, SameIsKept
    <3>2. CASE ~isOpen /\ name \in DOMAIN files
      <4>1. buffer = <<>>
        BY <3>2 DEF LogIInv
      <4>2. k = 0 /\ SubSeq(buffer, 1, k) = <<>>
        BY <4>1
      <4>3. files[name] \o <<>> = files[name]
        BY <3>2, LogInvFacts, ConcatEmptySeq DEF Directory
      <4>4. DOMAIN d = DOMAIN files /\ \A g \in DOMAIN d : d[g] = files[g]
        BY <3>2, <4>2, <4>3 DEF Flushed
      <4> HIDE DEF d, c
      <4>5. Directory(d) /\ AllRecords(d, <<>>) = AllRecords(files, buffer)
        BY <4>1, <4>4, LogInvFacts DEF AllRecords, Directory
      <4>6. InOrderOf(files, buffer) => InOrderOf(d, <<>>)
        BY <4>1, <4>4 DEF InOrderOf
      <4>7. YoungKept(files, files)
        BY LogInvFacts, SameIsKept
      <4>8. YoungKept(files, d)
        BY <4>4, <4>7 DEF YoungKept
      <4> QED BY <4>4, <4>5, <4>6, <4>8, LogInvFacts
    <3> QED BY <2>2, <3>1, <3>2
  <2> QED BY <2>1, <2>2
<1> HIDE DEF d, c
<1>4. files' = d /\ excused' = excused \cup RecordsOf(c)
  BY DEF d, c
<1>5. /\ Known /\ accepted' \subseteq 1 .. logged' /\ excused' \subseteq Records
      /\ AllRecords(files', buffer') \subseteq 1 .. logged'
  BY <1>1, <1>3, <1>4 DEF LogIInv, LogTypeOK, Known
<1>6. NamesInTime' /\ OpenIsLatest'
  BY <1>3, <1>4 DEF LogIInv, NamesInTime, OpenIsLatest
<1>7. ~reused' => accepted' \ excused' \subseteq AllRecords(files', buffer')
  BY <1>3, <1>4, LogInvFacts
<1>8. /\ now' \in Times /\ running' \in BOOLEAN /\ isOpen' \in BOOLEAN /\ good' \in BOOLEAN
      /\ reused' \in BOOLEAN /\ name' \in Names /\ lines' \in 0 .. MaxLines - 1
      /\ seq' \in 0 .. MaxRecords /\ logged' \in 0 .. MaxRecords /\ seq' <= logged'
  BY DEF LogIInv, LogTypeOK
<1>9. LogIInv'
  BY <1>2, <1>3, <1>4, <1>5, <1>6, <1>7, <1>8, LogInvFrom
<1> QED BY <1>3, <1>4, <1>9

\* The process dies: the buffer is gone, the files are as they were.
LEMMA CrashKeeps == ASSUME LogIInv, Crash PROVE LogIInv' /\ YoungKept(files, files')
<1>1. RecordsOf(<<>>) = {} /\ Ascending(<<>>) /\ <<>> \in Seq(Records)
  BY DEF RecordsOf, Ascending
<1>2. /\ AllRecords(files, <<>>) \subseteq AllRecords(files, buffer)
      /\ AllRecords(files, buffer) \subseteq AllRecords(files, <<>>) \cup RecordsOf(buffer)
      /\ InOrderOf(files, buffer) => InOrderOf(files, <<>>)
  BY <1>1 DEF AllRecords, InOrderOf
<1>3. RecordsOf(buffer) \subseteq Records
  BY LogInvFacts, RecordsAre
<1>4. /\ accepted' \subseteq 1 .. logged' /\ excused' \subseteq Records
      /\ AllRecords(files', buffer') \subseteq 1 .. logged'
  BY <1>2, <1>3 DEF LogIInv, LogTypeOK, Known, Crash
<1>5. NamesInTime' /\ OpenIsLatest'
  BY DEF LogIInv, NamesInTime, OpenIsLatest, Crash
<1>6. ~reused' => /\ accepted' \ excused' \subseteq AllRecords(files', buffer')
                  /\ InOrderOf(files', buffer')
  BY <1>2, LogInvFacts DEF Crash
<1>7. /\ now' \in Times /\ running' \in BOOLEAN /\ isOpen' = FALSE /\ good' \in BOOLEAN
      /\ reused' \in BOOLEAN /\ name' \in Names /\ lines' \in 0 .. MaxLines - 1
      /\ seq' \in 0 .. MaxRecords /\ logged' \in 0 .. MaxRecords /\ seq' <= logged'
  BY DEF LogIInv, LogTypeOK, Crash
<1>8. Directory(files') /\ buffer' = <<>> /\ files' = files
  BY LogInvFacts DEF Crash
<1>9. LogIInv'
  BY <1>1, <1>4, <1>5, <1>6, <1>7, <1>8, LogInvFrom
<1> QED BY <1>8, <1>9, LogInvFacts, SameIsKept

LEMMA LogStepKeeps ==
    ASSUME LogIInv, [LogNext]_logVars
    PROVE  LogIInv' /\ (~reused' => YoungKept(files, files'))
<1>1. CASE Tick
  BY <1>1, TickKeeps, LogInvFacts, SameIsKept DEF Tick
<1>2. CASE Start
  BY <1>2, StartKeeps, LogInvFacts, SameIsKept DEF Start
<1>3. CASE Put
  BY <1>3, PutKeeps
<1>4. CASE Exit
  BY <1>4, EndKeeps DEF Exit
<1>5. CASE Crash
  BY <1>5, CrashKeeps
<1>6. CASE UNCHANGED logVars
  <2>1. LogIInv'
    BY <1>6 DEF logVars, streamVars, LogIInv, LogTypeOK, Known, AllRecords, NamesInTime,
                OpenIsLatest, InOrder, NothingVanishes
  <2> QED BY <1>6, <2>1, LogInvFacts, SameIsKept DEF logVars
<1> QED BY <1>1, <1>2, <1>3, <1>4, <1>5, <1>6 DEF LogNext

\* In every state the directory can be read back: the records of the files, by
\* the time and number in their names, and then those of the buffer are in the order
\* they were logged, for every number of lines, days and records; so are they as
\* the names sort, but where one of a second has more digits than another.
THEOREM LogFilesSound == LogSpec => []LogSound
<1>1. LogInit => LogIInv
  BY InitLogIInv
<1>2. LogIInv /\ [LogNext]_logVars => LogIInv'
  BY LogStepKeeps
<1>3. LogIInv => LogSound
  BY DEF LogIInv, LogSound
<1> QED BY <1>1, <1>2, <1>3, PTL DEF LogSpec

\* No record that a good stream took disappears but by a crash, a write that
\* failed, or the age of its file.
THEOREM NothingVanishesAlways == LogSpec => []NothingVanishes
<1>1. LogInit => LogIInv
  BY InitLogIInv
<1>2. LogIInv /\ [LogNext]_logVars => LogIInv'
  BY LogStepKeeps
<1>3. LogIInv => NothingVanishes
  BY DEF LogIInv
<1> QED BY <1>1, <1>2, <1>3, PTL DEF LogSpec

\* No step removes a file that is young enough, or changes what was in it.
THEOREM YoungFilesKeptAlways == LogSpec => YoungFilesKept
<1>1. LogInit => LogIInv
  BY InitLogIInv
<1>2. LogIInv /\ [LogNext]_logVars => LogIInv'
  BY LogStepKeeps
<1>3. LogIInv /\ [LogNext]_logVars =>
        [~reused' => \A f \in DOMAIN files : f[1] >= now - MaxDays =>
                        f \in DOMAIN files' /\ IsPrefix(files[f], files'[f])]_logVars
  BY LogStepKeeps DEF YoungKept
<1> QED BY <1>1, <1>2, <1>3, PTL DEF LogSpec, YoungFilesKept
=============================================================================
