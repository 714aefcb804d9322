----------------------------- MODULE MysqlStore -----------------------------
(***************************************************************************)
(* The MySQL repository (server/src/persistence/mysql-store.ts) between    *)
(* server processes that may overlap, and the database.  Every save and    *)
(* removal is a transaction of several statements; transactions of         *)
(* different Rooms and processes interleave; any of them may fail, time    *)
(* out or lose the answer of its COMMIT at any point, and an abandoned     *)
(* transaction ends in the database when the database decides.             *)
(*                                                                         *)
(* Of the database only what the statements rely on is modelled: a write   *)
(* locks its row until the transaction ends and sees the newest committed  *)
(* row, COUNT sees the committed rows, COMMIT is atomic.                   *)
(***************************************************************************)
EXTENDS Naturals, FiniteSets

CONSTANTS
    Stores,      \* MysqlStore instances, one per server process
    Codes,       \* Room codes
    None,        \* undefined
    MaxRooms,    \* MAX_ROOMS
    PoolSize,    \* connectionLimit
    MaxWrites    \* bound: saves begun

ASSUME StoreConstants ==
    /\ \A payload \in SUBSET (1..MaxWrites) : None # payload
    /\ None \notin [version : Nat, incarnation : Nat, payload : SUBSET Nat]
    /\ MaxRooms \in Nat \ {0} /\ PoolSize \in Nat \ {0} /\ MaxWrites \in Nat

VARIABLES
    status,     \* per store: "new", "loading", "open", "failed" or "gone"
    revisions,  \* #revisions: the row each store believes current, per Room
    tx,         \* per store and Room: the transaction in progress, or None
    keys,       \* per store: Rooms its load has still to read
    read,       \* per store: rows its load has read and locked
    rows,       \* the committed rows of the database
    writes,     \* saves begun; names each save, and the incarnation of an insert
    removed,    \* history: writes that a committed removal has taken away
    acked,      \* history: writes whose save has returned
    due         \* history: per store, the writes acked when its load began

vars == <<status, revisions, tx, keys, read, rows, writes, removed, acked, due>>

-----------------------------------------------------------------------------
(* A row has the storage revision and the incarnation that guard it; its   *)
(* payload is the set of writes it was built from.                         *)

Row(version, incarnation, payload) ==
    [version |-> version, incarnation |-> incarnation, payload |-> payload]
NoRows == [c \in Codes |-> None]
Present == {c \in Codes : rows[c] # None}

InUse(s) == Cardinality({c \in Codes : tx[s][c] # None})

\* Statements that hold locks until the database ends the transaction.
Writing == {"written", "committing"}
Admitted == {"admitted", "counted"} \cup Writing
LocksRow(s, c) ==
    \/ tx[s][c] # None /\ tx[s][c].stage \in Writing
    \/ read[s][c] # None
RowFree(s, c) == \A other \in Stores \ {s} : ~LocksRow(other, c)
AdmissionFree ==
    \A s \in Stores, c \in Codes :
        tx[s][c] # None => ~(tx[s][c].kind = "insert" /\ tx[s][c].stage \in Admitted)

Move(s, c, stage) == tx' = [tx EXCEPT ![s][c].stage = stage]
End(s, c) == tx' = [tx EXCEPT ![s][c] = None]

-----------------------------------------------------------------------------
(* Loading.  A process opens its store once.                               *)

\* The transaction's snapshot fixes which Rooms will be read.
BeginLoad(s) ==
    /\ status[s] = "new" /\ Cardinality(Present) <= MaxRooms
    /\ status' = [status EXCEPT ![s] = "loading"]
    /\ keys' = [keys EXCEPT ![s] = Present]
    /\ due' = [due EXCEPT ![s] = acked]
    /\ UNCHANGED <<revisions, tx, read, rows, writes, removed, acked>>

\* SELECT ... FOR UPDATE waits for the row and sees its newest version; a row
\* deleted in the meantime is passed over.
LoadUnlocked(s, c) ==   \* mutant: SKIP LOCKED
    /\ status[s] = "loading" /\ c \in keys[s]
    /\ keys' = [keys EXCEPT ![s] = @ \ {c}]
    /\ read' = [read EXCEPT ![s][c] = IF RowFree(s, c) THEN rows[c] ELSE None]
    /\ UNCHANGED <<status, revisions, tx, rows, writes, removed, acked, due>>
LoadRow(s, c) ==
    /\ status[s] = "loading" /\ c \in keys[s] /\ RowFree(s, c)
    /\ keys' = [keys EXCEPT ![s] = @ \ {c}]
    /\ read' = [read EXCEPT ![s][c] = rows[c]]
    /\ UNCHANGED <<status, revisions, tx, rows, writes, removed, acked, due>>

FinishLoad(s) ==
    /\ status[s] = "loading" /\ keys[s] = {}
    /\ status' = [status EXCEPT ![s] = "open"]
    /\ revisions' = [revisions EXCEPT ![s] = read[s]]
    /\ read' = [read EXCEPT ![s] = NoRows]
    /\ UNCHANGED <<tx, keys, rows, writes, removed, acked, due>>

-----------------------------------------------------------------------------
(* Transactions of one Room.  The Room queue keeps them one at a time.     *)

Begin(s, c, transaction) ==
    /\ status[s] = "open" /\ tx[s][c] = None /\ InUse(s) < PoolSize
    /\ tx' = [tx EXCEPT ![s][c] = transaction]
    /\ UNCHANGED <<status, revisions, keys, read, rows, removed, acked, due>>

\* `row' is the row the statement will write, `write' the save it carries out.
BeginSave(s, c) ==
    /\ writes < MaxWrites /\ writes' = writes + 1
    /\ LET expected == revisions[s][c]
       IN Begin(s, c,
            IF expected = None
            THEN [kind |-> "insert", stage |-> "begun", abandoned |-> FALSE, write |-> writes',
                  row |-> Row(1, writes', {writes'})]
            ELSE [kind |-> "update", stage |-> "begun", abandoned |-> FALSE, write |-> writes',
                  row |-> Row(expected.version + 1, expected.incarnation,
                              expected.payload \cup {writes'})])

\* The service removes only Rooms it has saved or loaded.
BeginRemove(s, c) ==
    /\ revisions[s][c] # None
    /\ Begin(s, c, [kind |-> "delete", stage |-> "begun", abandoned |-> FALSE, write |-> 0,
                    row |-> revisions[s][c]])
    /\ UNCHANGED writes

Active(s, c, kinds, stage) ==
    /\ tx[s][c] # None /\ ~tx[s][c].abandoned
    /\ tx[s][c].kind \in kinds /\ tx[s][c].stage = stage

Statement(s, c, stage) ==
    /\ Move(s, c, stage)
    /\ UNCHANGED <<status, revisions, keys, read, rows, writes, removed, acked, due>>

\* Admission of a new Room is serialized until its transaction ends.
AdmitUnlocked(s, c) ==   \* mutant: rooms are counted without the lock
    /\ Active(s, c, {"insert"}, "begun")
    /\ Statement(s, c, "admitted")
Admit(s, c) ==
    /\ Active(s, c, {"insert"}, "begun") /\ AdmissionFree
    /\ Statement(s, c, "admitted")

CountRooms(s, c) ==
    /\ Active(s, c, {"insert"}, "admitted")
    /\ Cardinality(Present) < MaxRooms
    /\ Statement(s, c, "counted")

InsertRow(s, c) ==
    /\ Active(s, c, {"insert"}, "counted") /\ RowFree(s, c)
    /\ rows[c] = None
    /\ Statement(s, c, "written")

\* UPDATE and DELETE change one row or none; none is an error.
Matches(c, expected) ==
    /\ rows[c] # None
    /\ rows[c].version = expected.version /\ rows[c].incarnation = expected.incarnation

ChangeRow(s, c) ==
    /\ Active(s, c, {"update", "delete"}, "begun") /\ RowFree(s, c)
    /\ Matches(c, revisions[s][c])
    /\ Statement(s, c, "written")

SendCommit(s, c) ==
    /\ Active(s, c, {"insert", "update", "delete"}, "written")
    /\ Statement(s, c, "committing")

\* The database commits, whether or not anybody still waits.
Commit(s, c) ==
    /\ tx[s][c] # None /\ tx[s][c].stage = "committing"
    /\ LET delete == tx[s][c].kind = "delete"
       IN /\ rows' = [rows EXCEPT ![c] = IF delete THEN None ELSE tx[s][c].row]
          /\ removed' = IF delete THEN removed \cup rows[c].payload ELSE removed
    /\ IF tx[s][c].abandoned THEN End(s, c) ELSE Move(s, c, "committed")
    /\ UNCHANGED <<status, revisions, keys, read, writes, acked, due>>

AnswerBeforeCommit(s, c) ==   \* mutant: returns when the statement has run
    /\ Active(s, c, {"insert", "update", "delete"}, "written")
    /\ revisions' = [revisions EXCEPT ![s][c] =
            IF tx[s][c].kind = "delete" THEN None ELSE tx[s][c].row]
    /\ acked' = IF tx[s][c].kind = "delete" THEN acked ELSE acked \cup {tx[s][c].write}
    /\ Move(s, c, "committing")
    /\ UNCHANGED <<status, keys, read, rows, writes, removed, due>>
Answer(s, c) ==
    /\ Active(s, c, {"insert", "update", "delete"}, "committed")
    /\ revisions' = [revisions EXCEPT ![s][c] =
            IF tx[s][c].kind = "delete" THEN None ELSE tx[s][c].row]
    /\ acked' = IF tx[s][c].kind = "delete" THEN acked ELSE acked \cup {tx[s][c].write}
    /\ End(s, c)
    /\ UNCHANGED <<status, keys, read, rows, writes, removed, due>>

-----------------------------------------------------------------------------
(* Failures.  The first one closes the store for good.                     *)

\* Any statement fails, or finds what it must not; the transaction is undone.
Fail(s, c) ==
    /\ \E stage \in {"begun"} \cup Admitted : Active(s, c, {"insert", "update", "delete"}, stage)
    /\ End(s, c)
    /\ status' = [status EXCEPT ![s] = IF @ = "open" THEN "failed" ELSE @]
    /\ UNCHANGED <<revisions, keys, read, rows, writes, removed, acked, due>>

\* A deadline passes or the connection is lost: the database may still end the
\* transaction either way.
Abandon(s, c) ==
    /\ tx[s][c] # None /\ ~tx[s][c].abandoned
    /\ tx' = [tx EXCEPT ![s][c] = IF @.stage = "committed" THEN None
                                  ELSE [@ EXCEPT !.abandoned = TRUE]]
    /\ status' = [status EXCEPT ![s] = IF @ = "open" THEN "failed" ELSE @]
    /\ UNCHANGED <<revisions, keys, read, rows, writes, removed, acked, due>>

Rollback(s, c) ==
    /\ tx[s][c] # None /\ tx[s][c].abandoned
    /\ End(s, c)
    /\ UNCHANGED <<status, revisions, keys, read, rows, writes, removed, acked, due>>

\* The process ends, during its load or later.
Crash(s) ==
    /\ status[s] \notin {"new", "gone"}
    /\ status' = [status EXCEPT ![s] = "gone"]
    /\ tx' = [tx EXCEPT ![s] = [c \in Codes |->
            IF @[c] = None \/ @[c].stage = "committed" THEN None
            ELSE [@[c] EXCEPT !.abandoned = TRUE]]]
    /\ keys' = [keys EXCEPT ![s] = {}] /\ read' = [read EXCEPT ![s] = NoRows]
    /\ revisions' = [revisions EXCEPT ![s] = NoRows]
    /\ UNCHANGED <<rows, writes, removed, acked, due>>

-----------------------------------------------------------------------------

Init ==
    /\ status = [s \in Stores |-> "new"]
    /\ revisions = [s \in Stores |-> NoRows] /\ tx = [s \in Stores |-> NoRows]
    /\ keys = [s \in Stores |-> {}] /\ read = [s \in Stores |-> NoRows]
    /\ rows = NoRows /\ writes = 0
    /\ removed = {} /\ acked = {} /\ due = [s \in Stores |-> {}]

Next ==
    \/ \E s \in Stores : BeginLoad(s) \/ FinishLoad(s) \/ Crash(s)
    \/ \E s \in Stores, c \in Codes :
        \/ LoadRow(s, c) \/ BeginSave(s, c) \/ BeginRemove(s, c)
        \/ Admit(s, c) \/ CountRooms(s, c) \/ InsertRow(s, c) \/ ChangeRow(s, c)
        \/ SendCommit(s, c) \/ Commit(s, c) \/ Answer(s, c)
        \/ Fail(s, c) \/ Abandon(s, c) \/ Rollback(s, c)

Spec == Init /\ [][Next]_vars

-----------------------------------------------------------------------------
(* Properties.                                                             *)

RowType == [version : Nat, incarnation : Nat, payload : SUBSET Nat]
TxType == [kind : {"insert", "update", "delete"}, stage : {"begun", "committed"} \cup Admitted,
           abandoned : BOOLEAN, write : Nat, row : RowType]

\* Every variable has the shape the code and the schema give it.
TypeOK ==
    /\ status \in [Stores -> {"new", "loading", "open", "failed", "gone"}]
    /\ revisions \in [Stores -> [Codes -> RowType \cup {None}]]
    /\ tx \in [Stores -> [Codes -> TxType \cup {None}]]
    /\ keys \in [Stores -> SUBSET Codes]
    /\ read \in [Stores -> [Codes -> RowType \cup {None}]]
    /\ rows \in [Codes -> RowType \cup {None}]
    /\ writes \in Nat /\ removed \subseteq Nat /\ acked \subseteq Nat
    /\ due \in [Stores -> SUBSET Nat]

\* Counting and inserting are several statements of many processes, yet the
\* table never holds more than MAX_ROOMS rows.
WithinLimit == Cardinality(Present) <= MaxRooms

\* A process that has loaded knows every write that had been answered when it
\* began to load, whatever other processes were doing meanwhile.
RecoversAcked ==
    \A s \in Stores : status[s] = "open" =>
        \A write \in due[s] :
            \/ write \in removed
            \/ \E c \in Codes : revisions[s][c] # None /\ write \in revisions[s][c].payload

Records == INSTANCE RecordStore WITH
    Writes <- 1..MaxWrites,
    record <- [c \in Codes |-> IF rows[c] = None THEN None ELSE rows[c].payload]

\* The database as the stores use it is one atomic record per Room.
KeepsRecords == Records!Spec
=============================================================================
