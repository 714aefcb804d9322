-------------------------- MODULE PersistenceProofs --------------------------
(***************************************************************************)
(* What was reported as saved is what is found again, in both places where *)
(* games are kept.                                                         *)
(*                                                                         *)
(* The MySQL repository of the server implements an atomic record per      *)
(* Room, keeps to its limit and recovers what it acknowledged, for any     *)
(* number of processes, Rooms and saves.                                   *)
(*                                                                         *)
(* In the browser, "saved" is true and the commands counted against a turn *)
(* are those of that turn, for any players, orders, budgets, failed writes *)
(* and reloads; the lemmas about TurnOrder this rests on come first.       *)
(***************************************************************************)
EXTENDS MysqlStore, LocalGame, FiniteSetTheorems, TLAPS


-----------------------------------------------------------------------------
(* The MySQL repository: the inductive invariant.                          *)

\* The writes that have taken effect, whether or not their row still exists.
Took == removed \cup UNION {rows[c].payload : c \in Present}

\* `b' is a row that was committed for Room c at some time: the Room's row of
\* the same incarnation is not older, and is `b' where the versions agree.
Believes(c, b) ==
    /\ b.incarnation \in Took /\ b.payload \subseteq Took
    /\ rows[c] # None /\ rows[c].incarnation = b.incarnation =>
         /\ b.version <= rows[c].version
         /\ b.version = rows[c].version => b = rows[c]

\* A row bears the name of the insert that made it.
RowsOK == \A c \in Present : rows[c].incarnation \in rows[c].payload

BeliefsOK ==
    \A s \in Stores, c \in Codes :
        /\ revisions[s][c] # None => Believes(c, revisions[s][c])
        /\ read[s][c] # None => Believes(c, read[s][c])

Saving(s, c) == tx[s][c] # None /\ tx[s][c].kind # "delete"
Holds(s, c) == tx[s][c] # None /\ tx[s][c].stage \in Writing
Admitting(s, c) == tx[s][c] # None /\ tx[s][c].kind = "insert" /\ tx[s][c].stage \in Admitted

\* What a transaction was built on, as its process sees it.
BasisOK(s, c) ==
    LET t == tx[s][c]
        basis == revisions[s][c]
    IN  ~t.abandoned =>
          /\ t.kind = "insert" => basis = None
          /\ t.kind # "insert" => basis # None
          /\ t.kind = "update" =>
               t.row = Row(basis.version + 1, basis.incarnation, basis.payload \cup {t.write})
          /\ t.kind = "delete" => t.row = basis

\* What a statement that has run relies on until its transaction ends.
LockOK(s, c) ==
    LET t == tx[s][c]
    IN  t.stage \in Writing =>
          /\ t.kind = "insert" => rows[c] = None
          /\ t.kind # "insert" => rows[c] # None
          /\ t.kind = "update" =>
               t.row = Row(rows[c].version + 1, rows[c].incarnation, rows[c].payload \cup {t.write})
          /\ t.kind = "delete" => t.row = rows[c]

\* Whether a transaction has taken effect: a save exactly when it has
\* committed, and then its row is one the Room has had.
EffectOK(s, c) ==
    LET t == tx[s][c]
    IN  /\ t.kind = "insert" => t.row = Row(1, t.write, {t.write})
        /\ t.kind # "delete" => t.write \in 1..writes
        /\ t.kind # "delete" /\ t.stage # "committed" => t.write \notin Took
        /\ t.kind # "delete" /\ t.stage = "committed" =>
             t.write \in t.row.payload /\ Believes(c, t.row)
        /\ t.kind = "delete" /\ t.stage = "committed" => t.row.payload \subseteq removed

TransactionsOK ==
    \A s \in Stores, c \in Codes :
        tx[s][c] # None => BasisOK(s, c) /\ LockOK(s, c) /\ EffectOK(s, c)

\* Different transactions carry different writes, no row is locked twice, and
\* one insert at a time is admitted, which has room once it has counted.
ExclusionOK ==
    \A s, t \in Stores, c, d \in Codes :
        /\ Saving(s, c) /\ Saving(t, d) /\ tx[s][c].write = tx[t][d].write => s = t /\ c = d
        /\ Holds(s, c) /\ Holds(t, c) => s = t
        /\ Admitting(s, c) /\ Admitting(t, d) => s = t /\ c = d
RoomLeft ==
    \A s \in Stores, c \in Codes :
        Admitting(s, c) /\ tx[s][c].stage # "admitted" => Cardinality(Present) < MaxRooms

\* A process that has yet to open its store has no transaction, one that has
\* crashed has only abandoned ones, and no row is read twice.
LifeOK ==
    \A s \in Stores :
        /\ status[s] \in {"new", "loading"} => \A c \in Codes : tx[s][c] = None
        /\ status[s] # "loading" => \A c \in Codes : read[s][c] = None
        /\ \A c \in keys[s] : read[s][c] = None
        /\ \A c \in Codes : tx[s][c] # None /\ status[s] = "gone" => tx[s][c].abandoned
        /\ \A c \in Codes : tx[s][c] # None /\ tx[s][c].abandoned => status[s] \in {"failed", "gone"}

\* Until its store is open, a process still has to read, has read, or need not
\* know any more, what had been acknowledged before.
DueOK ==
    /\ acked \subseteq Took /\ Took \subseteq 1..writes
    /\ \A s \in Stores : status[s] = "loading" => \A write \in due[s] :
         \/ write \in removed
         \/ \E c \in Codes : \/ c \in keys[s] /\ rows[c] # None /\ write \in rows[c].payload
                             \/ read[s][c] # None /\ write \in read[s][c].payload

StoreInvariant ==
    /\ TypeOK /\ writes \in 0..MaxWrites /\ IsFiniteSet(Present) /\ WithinLimit
    /\ RowsOK /\ BeliefsOK /\ TransactionsOK /\ ExclusionOK /\ RoomLeft
    /\ LifeOK /\ DueOK /\ RecoversAcked

-----------------------------------------------------------------------------
(* Lemmas about the steps.                                                 *)

\* A row has the three columns, and is what they say.
LEMMA RowFields ==
    ASSUME NEW version \in Nat, NEW incarnation \in Nat, NEW payload \in SUBSET Nat
    PROVE  Row(version, incarnation, payload) \in RowType
BY DEF Row, RowType

\* Moving a transaction to another stage, or abandoning it, leaves the rest.
LEMMA TxFields ==
    ASSUME NEW t \in TxType, NEW stage \in {"begun", "committed"} \cup Admitted
    PROVE  /\ [t EXCEPT !.stage = stage] \in TxType
           /\ [t EXCEPT !.abandoned = TRUE] \in TxType
BY DEF TxType

\* Every step keeps the variables' types; a removal has a row to take away.
LEMMA TypeStep == TypeOK /\ TransactionsOK /\ [Next]_vars => TypeOK'
<1> SUFFICES ASSUME TypeOK, TransactionsOK, [Next]_vars PROVE TypeOK'
  OBVIOUS
<1> USE DEF TypeOK
<1>0. CASE UNCHANGED vars
  BY <1>0 DEF vars
<1>1. ASSUME NEW s \in Stores, BeginLoad(s) PROVE TypeOK'
  BY <1>1 DEF BeginLoad, Present
<1>2. ASSUME NEW s \in Stores, FinishLoad(s) PROVE TypeOK'
  BY <1>2 DEF FinishLoad, NoRows
<1>3. ASSUME NEW s \in Stores, Crash(s) PROVE TypeOK'
  <2>1. \A c \in Codes : tx[s][c] \in TxType /\ tx[s][c] # None =>
            [tx[s][c] EXCEPT !.abandoned = TRUE] \in TxType
    BY DEF TxType
  <2>2. tx' \in [Stores -> [Codes -> TxType \cup {None}]]
    BY <1>3, <2>1 DEF Crash
  <2>3. QED
    BY <1>3, <2>2 DEF Crash, NoRows
<1>4. ASSUME NEW s \in Stores, NEW c \in Codes, LoadRow(s, c) PROVE TypeOK'
  BY <1>4 DEF LoadRow
<1>5. ASSUME NEW s \in Stores, NEW c \in Codes, BeginSave(s, c) PROVE TypeOK'
  <2>1. writes' = writes + 1 /\ writes' \in Nat
    BY <1>5 DEF BeginSave
  <2>2. revisions[s][c] # None => revisions[s][c] \in RowType
    OBVIOUS
  <2>3. PICK t \in TxType : tx' = [tx EXCEPT ![s][c] = t]
    <3>1. CASE revisions[s][c] = None
      <4>1. Row(1, writes', {writes'}) \in RowType
        BY <2>1, RowFields
      <4>2. QED
        BY <1>5, <2>1, <3>1, <4>1 DEF BeginSave, Begin, TxType
    <3>2. CASE revisions[s][c] # None
      <4> DEFINE e == revisions[s][c]
      <4>1. e.version + 1 \in Nat /\ e.incarnation \in Nat /\ e.payload \cup {writes'} \in SUBSET Nat
        BY <2>1, <2>2, <3>2 DEF RowType
      <4>2. Row(e.version + 1, e.incarnation, e.payload \cup {writes'}) \in RowType
        BY <4>1, RowFields
      <4>3. QED
        BY <1>5, <2>1, <3>2, <4>2 DEF BeginSave, Begin, TxType
    <3>3. QED
      BY <3>1, <3>2
  <2>4. UNCHANGED <<status, revisions, keys, read, rows, removed, acked, due>>
    BY <1>5 DEF BeginSave, Begin
  <2>5. QED
    BY <2>1, <2>3, <2>4
<1>6. ASSUME NEW s \in Stores, NEW c \in Codes, BeginRemove(s, c) PROVE TypeOK'
  BY <1>6 DEF BeginRemove, Begin, TxType
<1>7. ASSUME NEW s \in Stores, NEW c \in Codes, NEW stage \in {"committed"} \cup Admitted,
             tx[s][c] # None, Move(s, c, stage),
             UNCHANGED <<status, revisions, keys, read, rows, writes, removed, acked, due>>
      PROVE  TypeOK'
  <2>1. tx[s][c] \in TxType /\ stage \in {"begun", "committed"} \cup Admitted
    BY <1>7
  <2>2. [tx[s][c] EXCEPT !.stage = stage] \in TxType
    BY <2>1, TxFields
  <2>3. QED
    BY <1>7, <2>2 DEF Move
<1>8. ASSUME NEW s \in Stores, NEW c \in Codes, Commit(s, c) PROVE TypeOK'
  <2>1. tx[s][c] \in TxType
    BY <1>8 DEF Commit
  <2>2. [tx[s][c] EXCEPT !.stage = "committed"] \in TxType /\ tx[s][c].row \in RowType
    BY <2>1, TxFields DEF TxType
  <2>3. PICK t \in TxType \cup {None} : tx' = [tx EXCEPT ![s][c] = t]
    BY <1>8, <2>2 DEF Commit, End, Move
  <2>4. rows' \in [Codes -> RowType \cup {None}]
    BY <1>8, <2>2 DEF Commit
  <2>5. removed' \subseteq Nat
    <3>1. tx[s][c].kind = "delete" => rows[c] \in RowType
      BY <1>8 DEF Commit, TransactionsOK, LockOK, Writing
    <3>2. QED
      BY <1>8, <3>1 DEF Commit, RowType
  <2>6. UNCHANGED <<status, revisions, keys, read, writes, acked, due>>
    BY <1>8 DEF Commit
  <2>7. QED
    BY <2>3, <2>4, <2>5, <2>6
<1>9. ASSUME NEW s \in Stores, NEW c \in Codes, Answer(s, c) PROVE TypeOK'
  <2>1. tx[s][c] \in TxType
    BY <1>9 DEF Answer, Active
  <2>2. tx[s][c].row \in RowType /\ tx[s][c].write \in Nat
    BY <2>1 DEF TxType
  <2>3. QED
    BY <1>9, <2>2 DEF Answer, End
<1>10. ASSUME NEW s \in Stores, NEW c \in Codes, Fail(s, c) PROVE TypeOK'
  BY <1>10 DEF Fail, End
<1>11. ASSUME NEW s \in Stores, NEW c \in Codes, Abandon(s, c) PROVE TypeOK'
  <2>1. tx[s][c] \in TxType
    BY <1>11 DEF Abandon
  <2>2. [tx[s][c] EXCEPT !.abandoned = TRUE] \in TxType
    BY <2>1 DEF TxType
  <2>3. QED
    BY <1>11, <2>2 DEF Abandon
<1>12. ASSUME NEW s \in Stores, NEW c \in Codes, Rollback(s, c) PROVE TypeOK'
  BY <1>12 DEF Rollback, End
<1>13. QED
  BY <1>0, <1>1, <1>2, <1>3, <1>4, <1>5, <1>6, <1>7, <1>8, <1>9, <1>10, <1>11, <1>12
     DEF Next, Admit, CountRooms, InsertRow, ChangeRow, SendCommit, Statement, Active, Admitted, Writing

\* The writes that have taken effect are those Room by Room, and the removed.
LEMMA TookMembers ==
    ASSUME NEW write
    PROVE  write \in Took <=> \/ write \in removed
                             \/ \E c \in Codes : rows[c] # None /\ write \in rows[c].payload
BY DEF Took, Present

\* Only a commit changes the rows, and takes its own write into effect.
LEMMA CommitTook ==
    ASSUME StoreInvariant, NEW s \in Stores, NEW c \in Codes, Commit(s, c)
    PROVE  Took' = IF tx[s][c].kind = "delete" THEN Took ELSE Took \cup {tx[s][c].write}
<1> DEFINE t == tx[s][c]
<1>1. /\ t # None /\ t.stage = "committing" /\ LockOK(s, c) /\ EffectOK(s, c)
      /\ t \in TxType /\ rows \in [Codes -> RowType \cup {None}]
  BY DEF StoreInvariant, TypeOK, Commit, TransactionsOK
<1>2. CASE t.kind = "delete"
  <2>1. rows' = [rows EXCEPT ![c] = None] /\ removed' = removed \cup rows[c].payload /\ rows[c] # None
    BY <1>1, <1>2 DEF Commit, LockOK, Writing
  <2>2. \A w : w \in Took' <=> w \in Took
    <3> TAKE w
    <3>1. w \in Took' <=> \/ w \in removed'
                          \/ \E d \in Codes : rows'[d] # None /\ w \in rows'[d].payload
      BY DEF Took, Present
    <3>2. QED
      BY <1>1, <2>1, <3>1, TookMembers
  <2>3. QED
    BY <1>2, <2>2
<1>3. CASE t.kind # "delete"
  <2>1. rows' = [rows EXCEPT ![c] = t.row] /\ removed' = removed
    BY <1>3 DEF Commit
  <2>2. t.row \in RowType /\ t.row # None
    BY <1>1, StoreConstants DEF TxType, RowType
  <2>3. t.row.payload = IF rows[c] = None THEN {t.write} ELSE rows[c].payload \cup {t.write}
    <3>1. t.kind \in {"insert", "update"}
      BY <1>1, <1>3 DEF TxType
    <3>2. CASE t.kind = "insert"
      BY <1>1, <3>2 DEF LockOK, EffectOK, Writing, Row
    <3>3. CASE t.kind = "update"
      BY <1>1, <3>3 DEF LockOK, Writing, Row
    <3>4. QED
      BY <3>1, <3>2, <3>3
  <2>4. \A w : w \in Took' <=> w \in Took \/ w = t.write
    <3> TAKE w
    <3>1. w \in Took' <=> \/ w \in removed'
                          \/ \E d \in Codes : rows'[d] # None /\ w \in rows'[d].payload
      BY DEF Took, Present
    <3> HIDE DEF t
    <3>2. QED
      BY <1>1, <2>1, <2>2, <2>3, <3>1, TookMembers
  <2>5. QED
    BY <1>3, <2>4
<1>4. QED
  BY <1>2, <1>3

\* A step that is not a commit leaves the rows alone.
LEMMA OnlyCommit ==
    ASSUME StoreInvariant, [Next]_vars
    PROVE  \/ UNCHANGED <<rows, removed>> /\ Took' = Took /\ Present' = Present
           \/ \E s \in Stores, c \in Codes : Commit(s, c)
<1>1. CASE \E s \in Stores, c \in Codes : Commit(s, c)
  BY <1>1
<1>2. CASE UNCHANGED <<rows, removed>>
  BY <1>2 DEF Took, Present
<1>3. ASSUME NEW s \in Stores, BeginLoad(s) \/ FinishLoad(s) \/ Crash(s)
      PROVE  UNCHANGED <<rows, removed>>
  BY <1>3 DEF BeginLoad, FinishLoad, Crash
<1>4. ASSUME NEW s \in Stores, NEW c \in Codes,
             \/ LoadRow(s, c) \/ BeginSave(s, c) \/ BeginRemove(s, c) \/ Answer(s, c)
             \/ Fail(s, c) \/ Abandon(s, c) \/ Rollback(s, c)
      PROVE  UNCHANGED <<rows, removed>>
  BY <1>4 DEF LoadRow, BeginSave, BeginRemove, Begin, Answer, Fail, Abandon, Rollback
<1>5. ASSUME NEW s \in Stores, NEW c \in Codes,
             \/ Admit(s, c) \/ CountRooms(s, c) \/ InsertRow(s, c) \/ ChangeRow(s, c) \/ SendCommit(s, c)
      PROVE  UNCHANGED <<rows, removed>>
  BY <1>5 DEF Admit, CountRooms, InsertRow, ChangeRow, SendCommit, Statement
<1>6. CASE UNCHANGED vars
  BY <1>6, <1>2 DEF vars
<1>7. QED
  BY <1>1, <1>2, <1>3, <1>4, <1>5, <1>6 DEF Next

\* What was true of a row once stays true of it.
LEMMA BeliefStays ==
    ASSUME StoreInvariant, [Next]_vars, NEW d \in Codes, NEW b \in RowType, Believes(d, b)
    PROVE  Believes(d, b)'
<1>1. CASE UNCHANGED <<rows, removed>> /\ Took' = Took
  BY <1>1 DEF Believes
<1>2. ASSUME NEW s \in Stores, NEW c \in Codes, Commit(s, c)
      PROVE  Believes(d, b)'
  <2> DEFINE t == tx[s][c]
  <2>1. /\ t # None /\ t.stage = "committing" /\ LockOK(s, c) /\ EffectOK(s, c)
        /\ t \in TxType /\ rows \in [Codes -> RowType \cup {None}]
    BY <1>2 DEF StoreInvariant, TypeOK, Commit, TransactionsOK
  <2>2. Took \subseteq Took'
    BY <1>2, CommitTook
  <2>3. b.incarnation \in Took' /\ b.payload \subseteq Took'
    BY <2>2 DEF Believes
  <2>4. CASE c # d \/ t.kind = "delete"
    <3>1. rows'[d] = rows[d] \/ rows'[d] = None
      BY <1>2, <2>1, <2>4 DEF Commit
    <3>2. QED
      BY <2>3, <3>1 DEF Believes
  <2>5. CASE c = d /\ t.kind = "insert"
    <3>1. rows'[d] = Row(1, t.write, {t.write}) /\ t.write \notin Took
      BY <1>2, <2>1, <2>5 DEF Commit, EffectOK
    <3>2. rows'[d].incarnation # b.incarnation
      BY <3>1 DEF Row, Believes
    <3>3. QED
      BY <2>3, <3>2 DEF Believes
  <2>6. CASE c = d /\ t.kind = "update"
    <3>1. /\ rows[d] # None
          /\ rows'[d] = Row(rows[d].version + 1, rows[d].incarnation, rows[d].payload \cup {t.write})
      BY <1>2, <2>1, <2>6 DEF Commit, LockOK, Writing
    <3>2. /\ rows'[d].incarnation = rows[d].incarnation /\ rows'[d].version = rows[d].version + 1
      BY <3>1 DEF Row
    <3>3. rows[d].version \in Nat /\ b.version \in Nat
      BY <2>1, <3>1 DEF RowType
    <3> HIDE DEF t
    <3>4. QED
      BY <2>3, <3>1, <3>2, <3>3 DEF Believes
  <2>7. t.kind \in {"insert", "update", "delete"}
    BY <2>1 DEF TxType
  <2>8. QED
    BY <2>4, <2>5, <2>6, <2>7
<1>3. QED
  BY <1>1, <1>2, OnlyCommit

-----------------------------------------------------------------------------
(* The invariant is inductive.                                             *)

\* What a transaction has to satisfy for the invariant to hold after a step
\* that changes nothing else.
TransactionFits(s, c, t) ==
    t # None =>
      /\ \A r \in Stores, d \in Codes : Saving(r, d) /\ t.kind # "delete" /\ <<r, d>> # <<s, c>> =>
            t.write # tx[r][d].write
      /\ \A r \in Stores \ {s} : t.stage \in Writing => ~Holds(r, c)
      /\ t.kind = "insert" /\ t.stage \in Admitted =>
            /\ \A r \in Stores, d \in Codes : Admitting(r, d) => r = s /\ d = c
            /\ t.stage # "admitted" => Cardinality(Present) < MaxRooms

\* The effect of a transaction that a step leaves alone.
LEMMA EffectStays ==
    ASSUME NEW s \in Stores, NEW c \in Codes, EffectOK(s, c), tx'[s][c] = tx[s][c],
           Took' = Took, UNCHANGED <<rows, removed>>, 1..writes \subseteq 1..writes'
    PROVE  EffectOK(s, c)'
<1>1. Believes(c, tx[s][c].row) <=> Believes(c, tx[s][c].row)'
  BY DEF Believes
<1>2. QED
  BY <1>1 DEF EffectOK

\* One transaction changes, the invariant stays.
LEMMA TxChange ==
    ASSUME StoreInvariant, TypeOK', NEW s \in Stores, NEW c \in Codes, NEW t \in TxType \cup {None},
           tx' = [tx EXCEPT ![s][c] = t], UNCHANGED <<revisions, keys, read, rows, removed, acked, due>>,
           writes' \in {writes, writes + 1}, writes' <= MaxWrites,
           \A r \in Stores : status'[r] = status[r] \/ (r = s /\ status[s] = "open" /\ status'[s] = "failed"),
           t # None => /\ status[s] \notin {"new", "loading"}
                       /\ status'[s] = "gone" => t.abandoned
                       /\ t.abandoned => status'[s] \in {"failed", "gone"},
           t # None => (BasisOK(s, c) /\ LockOK(s, c) /\ EffectOK(s, c))',
           TransactionFits(s, c, t)
    PROVE  StoreInvariant'
<1> USE DEF StoreInvariant
<1>1. Took' = Took /\ Present' = Present
  BY DEF Took, Present
<1>2. \A r \in Stores, d \in Codes : tx'[r][d] = IF r = s /\ d = c THEN t ELSE tx[r][d]
  BY DEF TypeOK
<1>3. writes' \in 0..MaxWrites /\ IsFiniteSet(Present') /\ WithinLimit' /\ RowsOK'
  BY <1>1 DEF WithinLimit, RowsOK, TypeOK
<1>4. BeliefsOK'
  BY <1>1 DEF BeliefsOK, Believes
<1>5. TransactionsOK'
  <2> SUFFICES ASSUME NEW r \in Stores, NEW d \in Codes, tx'[r][d] # None, ~(r = s /\ d = c)
               PROVE  (BasisOK(r, d) /\ LockOK(r, d) /\ EffectOK(r, d))'
    BY <1>2 DEF TransactionsOK
  <2>1. tx'[r][d] = tx[r][d] /\ BasisOK(r, d) /\ LockOK(r, d) /\ EffectOK(r, d)
    BY <1>2 DEF TransactionsOK
  <2>2. BasisOK(r, d)' /\ LockOK(r, d)'
    BY <2>1 DEF BasisOK, LockOK
  <2>3. EffectOK(r, d)'
    <3>1. 1..writes \subseteq 1..writes'
      BY DEF TypeOK
    <3>2. QED
      BY <1>1, <2>1, <3>1, EffectStays
  <2>4. QED
    BY <2>2, <2>3
<1>6. ExclusionOK'
  BY <1>2 DEF ExclusionOK, TransactionFits, Saving, Holds, Admitting
<1>7. RoomLeft'
  BY <1>1, <1>2 DEF RoomLeft, TransactionFits, Admitting
<1>8. LifeOK'
  BY <1>2 DEF LifeOK
<1>9. DueOK'
  <2>1. 1..writes \subseteq 1..writes'
    BY DEF TypeOK
  <2>2. QED
    BY <1>1, <2>1 DEF DueOK
<1>10. RecoversAcked'
  BY DEF RecoversAcked
<1>11. QED
  BY <1>3, <1>4, <1>5, <1>6, <1>7, <1>8, <1>9, <1>10

\* Ending a transaction without effect leaves nothing to show.
LEMMA EndStep ==
    ASSUME StoreInvariant, TypeOK', NEW s \in Stores, NEW c \in Codes, End(s, c),
           UNCHANGED <<revisions, keys, read, rows, writes, removed, acked, due>>,
           \A r \in Stores : status'[r] = status[r] \/ (r = s /\ status[s] = "open" /\ status'[s] = "failed")
    PROVE  StoreInvariant'
<1>1. tx' = [tx EXCEPT ![s][c] = None] /\ TransactionFits(s, c, None) /\ tx'[s][c] = None
  BY DEF End, TransactionFits, StoreInvariant, TypeOK
<1>2. writes' \in {writes, writes + 1} /\ writes' <= MaxWrites
  BY DEF StoreInvariant
<1>3. QED
  BY <1>1, <1>2, TxChange

\* A transaction begun by an open store: it carries a new write, or removes
\* the row it knows.
LEMMA BeginStep ==
    ASSUME StoreInvariant, TypeOK', NEW s \in Stores, NEW c \in Codes, BeginSave(s, c) \/ BeginRemove(s, c)
    PROVE  StoreInvariant'
<1> DEFINE t == tx'[s][c]
<1>1. /\ writes' \in {writes, writes + 1} /\ writes' <= MaxWrites /\ status[s] = "open"
      /\ UNCHANGED <<status, revisions, keys, read, rows, removed, acked, due>>
  BY StoreConstants DEF BeginSave, BeginRemove, Begin, StoreInvariant, TypeOK
<1>2. t \in TxType \cup {None} /\ tx' = [tx EXCEPT ![s][c] = t]
  BY DEF BeginSave, BeginRemove, Begin, StoreInvariant, TypeOK
<1>3. /\ t.stage = "begun" /\ t.abandoned = FALSE
      /\ \/ t.kind # "delete" /\ t.write = writes + 1 /\ writes' = writes + 1
         \/ t.kind = "delete" /\ writes' = writes
  BY DEF BeginSave, BeginRemove, Begin, StoreInvariant, TypeOK
<1>4. BasisOK(s, c)' /\ LockOK(s, c)'
  <2>1. LockOK(s, c)'
    BY <1>3 DEF LockOK, Writing
  <2>2. CASE BeginSave(s, c) /\ revisions[s][c] = None
    <3>1. t.kind = "insert" /\ revisions'[s][c] = None
      BY <2>2 DEF BeginSave, Begin, StoreInvariant, TypeOK
    <3>2. QED
      BY <2>1, <3>1 DEF BasisOK
  <2>3. CASE BeginSave(s, c) /\ revisions[s][c] # None
    <3>1. /\ t.kind = "update" /\ revisions' = revisions
          /\ t.row = Row(revisions[s][c].version + 1, revisions[s][c].incarnation,
                         revisions[s][c].payload \cup {t.write})
      BY <2>3 DEF BeginSave, Begin, StoreInvariant, TypeOK
    <3>2. QED
      BY <2>1, <2>3, <3>1 DEF BasisOK
  <2>4. CASE BeginRemove(s, c)
    <3>1. t.kind = "delete" /\ t.row = revisions[s][c] /\ revisions' = revisions /\ revisions[s][c] # None
      BY <2>4 DEF BeginRemove, Begin, StoreInvariant, TypeOK
    <3>2. QED
      BY <2>1, <3>1 DEF BasisOK
  <2>5. QED
    BY <2>2, <2>3, <2>4
<1>5. EffectOK(s, c)'
  <2>1. Took' = Took /\ Took \subseteq 1..writes
    BY <1>1 DEF Took, Present, StoreInvariant, DueOK
  <2>2. t.kind = "insert" => t.row = Row(1, t.write, {t.write})
    <3>1. CASE BeginSave(s, c)
      BY <3>1 DEF BeginSave, Begin, StoreInvariant, TypeOK
    <3>2. CASE BeginRemove(s, c)
      BY <3>2 DEF BeginRemove, Begin, StoreInvariant, TypeOK
    <3>3. QED
      BY <3>1, <3>2
  <2>3. writes \in Nat
    BY DEF StoreInvariant, TypeOK
  <2> HIDE DEF t
  <2>4. t.kind # "delete" => t.write \in 1..writes' /\ t.write \notin Took
    BY <1>3, <2>1, <2>3
  <2>5. QED
    BY <1>3, <2>1, <2>2, <2>4 DEF EffectOK, t
<1>6. TransactionFits(s, c, t)
  <2>1. \A r \in Stores, d \in Codes : Saving(r, d) => tx[r][d].write \in 1..writes
    BY DEF Saving, StoreInvariant, TransactionsOK, EffectOK
  <2>2. writes \in Nat
    BY DEF StoreInvariant, TypeOK
  <2> HIDE DEF t
  <2>3. QED
    BY <1>3, <2>1, <2>2 DEF TransactionFits, Writing, Admitted
<1>7. t # None => /\ status[s] \notin {"new", "loading"}
                  /\ status'[s] = "gone" => t.abandoned
                  /\ t.abandoned => status'[s] \in {"failed", "gone"}
  BY <1>1, <1>3
<1>8. \A r \in Stores : status'[r] = status[r]
  BY <1>1
<1>9. QED
  BY <1>1, <1>2, <1>4, <1>5, <1>6, <1>7, <1>8, TxChange

\* A statement that has run takes the transaction to its next stage.
LEMMA Advance ==
    ASSUME StoreInvariant, TypeOK', NEW s \in Stores, NEW c \in Codes, NEW stage \in Admitted,
           tx[s][c] # None, ~tx[s][c].abandoned, tx[s][c].stage # "committed", Statement(s, c, stage),
           stage \in Writing => /\ LockOK(s, c)'
                               /\ \A r \in Stores \ {s} : ~Holds(r, c),
           tx[s][c].kind = "insert" =>
                /\ \A r \in Stores, d \in Codes : Admitting(r, d) => r = s /\ d = c
                /\ stage # "admitted" => Cardinality(Present) < MaxRooms
    PROVE  StoreInvariant'
<1> DEFINE t == [tx[s][c] EXCEPT !.stage = stage]
<1>1. /\ tx[s][c] \in TxType /\ BasisOK(s, c) /\ EffectOK(s, c) /\ writes <= MaxWrites
      /\ stage # "committed" /\ stage \in {"begun", "committed"} \cup Admitted
  BY DEF StoreInvariant, TypeOK, TransactionsOK, Admitted, Writing
<1>2. /\ t \in TxType /\ t.stage = stage /\ t.kind = tx[s][c].kind /\ t.row = tx[s][c].row
      /\ t.write = tx[s][c].write /\ t.abandoned = tx[s][c].abandoned
  BY <1>1 DEF TxType
<1>3. /\ tx' = [tx EXCEPT ![s][c] = t] /\ tx'[s][c] = t
      /\ UNCHANGED <<status, revisions, keys, read, rows, writes, removed, acked, due>>
  BY DEF Statement, Move, StoreInvariant, TypeOK
<1>4. \A r \in Stores, d \in Codes :
         Saving(r, d) /\ t.kind # "delete" /\ <<r, d>> # <<s, c>> => t.write # tx[r][d].write
  BY <1>2 DEF StoreInvariant, ExclusionOK, Saving
<1>5. status[s] \notin {"new", "loading"} /\ status[s] # "gone"
  BY DEF StoreInvariant, LifeOK
<1>6. Took' = Took
  BY <1>3 DEF Took, Present
<1> HIDE DEF t
<1>7. BasisOK(s, c)' /\ EffectOK(s, c)'
  <2>1. /\ tx'[s][c].stage # "committed" /\ tx'[s][c].kind = tx[s][c].kind /\ tx'[s][c].row = tx[s][c].row
        /\ tx'[s][c].write = tx[s][c].write /\ tx'[s][c].abandoned = tx[s][c].abandoned
        /\ revisions' = revisions /\ writes' = writes
    BY <1>1, <1>2, <1>3
  <2>2. BasisOK(s, c)'
    BY <1>1, <2>1 DEF BasisOK
  <2>3. EffectOK(s, c)'
    BY <1>1, <1>6, <2>1 DEF EffectOK
  <2>4. QED
    BY <2>2, <2>3
<1>8. LockOK(s, c)'
  BY <1>2, <1>3 DEF LockOK
<1>9. TransactionFits(s, c, t)
  BY <1>2, <1>4 DEF TransactionFits
<1>10. \A r \in Stores : status'[r] = status[r]
  BY <1>3
<1>11. t \in TxType \cup {None} /\ writes' \in {writes, writes + 1} /\ writes' <= MaxWrites
  BY <1>1, <1>2, <1>3
<1>12. t # None => /\ status[s] \notin {"new", "loading"}
                   /\ status'[s] = "gone" => t.abandoned
                   /\ t.abandoned => status'[s] \in {"failed", "gone"}
  BY <1>2, <1>3, <1>5
<1>13. QED
  BY <1>3, <1>7, <1>8, <1>9, <1>10, <1>11, <1>12, TxChange

\* The statements of a transaction, up to the COMMIT.
LEMMA StatementStep ==
    ASSUME StoreInvariant, TypeOK', NEW s \in Stores, NEW c \in Codes,
           Admit(s, c) \/ CountRooms(s, c) \/ InsertRow(s, c) \/ ChangeRow(s, c) \/ SendCommit(s, c)
    PROVE  StoreInvariant'
<1> DEFINE t == tx[s][c]
<1>1. /\ t # None /\ ~t.abandoned /\ t.stage # "committed" /\ t \in TxType
      /\ BasisOK(s, c) /\ LockOK(s, c) /\ EffectOK(s, c)
  BY DEF Admit, CountRooms, InsertRow, ChangeRow, SendCommit, Active, StoreInvariant, TypeOK, TransactionsOK
<1>2. Admitting(s, c) => \A r \in Stores, d \in Codes : Admitting(r, d) => r = s /\ d = c
  BY DEF StoreInvariant, ExclusionOK
<1>3. Holds(s, c) \/ RowFree(s, c) => \A r \in Stores \ {s} : ~Holds(r, c)
  BY DEF StoreInvariant, ExclusionOK, RowFree, LocksRow, Holds
<1>4. ASSUME NEW stage \in Admitted, Statement(s, c, stage)
      PROVE  /\ UNCHANGED <<revisions, rows>> /\ tx'[s][c] = [t EXCEPT !.stage = stage]
             /\ tx'[s][c].kind = t.kind /\ tx'[s][c].row = t.row /\ tx'[s][c].write = t.write
  BY <1>1, <1>4 DEF Statement, Move, StoreInvariant, TypeOK, TxType
<1>5. CASE Admit(s, c)
  <2>1. \A r \in Stores, d \in Codes : ~Admitting(r, d)
    BY <1>5 DEF Admit, AdmissionFree, Admitting
  <2>2. Statement(s, c, "admitted") /\ "admitted" \in Admitted /\ "admitted" \notin Writing
    BY <1>5 DEF Admit, Admitted, Writing
  <2>3. QED
    BY <1>1, <2>1, <2>2, Advance
<1>6. CASE CountRooms(s, c)
  <2>1. Statement(s, c, "counted") /\ "counted" \in Admitted /\ "counted" \notin Writing
    BY <1>6 DEF CountRooms, Admitted, Writing
  <2>2. Admitting(s, c) /\ Cardinality(Present) < MaxRooms
    BY <1>6 DEF CountRooms, Active, Admitting, Admitted
  <2>3. QED
    BY <1>1, <1>2, <2>1, <2>2, Advance
<1>7. CASE InsertRow(s, c)
  <2>1. Statement(s, c, "written") /\ "written" \in Admitted
    BY <1>7 DEF InsertRow, Admitted, Writing
  <2>2. Admitting(s, c) /\ t.kind = "insert" /\ t.stage = "counted" /\ RowFree(s, c) /\ rows[c] = None
    BY <1>7 DEF InsertRow, Active, Admitting, Admitted
  <2>3. Cardinality(Present) < MaxRooms
    BY <2>2 DEF StoreInvariant, RoomLeft
  <2>4. LockOK(s, c)'
    BY <1>4, <2>1, <2>2 DEF LockOK
  <2>5. QED
    BY <1>1, <1>2, <1>3, <2>1, <2>2, <2>3, <2>4, Advance
<1>8. CASE ChangeRow(s, c)
  <2>1. Statement(s, c, "written") /\ "written" \in Admitted
    BY <1>8 DEF ChangeRow, Admitted, Writing
  <2>2. t.kind # "insert" /\ RowFree(s, c) /\ Matches(c, revisions[s][c])
    BY <1>8 DEF ChangeRow, Active
  <2>3. revisions[s][c] # None /\ Believes(c, revisions[s][c])
    BY <1>1, <2>2 DEF BasisOK, StoreInvariant, BeliefsOK
  <2>4. rows[c] # None /\ revisions[s][c] = rows[c]
    BY <2>2, <2>3 DEF Matches, Believes
  <2>5. LockOK(s, c)'
    BY <1>1, <1>4, <2>1, <2>2, <2>4 DEF LockOK, BasisOK
  <2>6. QED
    BY <1>1, <1>3, <2>1, <2>2, <2>5, Advance
<1>9. CASE SendCommit(s, c)
  <2>1. Statement(s, c, "committing") /\ "committing" \in Admitted
    BY <1>9 DEF SendCommit, Admitted, Writing
  <2>2. t.stage = "written" /\ Holds(s, c) /\ (t.kind = "insert" => Admitting(s, c))
    BY <1>9 DEF SendCommit, Active, Holds, Admitting, Admitted, Writing
  <2>3. LockOK(s, c)'
    BY <1>1, <1>4, <2>1, <2>2 DEF LockOK, Writing
  <2>4. t.kind = "insert" => Cardinality(Present) < MaxRooms
    BY <2>2 DEF StoreInvariant, RoomLeft
  <2>5. QED
    BY <1>1, <1>2, <1>3, <2>1, <2>2, <2>3, <2>4, Advance
<1>10. QED
  BY <1>5, <1>6, <1>7, <1>8, <1>9

\* A commit changes the number of rows by one at most.
LEMMA CommitCount ==
    ASSUME StoreInvariant, NEW s \in Stores, NEW c \in Codes, Commit(s, c)
    PROVE  /\ IsFiniteSet(Present') /\ Cardinality(Present) \in Nat /\ Cardinality(Present') \in Nat
           /\ tx[s][c].kind # "insert" => Cardinality(Present') <= Cardinality(Present)
           /\ tx[s][c].kind = "insert" => Cardinality(Present') = Cardinality(Present) + 1
<1> DEFINE t == tx[s][c]
<1>1. /\ t # None /\ t.stage = "committing" /\ LockOK(s, c) /\ t \in TxType
      /\ rows \in [Codes -> RowType \cup {None}] /\ IsFiniteSet(Present)
  BY DEF StoreInvariant, TypeOK, Commit, TransactionsOK
<1>2. t.row # None
  BY <1>1, StoreConstants DEF TxType, RowType
<1>3. Cardinality(Present) \in Nat
  BY <1>1, FS_CardinalityType
<1>4. CASE t.kind = "insert"
  <2>1. c \notin Present /\ Present' = Present \cup {c}
    BY <1>1, <1>2, <1>4 DEF Commit, LockOK, Writing, Present
  <2>2. IsFiniteSet(Present') /\ Cardinality(Present') = Cardinality(Present) + 1
    BY <1>1, <2>1, FS_AddElement
  <2>3. QED
    BY <1>3, <1>4, <2>2
<1>5. CASE t.kind = "update"
  <2>1. Present' = Present
    BY <1>1, <1>2, <1>5 DEF Commit, LockOK, Writing, Present
  <2>2. QED
    BY <1>1, <1>3, <1>5, <2>1
<1>6. CASE t.kind = "delete"
  <2>1. c \in Present /\ Present' = Present \ {c}
    BY <1>1, <1>6 DEF Commit, LockOK, Writing, Present
  <2>2. IsFiniteSet(Present') /\ Cardinality(Present') = Cardinality(Present) - 1
    BY <1>1, <2>1, FS_RemoveElement
  <2>3. Cardinality(Present') \in Nat
    BY <2>2, FS_CardinalityType
  <2>4. QED
    BY <1>3, <1>6, <2>2, <2>3
<1>7. QED
  BY <1>1, <1>4, <1>5, <1>6 DEF TxType

\* A commit: a save takes effect, or a row is taken away.
LEMMA CommitStep ==
    ASSUME StoreInvariant, TypeOK', NEW s \in Stores, NEW c \in Codes, Commit(s, c)
    PROVE  StoreInvariant'
<1> DEFINE t == tx[s][c]
<1>1. /\ t # None /\ t.stage = "committing" /\ t \in TxType /\ t.stage \in Writing
      /\ BasisOK(s, c) /\ LockOK(s, c) /\ EffectOK(s, c)
  BY DEF StoreInvariant, TypeOK, Commit, TransactionsOK, Writing
<1>2. UNCHANGED <<status, revisions, keys, read, writes, acked, due>> /\ [Next]_vars
  BY DEF Commit, Next
<1>3. /\ Took' = IF t.kind = "delete" THEN Took ELSE Took \cup {t.write}
      /\ removed \subseteq removed' /\ Took \subseteq Took'
  BY CommitTook DEF Commit
<1>4. /\ rows' = [rows EXCEPT ![c] = IF t.kind = "delete" THEN None ELSE t.row]
      /\ \A d \in Codes \ {c} : rows'[d] = rows[d]
      /\ rows'[c] = IF t.kind = "delete" THEN None ELSE t.row
  BY DEF Commit, StoreInvariant, TypeOK
<1>5. /\ \A r \in Stores, d \in Codes : ~(r = s /\ d = c) => tx'[r][d] = tx[r][d]
      /\ tx'[s][c] = IF t.abandoned THEN None ELSE [t EXCEPT !.stage = "committed"]
  BY SMTT(20) DEF Commit, End, Move, StoreInvariant, TypeOK
<1>6. tx'[s][c] # None => /\ tx'[s][c].stage = "committed" /\ tx'[s][c].kind = t.kind /\ ~t.abandoned
                          /\ tx'[s][c].row = t.row /\ tx'[s][c].write = t.write
                          /\ tx'[s][c].abandoned = t.abandoned
  BY <1>1, <1>5 DEF TxType
<1>7. \A d \in Codes, b \in RowType : Believes(d, b) => Believes(d, b)'
  BY <1>2, BeliefStays
<1>8. t.kind # "delete" => /\ t.write \in t.row.payload
                           /\ t.row.incarnation \in t.row.payload
                           /\ \A b \in RowType : b = t.row => Believes(c, b)'
  <2> SUFFICES ASSUME t.kind # "delete", NEW b \in RowType, b = t.row
               PROVE  Believes(c, b)' /\ t.write \in b.payload /\ b.incarnation \in b.payload
    BY <1>1 DEF TxType
  <2>1. t.kind \in {"insert", "update"}
    BY <1>1 DEF TxType
  <2>2. b.payload \subseteq Took' /\ t.write \in b.payload /\ b.incarnation \in b.payload
    <3>1. CASE t.kind = "insert"
      BY <1>1, <1>3, <3>1 DEF EffectOK, Row
    <3>2. CASE t.kind = "update"
      <4>1. /\ rows[c] # None /\ b.payload = rows[c].payload \cup {t.write}
            /\ b.incarnation = rows[c].incarnation
        BY <1>1, <3>2 DEF LockOK, Row
      <4>2. rows[c].payload \subseteq Took /\ rows[c].incarnation \in rows[c].payload
        BY <4>1 DEF Took, Present, StoreInvariant, RowsOK
      <4>3. QED
        BY <1>3, <4>1, <4>2
    <3>3. QED
      BY <2>1, <3>1, <3>2
  <2>3. b.version <= b.version /\ rows'[c] = b
    BY <1>4 DEF RowType
  <2>4. QED
    BY <2>2, <2>3 DEF Believes
<1>9. writes' \in 0..MaxWrites /\ IsFiniteSet(Present)' /\ WithinLimit'
  <2>1. t.kind = "insert" => Cardinality(Present) < MaxRooms
    BY <1>1 DEF StoreInvariant, RoomLeft, Admitting, Admitted
  <2>2. MaxRooms \in Nat /\ Cardinality(Present) <= MaxRooms /\ writes \in 0..MaxWrites
    BY StoreConstants DEF StoreInvariant, WithinLimit
  <2> HIDE DEF t
  <2>3. QED
    BY <1>2, <2>1, <2>2, CommitCount DEF WithinLimit, t
<1>10. RowsOK'
  <2>1. \A d \in Codes : rows'[d] # None => rows'[d].incarnation \in rows'[d].payload
    BY <1>4, <1>8 DEF StoreInvariant, RowsOK, Present
  <2>2. QED
    BY <2>1 DEF RowsOK, Present
<1>11. BeliefsOK'
  <2>1. \A r \in Stores, d \in Codes : /\ revisions[r][d] \in RowType \cup {None}
                                      /\ read[r][d] \in RowType \cup {None}
    BY DEF StoreInvariant, TypeOK
  <2>2. ASSUME NEW r \in Stores, NEW d \in Codes
        PROVE  /\ revisions'[r][d] # None => Believes(d, revisions[r][d])'
               /\ read'[r][d] # None => Believes(d, read[r][d])'
    <3>1. \A b \in RowType : b = revisions[r][d] \/ b = read[r][d] => Believes(d, b)'
      BY <1>7, <2>1, StoreConstants DEF StoreInvariant, BeliefsOK, RowType
    <3>2. QED
      BY <1>2, <2>1, <3>1 DEF Believes
  <2>3. QED
    BY <2>2 DEF BeliefsOK
<1>12. TransactionsOK'
  <2>1. ASSUME NEW r \in Stores, NEW d \in Codes, tx'[r][d] # None, ~(r = s /\ d = c)
        PROVE  (BasisOK(r, d) /\ LockOK(r, d) /\ EffectOK(r, d))'
    <3>1. /\ tx'[r][d] = tx[r][d] /\ tx[r][d] # None /\ BasisOK(r, d) /\ LockOK(r, d) /\ EffectOK(r, d)
          /\ tx[r][d] \in TxType
      BY <1>5, <2>1 DEF StoreInvariant, TransactionsOK, TypeOK
    <3>2. BasisOK(r, d)'
      BY <1>2, <3>1 DEF BasisOK
    <3>3. LockOK(r, d)'
      <4>1. Holds(r, d) => d # c
        BY <1>1, <2>1 DEF StoreInvariant, ExclusionOK, Holds
      <4>2. Holds(r, d) => rows'[d] = rows[d]
        BY <1>4, <4>1
      <4>3. QED
        BY <3>1, <4>2 DEF LockOK, Holds
    <3>4. EffectOK(r, d)'
      <4>1. tx[r][d].row \in RowType
        BY <3>1 DEF TxType
      <4>2. PICK b \in RowType : b = tx[r][d].row
        BY <4>1
      <4>3. Believes(d, b) => Believes(d, b)'
        BY <1>7
      <4>4. tx[r][d].kind # "delete" /\ tx[r][d].stage # "committed" => tx[r][d].write \notin Took'
        BY <1>1, <1>3, <2>1, <3>1 DEF EffectOK, StoreInvariant, ExclusionOK, Saving
      <4>5. writes' = writes
        BY <1>2
      <4>6. QED
        BY <1>3, <3>1, <4>2, <4>3, <4>4, <4>5 DEF EffectOK, Believes
    <3>5. QED
      BY <3>2, <3>3, <3>4
  <2>2. ASSUME tx'[s][c] # None
        PROVE  (BasisOK(s, c) /\ LockOK(s, c) /\ EffectOK(s, c))'
    <3> DEFINE x == tx'[s][c]
    <3>1. /\ x.stage = "committed" /\ x.kind = t.kind /\ x.row = t.row /\ x.write = t.write
          /\ x.abandoned = t.abandoned
      BY <1>6, <2>2
    <3>2. BasisOK(s, c)'
      BY <1>1, <1>2, <3>1 DEF BasisOK
    <3>3. LockOK(s, c)'
      BY <3>1 DEF LockOK, Writing
    <3>4. EffectOK(s, c)'
      <4>1. PICK b \in RowType : b = t.row
        BY <1>1 DEF TxType
      <4>2. t.kind # "delete" => Believes(c, b)' /\ t.write \in b.payload
        BY <1>8, <4>1
      <4>3. t.kind = "delete" => b.payload \subseteq removed'
        BY <1>1, <4>1 DEF LockOK, Commit
      <4>4. /\ t.kind = "insert" => b = Row(1, t.write, {t.write})
            /\ t.kind # "delete" => t.write \in 1..writes'
        BY <1>1, <1>2, <4>1 DEF EffectOK
      <4> HIDE DEF t
      <4>5. QED
        BY <3>1, <4>1, <4>2, <4>3, <4>4 DEF EffectOK, Believes
    <3>5. QED
      BY <3>2, <3>3, <3>4
  <2>3. QED
    BY <2>1, <2>2 DEF TransactionsOK
<1>13. /\ \A r \in Stores, d \in Codes :
            /\ Saving(r, d)' => Saving(r, d) /\ tx'[r][d].write = tx[r][d].write
            /\ Holds(r, d)' => Holds(r, d) /\ ~(r = s /\ d = c)
            /\ Admitting(r, d)' => Admitting(r, d) /\ ~(r = s /\ d = c) /\ tx'[r][d] = tx[r][d]
  <2> SUFFICES ASSUME NEW r \in Stores, NEW d \in Codes
               PROVE  /\ Saving(r, d)' => Saving(r, d) /\ tx'[r][d].write = tx[r][d].write
                      /\ Holds(r, d)' => Holds(r, d) /\ ~(r = s /\ d = c)
                      /\ Admitting(r, d)' => Admitting(r, d) /\ ~(r = s /\ d = c) /\ tx'[r][d] = tx[r][d]
    OBVIOUS
  <2>1. CASE ~(r = s /\ d = c)
    <3>1. tx'[r][d] = tx[r][d]
      BY <1>5, <2>1
    <3>2. QED
      BY <2>1, <3>1 DEF Saving, Holds, Admitting
  <2>2. CASE r = s /\ d = c
    <3>1. /\ tx'[r][d] # None => tx'[r][d].stage = "committed" /\ tx[r][d] # None
          /\ tx'[r][d] # None => tx'[r][d].kind = tx[r][d].kind /\ tx'[r][d].write = tx[r][d].write
      BY <1>1, <1>6, <2>2
    <3>2. "committed" \notin Writing /\ "committed" \notin Admitted
      BY DEF Writing, Admitted
    <3>3. QED
      BY <3>1, <3>2 DEF Saving, Holds, Admitting
  <2>3. QED
    BY <2>1, <2>2
<1>14. ExclusionOK'
  BY <1>13 DEF StoreInvariant, ExclusionOK
<1>15. RoomLeft'
  <2> SUFFICES ASSUME NEW r \in Stores, NEW d \in Codes, Admitting(r, d)', tx'[r][d].stage # "admitted"
               PROVE  Cardinality(Present') < MaxRooms
    BY DEF RoomLeft
  <2>1. Cardinality(Present) < MaxRooms /\ ~(r = s /\ d = c) /\ Admitting(r, d)
    BY <1>13 DEF StoreInvariant, RoomLeft
  <2>2. t.kind # "insert"
    BY <1>1, <2>1 DEF StoreInvariant, ExclusionOK, Admitting, Admitted
  <2>3. QED
    BY <2>1, <2>2, CommitCount, StoreConstants
<1>16. LifeOK'
  <2>1. \A r \in Stores, d \in Codes :
            tx'[r][d] # None => tx[r][d] # None /\ tx'[r][d].abandoned = tx[r][d].abandoned
    BY <1>1, <1>5, <1>6
  <2>2. QED
    BY <1>2, <2>1 DEF StoreInvariant, LifeOK
<1>17. \A write : \A d \in Codes : rows[d] # None /\ write \in rows[d].payload =>
            write \in removed' \/ (rows'[d] # None /\ write \in rows'[d].payload)
  <2> SUFFICES ASSUME NEW write, NEW d \in Codes, rows[d] # None, write \in rows[d].payload
               PROVE  write \in removed' \/ (rows'[d] # None /\ write \in rows'[d].payload)
    OBVIOUS
  <2>1. CASE d # c
    BY <1>4, <2>1
  <2>2. CASE d = c /\ t.kind = "delete"
    BY <2>2 DEF Commit
  <2>3. CASE d = c /\ t.kind # "delete"
    <3>1. t.row = Row(rows[c].version + 1, rows[c].incarnation, rows[c].payload \cup {t.write})
      BY <1>1, <2>3 DEF LockOK, TxType
    <3>2. t.row # None /\ write \in t.row.payload
      BY <1>1, <2>3, <3>1, StoreConstants DEF Row, TxType, RowType
    <3>3. QED
      BY <1>4, <2>3, <3>2
  <2>4. QED
    BY <2>1, <2>2, <2>3
<1>18. DueOK'
  <2>1. Took' \subseteq 1..writes' /\ acked' \subseteq Took'
    BY <1>1, <1>2, <1>3 DEF StoreInvariant, DueOK, EffectOK
  <2>2. ASSUME NEW r \in Stores, status'[r] = "loading", NEW write \in due'[r]
        PROVE  \/ write \in removed'
               \/ \E d \in Codes : \/ d \in keys'[r] /\ rows'[d] # None /\ write \in rows'[d].payload
                                   \/ read'[r][d] # None /\ write \in read'[r][d].payload
    BY <1>2, <1>3, <1>17, <2>2 DEF StoreInvariant, DueOK
  <2>3. QED
    BY <2>1, <2>2 DEF DueOK
<1>19. RecoversAcked'
  BY <1>2, <1>3 DEF StoreInvariant, RecoversAcked
<1>20. QED
  BY <1>9, <1>10, <1>11, <1>12, <1>14, <1>15, <1>16, <1>18, <1>19 DEF StoreInvariant

\* The answer to a COMMIT: the store believes the new row, or none.
LEMMA AnswerStep ==
    ASSUME StoreInvariant, TypeOK', NEW s \in Stores, NEW c \in Codes, Answer(s, c)
    PROVE  StoreInvariant'
<1> DEFINE t == tx[s][c]
<1>1. /\ t # None /\ t.stage = "committed" /\ ~t.abandoned /\ t \in TxType
      /\ BasisOK(s, c) /\ LockOK(s, c) /\ EffectOK(s, c)
  BY DEF StoreInvariant, TypeOK, Answer, Active, TransactionsOK
<1>2. /\ UNCHANGED <<status, keys, read, rows, writes, removed, due>>
      /\ Took' = Took /\ Present' = Present
  BY DEF Answer, Took, Present
<1>3. /\ \A r \in Stores, d \in Codes : ~(r = s /\ d = c) =>
            tx'[r][d] = tx[r][d] /\ revisions'[r][d] = revisions[r][d]
      /\ tx'[s][c] = None
      /\ revisions'[s][c] = IF t.kind = "delete" THEN None ELSE t.row
  BY DEF Answer, End, StoreInvariant, TypeOK
<1>4. writes' \in 0..MaxWrites /\ IsFiniteSet(Present)' /\ WithinLimit' /\ RowsOK'
  BY <1>2 DEF StoreInvariant, WithinLimit, RowsOK
<1>5. BeliefsOK'
  <2>1. \A d \in Codes, b \in RowType : Believes(d, b) => Believes(d, b)'
    BY <1>2 DEF Believes
  <2>2. \A r \in Stores, d \in Codes : /\ revisions'[r][d] \in RowType \cup {None}
                                      /\ read'[r][d] \in RowType \cup {None}
    BY DEF TypeOK
  <2>3. ASSUME NEW r \in Stores, NEW d \in Codes, NEW b \in RowType, b = revisions'[r][d] \/ b = read'[r][d]
        PROVE  Believes(d, b)'
    <3>1. Believes(d, b)
      BY <1>1, <1>2, <1>3, <2>3, StoreConstants DEF StoreInvariant, BeliefsOK, EffectOK, RowType
    <3>2. QED
      BY <2>1, <3>1
  <2>4. QED
    BY <2>2, <2>3 DEF BeliefsOK, Believes
<1>6. TransactionsOK'
  <2> SUFFICES ASSUME NEW r \in Stores, NEW d \in Codes, tx'[r][d] # None
               PROVE  (BasisOK(r, d) /\ LockOK(r, d) /\ EffectOK(r, d))'
    BY DEF TransactionsOK
  <2>1. /\ ~(r = s /\ d = c) /\ tx'[r][d] = tx[r][d] /\ revisions'[r][d] = revisions[r][d]
        /\ BasisOK(r, d) /\ LockOK(r, d) /\ EffectOK(r, d)
    BY <1>3 DEF StoreInvariant, TransactionsOK
  <2>2. BasisOK(r, d)' /\ LockOK(r, d)'
    BY <1>2, <2>1 DEF BasisOK, LockOK
  <2>3. EffectOK(r, d)'
    BY <1>2, <2>1, EffectStays
  <2>4. QED
    BY <2>2, <2>3
<1>7. \A r \in Stores, d \in Codes : tx'[r][d] # None => tx'[r][d] = tx[r][d]
  BY <1>3
<1>8. ExclusionOK' /\ RoomLeft' /\ LifeOK'
  BY <1>2, <1>7 DEF StoreInvariant, ExclusionOK, RoomLeft, LifeOK, Saving, Holds, Admitting
<1>9. DueOK'
  <2>1. acked' \subseteq Took
    BY <1>1 DEF Answer, StoreInvariant, DueOK, EffectOK, Believes
  <2>2. QED
    BY <1>2, <2>1 DEF StoreInvariant, DueOK
<1>10. RecoversAcked'
  <2>1. ASSUME NEW write, revisions[s][c] # None, write \in revisions[s][c].payload
        PROVE  write \in removed \/ (revisions'[s][c] # None /\ write \in revisions'[s][c].payload)
    <3>1. CASE t.kind = "delete"
      BY <1>1, <2>1, <3>1 DEF BasisOK, EffectOK
    <3>2. CASE t.kind # "delete"
      <4>1. t.row = Row(revisions[s][c].version + 1, revisions[s][c].incarnation,
                        revisions[s][c].payload \cup {t.write})
        BY <1>1, <2>1, <3>2 DEF BasisOK, TxType
      <4>2. t.row # None /\ write \in t.row.payload
        BY <1>1, <2>1, <4>1, StoreConstants DEF Row, TxType, RowType
      <4>3. QED
        BY <1>3, <3>2, <4>2
    <3>3. QED
      BY <3>1, <3>2
  <2>2. QED
    BY <1>2, <1>3, <2>1 DEF StoreInvariant, RecoversAcked
<1>11. QED
  BY <1>4, <1>5, <1>6, <1>8, <1>9, <1>10 DEF StoreInvariant

\* A failure ends a transaction, or leaves its end to the database.
LEMMA FailureStep ==
    ASSUME StoreInvariant, TypeOK', NEW s \in Stores, NEW c \in Codes,
           Fail(s, c) \/ Abandon(s, c) \/ Rollback(s, c)
    PROVE  StoreInvariant'
<1> DEFINE t == tx[s][c]
<1>1. /\ t # None /\ t \in TxType /\ BasisOK(s, c) /\ LockOK(s, c) /\ EffectOK(s, c)
      /\ status[s] \notin {"new", "loading"}
      /\ UNCHANGED <<revisions, keys, read, rows, writes, removed, acked, due>>
  BY DEF Fail, Abandon, Rollback, Active, StoreInvariant, TypeOK, TransactionsOK, LifeOK
<1>2. \A r \in Stores : status'[r] = status[r] \/ (r = s /\ status[s] = "open" /\ status'[s] = "failed")
  BY DEF Fail, Abandon, Rollback, StoreInvariant, TypeOK
<1>3. CASE End(s, c)
  BY <1>1, <1>2, <1>3, EndStep
<1>4. CASE Abandon(s, c) /\ t.stage = "committed"
  <2>1. End(s, c)
    BY <1>4 DEF Abandon, End, StoreInvariant, TypeOK
  <2>2. QED
    BY <1>1, <1>2, <2>1, EndStep
<1>5. CASE Abandon(s, c) /\ t.stage # "committed"
  <2> DEFINE x == [t EXCEPT !.abandoned = TRUE]
  <2>1. /\ x \in TxType /\ x.stage = t.stage /\ x.kind = t.kind /\ x.row = t.row /\ x.write = t.write
        /\ x.abandoned
    BY <1>1 DEF TxType
  <2>2. tx' = [tx EXCEPT ![s][c] = x] /\ tx'[s][c] = x
    BY <1>5 DEF Abandon, StoreInvariant, TypeOK
  <2>3. status'[s] \in {"failed", "gone"}
    BY <1>1, <1>5 DEF Abandon, StoreInvariant, TypeOK
  <2>4. TransactionFits(s, c, x)
    BY <1>1, <2>1 DEF TransactionFits, StoreInvariant, ExclusionOK, RoomLeft, Saving, Holds, Admitting
  <2>5. Took' = Took
    BY <1>1 DEF Took, Present
  <2> HIDE DEF x
  <2>6. BasisOK(s, c)' /\ LockOK(s, c)'
    BY <1>1, <2>1, <2>2 DEF BasisOK, LockOK
  <2>7. EffectOK(s, c)'
    BY <1>1, <1>5, <2>1, <2>2, <2>5 DEF EffectOK
  <2>8. x \in TxType \cup {None} /\ writes' \in {writes, writes + 1} /\ writes' <= MaxWrites
    BY <1>1, <2>1 DEF StoreInvariant
  <2>9. x # None => /\ status[s] \notin {"new", "loading"}
                    /\ status'[s] = "gone" => x.abandoned
                    /\ x.abandoned => status'[s] \in {"failed", "gone"}
    BY <1>1, <2>1, <2>3
  <2>10. QED
    BY <1>1, <1>2, <2>2, <2>4, <2>6, <2>7, <2>8, <2>9, TxChange
<1>6. QED
  BY <1>3, <1>4, <1>5 DEF Fail, Rollback

\* A crash abandons what the process had under way, and forgets what it knew.
LEMMA CrashStep ==
    ASSUME StoreInvariant, TypeOK', NEW s \in Stores, Crash(s)
    PROVE  StoreInvariant'
<1>1. /\ UNCHANGED <<rows, writes, removed, acked, due>> /\ Took' = Took /\ Present' = Present
  BY DEF Crash, Took, Present
<1>2. /\ \A r \in Stores \ {s} : /\ status'[r] = status[r] /\ tx'[r] = tx[r] /\ keys'[r] = keys[r]
                               /\ read'[r] = read[r] /\ revisions'[r] = revisions[r]
      /\ status'[s] = "gone" /\ read'[s] = NoRows /\ revisions'[s] = NoRows
  BY DEF Crash, StoreInvariant, TypeOK
<1>3. \A c \in Codes : tx'[s][c] # None =>
         /\ tx[s][c] # None /\ tx[s][c].stage # "committed" /\ tx[s][c] \in TxType
         /\ tx'[s][c] = [tx[s][c] EXCEPT !.abandoned = TRUE]
  BY DEF Crash, StoreInvariant, TypeOK
<1>4. \A r \in Stores, c \in Codes : tx'[r][c] # None =>
         /\ tx[r][c] # None /\ tx'[r][c].kind = tx[r][c].kind /\ tx'[r][c].stage = tx[r][c].stage
         /\ tx'[r][c].row = tx[r][c].row /\ tx'[r][c].write = tx[r][c].write
         /\ r = s => tx'[r][c].abandoned /\ tx'[r][c].stage # "committed"
         /\ r # s => tx'[r][c] = tx[r][c]
  <2> SUFFICES ASSUME NEW r \in Stores, NEW c \in Codes, tx'[r][c] # None
               PROVE  /\ tx[r][c] # None /\ tx'[r][c].kind = tx[r][c].kind /\ tx'[r][c].stage = tx[r][c].stage
                      /\ tx'[r][c].row = tx[r][c].row /\ tx'[r][c].write = tx[r][c].write
                      /\ r = s => tx'[r][c].abandoned /\ tx'[r][c].stage # "committed"
                      /\ r # s => tx'[r][c] = tx[r][c]
    OBVIOUS
  <2>1. CASE r = s
    BY <1>3, <2>1 DEF TxType
  <2>2. CASE r # s
    BY <1>2, <2>2
  <2>3. QED
    BY <2>1, <2>2
<1>5. writes' \in 0..MaxWrites /\ IsFiniteSet(Present)' /\ WithinLimit' /\ RowsOK'
  BY <1>1 DEF StoreInvariant, WithinLimit, RowsOK
<1>6. BeliefsOK'
  BY <1>1, <1>2 DEF StoreInvariant, BeliefsOK, Believes, NoRows
<1>7. TransactionsOK'
  <2> SUFFICES ASSUME NEW r \in Stores, NEW c \in Codes, tx'[r][c] # None
               PROVE  (BasisOK(r, c) /\ LockOK(r, c) /\ EffectOK(r, c))'
    BY DEF TransactionsOK
  <2>1. BasisOK(r, c) /\ LockOK(r, c) /\ EffectOK(r, c) /\ tx[r][c] # None
    BY <1>4 DEF StoreInvariant, TransactionsOK
  <2>2. CASE r = s
    <3>1. BasisOK(r, c)' /\ LockOK(r, c)'
      BY <1>1, <1>4, <2>1, <2>2 DEF BasisOK, LockOK
    <3>2. EffectOK(r, c)'
      BY <1>1, <1>4, <2>1, <2>2 DEF EffectOK
    <3>3. QED
      BY <3>1, <3>2
  <2>3. CASE r # s
    <3>1. BasisOK(r, c)' /\ LockOK(r, c)'
      BY <1>1, <1>2, <2>1, <2>3 DEF BasisOK, LockOK
    <3>2. EffectOK(r, c)'
      BY <1>1, <1>4, <2>1, <2>3, EffectStays
    <3>3. QED
      BY <3>1, <3>2
  <2>4. QED
    BY <2>2, <2>3
<1>8. ExclusionOK' /\ RoomLeft'
  BY <1>1, <1>4 DEF StoreInvariant, ExclusionOK, RoomLeft, Saving, Holds, Admitting
<1>9. LifeOK'
  <2>1. keys'[s] = {}
    BY DEF Crash, StoreInvariant, TypeOK
  <2>2. QED
    BY <1>2, <1>4, <2>1 DEF StoreInvariant, LifeOK, NoRows
<1>10. DueOK'
  BY <1>1, <1>2 DEF StoreInvariant, DueOK
<1>11. RecoversAcked'
  BY <1>1, <1>2 DEF StoreInvariant, RecoversAcked
<1>12. QED
  BY <1>5, <1>6, <1>7, <1>8, <1>9, <1>10, <1>11 DEF StoreInvariant

\* The steps of a load: they write nothing, and the process has no transaction.
LEMMA LoadStep ==
    ASSUME StoreInvariant, TypeOK', NEW s \in Stores,
           BeginLoad(s) \/ FinishLoad(s) \/ \E c \in Codes : LoadRow(s, c)
    PROVE  StoreInvariant'
<1>1. /\ UNCHANGED <<tx, rows, writes, removed, acked>> /\ Took' = Took /\ Present' = Present
      /\ \A c \in Codes : tx[s][c] = None
  BY DEF BeginLoad, FinishLoad, LoadRow, Took, Present, StoreInvariant, LifeOK
<1>2. \A r \in Stores \ {s} : /\ status'[r] = status[r] /\ keys'[r] = keys[r] /\ read'[r] = read[r]
                            /\ revisions'[r] = revisions[r] /\ due'[r] = due[r]
  BY DEF BeginLoad, FinishLoad, LoadRow, StoreInvariant, TypeOK
<1>3. writes' \in 0..MaxWrites /\ IsFiniteSet(Present)' /\ WithinLimit' /\ RowsOK'
  BY <1>1 DEF StoreInvariant, WithinLimit, RowsOK
<1>4. BeliefsOK'
  <2>1. \A c \in Codes, b \in RowType : Believes(c, b) => Believes(c, b)'
    BY <1>1 DEF Believes
  <2>2. \A c \in Codes : rows[c] # None => Believes(c, rows[c])
    BY DEF StoreInvariant, TypeOK, RowsOK, Believes, Took, Present, RowType
  <2>3. ASSUME NEW r \in Stores, NEW c \in Codes, NEW b \in RowType, b = revisions'[r][c] \/ b = read'[r][c]
        PROVE  Believes(c, b)'
    <3>1. b \in {revisions[r][c], read[r][c], rows[c]}
      BY <2>3, StoreConstants, SMTT(20) DEF BeginLoad, FinishLoad, LoadRow, NoRows, StoreInvariant, TypeOK, RowType
    <3>2. Believes(c, b)
      BY <2>2, <3>1, StoreConstants DEF StoreInvariant, BeliefsOK, RowType
    <3>3. QED
      BY <2>1, <3>2
  <2>4. QED
    BY <2>3 DEF BeliefsOK, Believes, TypeOK
<1>5. TransactionsOK'
  <2> SUFFICES ASSUME NEW r \in Stores, NEW c \in Codes, tx'[r][c] # None
               PROVE  (BasisOK(r, c) /\ LockOK(r, c) /\ EffectOK(r, c))'
    BY DEF TransactionsOK
  <2>1. r # s /\ tx'[r][c] = tx[r][c] /\ BasisOK(r, c) /\ LockOK(r, c) /\ EffectOK(r, c)
    BY <1>1 DEF StoreInvariant, TransactionsOK
  <2>2. BasisOK(r, c)' /\ LockOK(r, c)'
    BY <1>1, <1>2, <2>1 DEF BasisOK, LockOK
  <2>3. EffectOK(r, c)'
    BY <1>1, <2>1, EffectStays
  <2>4. QED
    BY <2>2, <2>3
<1>6. ExclusionOK' /\ RoomLeft'
  BY <1>1 DEF StoreInvariant, ExclusionOK, RoomLeft, Saving, Holds, Admitting
<1>7. LifeOK'
  <2>1. /\ status'[s] \in {"loading", "open"}
        /\ status'[s] = "open" => read'[s] = NoRows
    BY DEF BeginLoad, FinishLoad, LoadRow, StoreInvariant, TypeOK
  <2>2. \A c \in keys'[s] : read'[s][c] = None
    BY DEF BeginLoad, FinishLoad, LoadRow, StoreInvariant, TypeOK, LifeOK, NoRows, Present
  <2>3. QED
    BY <1>1, <1>2, <2>1, <2>2 DEF StoreInvariant, LifeOK, NoRows
<1>8. DueOK'
  <2>1. ASSUME status'[s] = "loading", NEW write \in due'[s]
        PROVE  \/ write \in removed
               \/ \E c \in Codes : \/ c \in keys'[s] /\ rows[c] # None /\ write \in rows[c].payload
                                   \/ read'[s][c] # None /\ write \in read'[s][c].payload
    <3>1. CASE BeginLoad(s)
      <4>1. write \in Took /\ keys'[s] = Present
        BY <2>1, <3>1 DEF BeginLoad, StoreInvariant, TypeOK, DueOK
      <4>2. QED
        BY <4>1 DEF Took, Present
    <3>2. ASSUME NEW d \in Codes, LoadRow(s, d)
          PROVE  \/ write \in removed
                 \/ \E c \in Codes : \/ c \in keys'[s] /\ rows[c] # None /\ write \in rows[c].payload
                                     \/ read'[s][c] # None /\ write \in read'[s][c].payload
      <4>1. /\ status[s] = "loading" /\ due' = due /\ d \in keys[s]
            /\ keys'[s] = keys[s] \ {d} /\ read'[s] = [read[s] EXCEPT ![d] = rows[d]]
            /\ read[s] \in [Codes -> RowType \cup {None}]
        BY <3>2 DEF LoadRow, StoreInvariant, TypeOK
      <4>2. read'[s][d] = rows[d] /\ \A c \in Codes \ {d} : read'[s][c] = read[s][c]
        BY <4>1
      <4>3. \/ write \in removed
            \/ \E c \in Codes : \/ c \in keys[s] /\ rows[c] # None /\ write \in rows[c].payload
                                \/ read[s][c] # None /\ write \in read[s][c].payload
        BY <2>1, <4>1 DEF StoreInvariant, DueOK
      <4>4. QED
        BY <4>1, <4>2, <4>3 DEF StoreInvariant, LifeOK
    <3>3. QED
      BY <2>1, <3>1, <3>2 DEF FinishLoad, StoreInvariant, TypeOK
  <2>2. \A r \in Stores : r # s \/ status'[s] = "loading" \/ status'[r] = "open"
    BY DEF BeginLoad, FinishLoad, LoadRow, StoreInvariant, TypeOK
  <2>3. QED
    BY <1>1, <1>2, <2>1, <2>2 DEF StoreInvariant, DueOK
<1>9. RecoversAcked'
  <2>1. CASE FinishLoad(s)
    <3>1. /\ status[s] = "loading" /\ keys[s] = {} /\ due' = due /\ revisions'[s] = read[s]
      BY <2>1 DEF FinishLoad, StoreInvariant, TypeOK
    <3>2. QED
      BY <1>1, <1>2, <3>1 DEF StoreInvariant, DueOK, RecoversAcked
  <2>2. CASE ~FinishLoad(s)
    <3>1. status'[s] = "loading"
      BY <2>2 DEF BeginLoad, LoadRow, StoreInvariant, TypeOK
    <3>2. QED
      BY <1>1, <1>2, <3>1 DEF StoreInvariant, RecoversAcked
  <2>3. QED
    BY <2>1, <2>2
<1>10. QED
  BY <1>3, <1>4, <1>5, <1>6, <1>7, <1>8, <1>9 DEF StoreInvariant

\* The invariant holds of an empty database, with no process.
LEMMA StoreStarts == Init => StoreInvariant
<1> SUFFICES ASSUME Init PROVE StoreInvariant
  OBVIOUS
<1> USE DEF Init, NoRows
<1>1. Present = {} /\ Took = {}
  BY DEF Present, Took
<1>2. TypeOK
  BY DEF TypeOK
<1>3. writes \in 0..MaxWrites /\ IsFiniteSet(Present) /\ WithinLimit
  BY <1>1, FS_EmptySet, StoreConstants DEF WithinLimit
<1>4. RowsOK /\ BeliefsOK /\ TransactionsOK
  BY <1>1 DEF RowsOK, BeliefsOK, TransactionsOK
<1>5. ExclusionOK /\ RoomLeft
  BY DEF ExclusionOK, RoomLeft, Saving, Holds, Admitting
<1>6. LifeOK /\ DueOK /\ RecoversAcked
  BY <1>1 DEF LifeOK, DueOK, RecoversAcked
<1>7. QED
  BY <1>2, <1>3, <1>4, <1>5, <1>6 DEF StoreInvariant

\* Every step keeps the invariant.
LEMMA StoreStep == StoreInvariant /\ [Next]_vars => StoreInvariant'
<1> SUFFICES ASSUME StoreInvariant, [Next]_vars PROVE StoreInvariant'
  OBVIOUS
<1>1. TypeOK'
  BY TypeStep DEF StoreInvariant
<1>2. CASE UNCHANGED vars
  <2>1. Took' = Took /\ Present' = Present
    BY <1>2 DEF vars, Took, Present
  <2>2. WithinLimit' /\ RowsOK' /\ BeliefsOK' /\ writes' \in 0..MaxWrites /\ IsFiniteSet(Present)'
    BY <1>2, <2>1 DEF vars, StoreInvariant, WithinLimit, RowsOK, BeliefsOK, Believes
  <2>3. TransactionsOK'
    <3> SUFFICES ASSUME NEW r \in Stores, NEW c \in Codes, tx'[r][c] # None
                 PROVE  (BasisOK(r, c) /\ LockOK(r, c) /\ EffectOK(r, c))'
      BY DEF TransactionsOK
    <3>1. BasisOK(r, c) /\ LockOK(r, c) /\ EffectOK(r, c)
      BY <1>2 DEF vars, StoreInvariant, TransactionsOK
    <3>2. BasisOK(r, c)' /\ LockOK(r, c)'
      BY <1>2, <3>1 DEF vars, BasisOK, LockOK
    <3>3. EffectOK(r, c)'
      BY <1>2, <2>1, <3>1, EffectStays DEF vars
    <3>4. QED
      BY <3>2, <3>3
  <2>4. ExclusionOK' /\ RoomLeft' /\ LifeOK'
    BY <1>2, <2>1 DEF vars, StoreInvariant, ExclusionOK, RoomLeft, LifeOK, Saving, Holds, Admitting
  <2>5. DueOK' /\ RecoversAcked'
    BY <1>2, <2>1 DEF vars, StoreInvariant, DueOK, RecoversAcked
  <2>6. QED
    BY <1>1, <2>2, <2>3, <2>4, <2>5 DEF StoreInvariant
<1>3. ASSUME NEW s \in Stores, BeginLoad(s) \/ FinishLoad(s) \/ Crash(s)
      PROVE  StoreInvariant'
  BY <1>1, <1>3, LoadStep, CrashStep
<1>4. ASSUME NEW s \in Stores, NEW c \in Codes,
             \/ LoadRow(s, c) \/ BeginSave(s, c) \/ BeginRemove(s, c) \/ Admit(s, c) \/ CountRooms(s, c)
             \/ InsertRow(s, c) \/ ChangeRow(s, c) \/ SendCommit(s, c) \/ Commit(s, c) \/ Answer(s, c)
             \/ Fail(s, c) \/ Abandon(s, c) \/ Rollback(s, c)
      PROVE  StoreInvariant'
  BY <1>1, <1>4, LoadStep, BeginStep, StatementStep, CommitStep, AnswerStep, FailureStep
<1>5. QED
  BY <1>2, <1>3, <1>4 DEF Next

-----------------------------------------------------------------------------
(* What the store keeps.                                                   *)

\* The named parts above hold together in every reachable state.
THEOREM StoreInvariantHolds == Spec => []StoreInvariant
BY StoreStarts, StoreStep, PTL DEF Spec

\* Every variable keeps the shape the code and the schema give it.
THEOREM StoreTypeOK == Spec => []TypeOK
<1>1. StoreInvariant => TypeOK
  BY DEF StoreInvariant
<1>2. QED
  BY <1>1, StoreInvariantHolds, PTL

\* Whatever transactions interleave, fail or end late, the table never holds
\* more than MAX_ROOMS rows.
THEOREM StaysWithinLimit == Spec => []WithinLimit
<1>1. StoreInvariant => WithinLimit
  BY DEF StoreInvariant
<1>2. QED
  BY <1>1, StoreInvariantHolds, PTL

\* A process that has loaded knows all that was acknowledged when it began.
THEOREM LoadRecoversAcked == Spec => []RecoversAcked
<1>1. StoreInvariant => RecoversAcked
  BY DEF StoreInvariant
<1>2. QED
  BY <1>1, StoreInvariantHolds, PTL

-----------------------------------------------------------------------------
(* The store implements RecordStore.                                       *)

Recorded == [c \in Codes |-> IF rows[c] = None THEN None ELSE rows[c].payload]

\* A Room has a record exactly when it has a row.
LEMMA RecordedRows ==
    ASSUME StoreInvariant, NEW c \in Codes
    PROVE  Recorded[c] = None <=> rows[c] = None
<1>1. rows[c] # None => rows[c].payload \subseteq Took
  BY DEF Took, Present
<1>2. Took \subseteq 1..MaxWrites
  BY StoreConstants DEF StoreInvariant, DueOK
<1>3. QED
  BY <1>1, <1>2, StoreConstants DEF Recorded

\* The writes the abstract store holds or has removed are those in effect.
LEMMA HeldTook ==
    ASSUME StoreInvariant
    PROVE  Records!Held \cup removed = Took
<1>1. Records!Held = UNION {Recorded[c] : c \in {d \in Codes : Recorded[d] # None}}
  BY DEF Records!Held, Recorded
<1>2. {d \in Codes : Recorded[d] # None} = Present
  BY RecordedRows DEF Present
<1>3. \A c \in Present : Recorded[c] = rows[c].payload
  BY DEF Recorded, Present
<1>4. QED
  BY <1>1, <1>2, <1>3 DEF Took

\* Every step of the store is a step of the abstract one, or none.
LEMMA RecordStep == StoreInvariant /\ [Next]_vars => [Records!Next]_(Records!store)
<1> SUFFICES ASSUME StoreInvariant, [Next]_vars PROVE [Records!Next]_(Records!store)
  OBVIOUS
<1>1. ASSUME NEW s \in Stores, NEW c \in Codes, Commit(s, c)
      PROVE  Records!Next
  <2> DEFINE t == tx[s][c]
  <2>1. /\ t # None /\ t.stage = "committing" /\ t \in TxType /\ LockOK(s, c) /\ EffectOK(s, c)
        /\ rows \in [Codes -> RowType \cup {None}] /\ acked' = acked
    BY <1>1 DEF Commit, StoreInvariant, TypeOK, TransactionsOK
  <2>2. CASE t.kind = "delete"
    <3>1. /\ rows[c] # None /\ rows' = [rows EXCEPT ![c] = None]
          /\ removed' = removed \cup rows[c].payload
      BY <1>1, <2>1, <2>2 DEF Commit, LockOK, Writing
    <3>2. Recorded[c] # None /\ Recorded[c] = rows[c].payload
      BY <3>1, RecordedRows DEF Recorded
    <3>3. Recorded' = [Recorded EXCEPT ![c] = None]
      BY <2>1, <3>1 DEF Recorded
    <3>4. Records!Remove(c)
      BY <2>1, <3>1, <3>2, <3>3 DEF Records!Remove, Recorded
    <3>5. QED
      BY <3>4 DEF Records!Next
  <2>3. CASE t.kind # "delete"
    <3>1. /\ rows' = [rows EXCEPT ![c] = t.row] /\ removed' = removed
          /\ t.write \in 1..MaxWrites /\ t.write \notin Records!Held \cup removed
          /\ t.row # None /\ t.kind \in {"insert", "update"}
      BY <1>1, <2>1, <2>3, HeldTook, StoreConstants DEF Commit, EffectOK, StoreInvariant, TxType, RowType
    <3>2. Recorded' = [Recorded EXCEPT ![c] = t.row.payload]
      BY <2>1, <3>1 DEF Recorded
    <3>3. CASE t.kind = "insert"
      <4>1. t.row.payload = {t.write} /\ Recorded[c] = None
        BY <2>1, <3>3 DEF LockOK, EffectOK, Writing, Row, Recorded
      <4>2. PICK write \in 1..MaxWrites : write = t.write
        BY <3>1
      <4>3. Records!Create(c, write)
        BY <2>1, <3>1, <3>2, <4>1, <4>2 DEF Records!Create, Recorded
      <4>4. QED
        BY <4>3 DEF Records!Next
    <3>4. CASE t.kind = "update"
      <4>1. rows[c] # None /\ t.row.payload = rows[c].payload \cup {t.write}
        BY <2>1, <3>4 DEF LockOK, Writing, Row
      <4>2. Recorded[c] # None /\ Recorded[c] = rows[c].payload
        BY <4>1, RecordedRows DEF Recorded
      <4>3. PICK write \in 1..MaxWrites : write = t.write
        BY <3>1
      <4>4. Records!Update(c, write)
        BY <2>1, <3>1, <3>2, <4>1, <4>2, <4>3 DEF Records!Update, Recorded
      <4>5. QED
        BY <4>4 DEF Records!Next
    <3>5. QED
      BY <3>1, <3>3, <3>4
  <2>4. QED
    BY <2>2, <2>3
<1>2. ASSUME NEW s \in Stores, NEW c \in Codes, Answer(s, c)
      PROVE  [Records!Next]_(Records!store)
  <2> DEFINE t == tx[s][c]
  <2>1. /\ t # None /\ t.stage = "committed" /\ EffectOK(s, c) /\ UNCHANGED <<rows, removed>>
        /\ t \in TxType
    BY <1>2 DEF Answer, Active, StoreInvariant, TypeOK, TransactionsOK
  <2>2. CASE t.kind = "delete"
    BY <1>2, <2>1, <2>2 DEF Answer, Records!store
  <2>3. CASE t.kind # "delete"
    <3>1. acked' = acked \cup {t.write} /\ t.write \in 1..writes
      BY <1>2, <2>1, <2>3 DEF Answer, EffectOK
    <3>2. t.write \in Took
      BY <2>1, <2>3 DEF EffectOK, Believes
    <3>3. 1..writes \subseteq 1..MaxWrites
      BY StoreConstants DEF StoreInvariant
    <3>4. PICK write \in 1..MaxWrites : write = t.write
      BY <3>1, <3>3
    <3>5. Records!Acknowledge(write)
      BY <2>1, <3>1, <3>2, <3>4, HeldTook DEF Records!Acknowledge
    <3>6. QED
      BY <3>5 DEF Records!Next
  <2>4. QED
    BY <2>2, <2>3
<1>3. CASE UNCHANGED <<rows, removed, acked>>
  BY <1>3 DEF Records!store
<1>4. CASE UNCHANGED vars
  BY <1>3, <1>4 DEF vars
<1>5. ASSUME NEW s \in Stores, BeginLoad(s) \/ FinishLoad(s) \/ Crash(s)
      PROVE  UNCHANGED <<rows, removed, acked>>
  BY <1>5 DEF BeginLoad, FinishLoad, Crash
<1>6. ASSUME NEW s \in Stores, NEW c \in Codes,
             \/ LoadRow(s, c) \/ BeginSave(s, c) \/ BeginRemove(s, c)
             \/ Fail(s, c) \/ Abandon(s, c) \/ Rollback(s, c)
      PROVE  UNCHANGED <<rows, removed, acked>>
  BY <1>6 DEF LoadRow, BeginSave, BeginRemove, Begin, Fail, Abandon, Rollback
<1>7. ASSUME NEW s \in Stores, NEW c \in Codes,
             \/ Admit(s, c) \/ CountRooms(s, c) \/ InsertRow(s, c) \/ ChangeRow(s, c) \/ SendCommit(s, c)
      PROVE  UNCHANGED <<rows, removed, acked>>
  BY <1>7 DEF Admit, CountRooms, InsertRow, ChangeRow, SendCommit, Statement
<1>8. QED
  BY <1>1, <1>2, <1>3, <1>4, <1>5, <1>6, <1>7 DEF Next

\* The transactions of all processes together are one atomic record per Room
\* that loses no write.
THEOREM ImplementsRecords == Spec => KeepsRecords
<1>1. Init => Records!Init
  BY DEF Init, NoRows, Records!Init
<1>2. QED
  BY <1>1, RecordStep, StoreInvariantHolds, PTL DEF Spec, KeepsRecords, Records!Spec

-----------------------------------------------------------------------------
(* Single-player games: the invariant.                                     *)

\* A game as TurnOrder moves it on: the setup counts the placements.
GameType == [order : Orders, setup : Nat \cup {Null}, current : Players, half : {1, 2},
             card : BOOLEAN, owing : SUBSET Players, more : Nat, winner : Players \cup {Null}]
Playable(g) == g \in GameType /\ (g.setup # Null => g.setup \in 1..2 * Len(g.order))

MemoryType == [game : {g \in GameType : Playable(g)}, identity : (Nat \cup {Null}) \X Players,
               keys : 0..Budget + MaxKeys, offers : Nat]

\* What the gateway remembers is about the turn its game is in.
Sound(m, count) == m \in MemoryType /\ m.keys = count /\ m.identity = Turns!Identity(m.game)

\* There is a game whenever the page shows one or an operation is under way.
Held == /\ memory = Null \/ Sound(memory, tally)
        /\ step # "idle" \/ screen = "GAME" => Sound(memory, tally)
\* The computer player has a command left.
Allowed == step = "choose" => memory.keys < Budget
\* A save that can be read is of a game and of the counts that go with it.
Stored == \/ disk \in {Null, Corrupt}
          \/ disk = [memory |-> disk.memory, tally |-> disk.tally] /\ Sound(disk.memory, disk.tally)

LocalInvariant == Held /\ Allowed /\ Stored /\ SavedIsDurable

-----------------------------------------------------------------------------
(* TurnOrder: every command leaves a game that can be played on.           *)

\* An order names every player once, and there are two at least.
LEMMA OrderFacts ==
  ASSUME NEW order \in Orders
  PROVE  /\ order \in Seq(Players) /\ Len(order) \in Nat /\ Len(order) > 1 /\ DOMAIN order = 1..Len(order)
         /\ \A i \in 1..Len(order) : order[i] \in Players
         /\ \A i, j \in 1..Len(order) : order[i] = order[j] => i = j
         /\ \A p \in Players : \E i \in 1..Len(order) : order[i] = p
<1>1. order \in Seq(Players) /\ Len(order) > 1 /\ ToSet(order) = Players /\ IsInjective(order)
  BY OrdersAssumption
<1>2. DOMAIN order = 1..Len(order) /\ Len(order) \in Nat
  BY <1>1
<1>3. QED
  BY <1>1, <1>2 DEF ToSet, IsInjective

\* A new game can be played.
LEMMA NewGameFacts ==
  ASSUME NEW order \in Orders
  PROVE  Playable(Turns!NewGame(order))
<1>1. order[1] \in Players /\ Len(order) \in Nat /\ Len(order) > 1
  BY OrderFacts
<1>2. QED
  BY <1>1 DEF Playable, GameType, Turns!NewGame

\* The next turn is another turn.
LEMMA NextTurnFacts ==
  ASSUME NEW g, Playable(g)
  PROVE  /\ Playable(Turns!NextTurn(g))
         /\ Turns!Identity(Turns!NextTurn(g)) # Turns!Identity(g)
<1> DEFINE n == Len(g.order)
           i == CHOOSE i \in 1..n : g.order[i] = g.current
           placed == g.setup + 1
           fresh == [g EXCEPT !.half = 1, !.card = FALSE, !.owing = {}, !.more = 0]
           next == Turns!NextTurn(g)
<1>1. /\ g \in GameType /\ g.order \in Orders /\ g.current \in Players /\ g.setup \in Nat \cup {Null}
      /\ g.setup # Null => g.setup \in 1..2 * n
  BY DEF Playable, GameType
<1>2. /\ n \in Nat /\ n > 1 /\ \A j \in 1..n : g.order[j] \in Players
      /\ \A j, k \in 1..n : g.order[j] = g.order[k] => j = k
      /\ \E j \in 1..n : g.order[j] = g.current
  BY <1>1, OrderFacts
<1>3. i \in 1..n /\ g.order[i] = g.current
  BY <1>2
<1>4. /\ fresh \in GameType /\ fresh.order = g.order /\ fresh.setup = g.setup /\ fresh.current = g.current
  BY <1>1 DEF GameType
<1>5. next = IF g.setup = Null THEN [fresh EXCEPT !.current = g.order[(i % n) + 1]]
             ELSE IF g.setup = 2 * n THEN [fresh EXCEPT !.setup = Null, !.current = g.order[1]]
             ELSE [fresh EXCEPT !.setup = placed,
                                !.current = g.order[IF placed <= n THEN placed ELSE 2 * n + 1 - placed]]
  BY DEF Turns!NextTurn
<1>6. Null \notin Nat
  BY OrdersAssumption
<1> HIDE DEF n, i, fresh, next
<1>7. CASE g.setup = Null
  <2>1. (i % n) + 1 \in 1..n /\ (i % n) + 1 # i
    BY <1>2, <1>3
  <2>2. PICK p : p = g.order[(i % n) + 1]
    OBVIOUS
  <2>3. p \in Players /\ p # g.current
    BY <1>2, <1>3, <2>1, <2>2
  <2>4. next = [fresh EXCEPT !.current = p]
    BY <1>5, <1>7, <2>2
  <2>5. next \in GameType /\ next.setup = Null /\ next.current = p
    BY <1>4, <1>7, <2>3, <2>4 DEF GameType
  <2>6. QED
    BY <2>3, <2>5 DEF Playable, next, Turns!Identity
<1>8. CASE g.setup # Null /\ g.setup = 2 * n
  <2>1. next = [fresh EXCEPT !.setup = Null, !.current = g.order[1]]
    BY <1>5, <1>8
  <2>2. PICK p : p = g.order[1]
    OBVIOUS
  <2>3. p \in Players
    BY <1>2, <2>2
  <2>4. next \in GameType /\ next.setup = Null
    BY <1>4, <2>1, <2>2, <2>3 DEF GameType
  <2>5. QED
    BY <1>8, <2>4 DEF Playable, next, Turns!Identity
<1>9. CASE g.setup # Null /\ g.setup # 2 * n
  <2>1. placed \in 1..2 * n /\ placed # g.setup /\ placed # Null /\ placed \in Nat
    BY <1>1, <1>2, <1>6, <1>9
  <2>2. PICK at : at = IF placed <= n THEN placed ELSE 2 * n + 1 - placed
    OBVIOUS
  <2>3. at \in 1..n
    BY <1>2, <2>1, <2>2
  <2>4. PICK p : p = g.order[at]
    OBVIOUS
  <2>5. p \in Players
    BY <1>2, <2>3, <2>4
  <2> HIDE DEF placed
  <2>6. next = [fresh EXCEPT !.setup = placed, !.current = p]
    BY <1>5, <1>9, <2>2, <2>4
  <2>7. next \in GameType /\ next.setup = placed /\ next.order = g.order
    BY <1>4, <2>1, <2>5, <2>6 DEF GameType
  <2>8. QED
    BY <2>1, <2>7 DEF Playable, next, n, Turns!Identity
<1>10. QED
  BY <1>7, <1>8, <1>9

\* Fields other than the turn may change freely.
LEMMA SameTurnFacts ==
  ASSUME NEW g, Playable(g)
  PROVE  /\ \A half \in {1, 2} : Playable([g EXCEPT !.half = half])
         /\ Playable([g EXCEPT !.card = TRUE])
         /\ \A owing \in SUBSET Players : Playable([g EXCEPT !.owing = owing])
         /\ \A owing \in SUBSET Players, more \in Nat : Playable([g EXCEPT !.owing = owing, !.more = more])
         /\ Playable([g EXCEPT !.winner = g.current])
<1>1. g \in GameType /\ g.current \in Players /\ (g.setup # Null => g.setup \in 1..2 * Len(g.order))
  BY DEF Playable, GameType
<1>2. ASSUME NEW h, h \in GameType, h.setup = g.setup, h.order = g.order
      PROVE  Playable(h)
  BY <1>1, <1>2 DEF Playable
<1>3. ASSUME NEW half \in {1, 2} PROVE Playable([g EXCEPT !.half = half])
  BY <1>1, <1>2 DEF GameType
<1>4. Playable([g EXCEPT !.card = TRUE])
  BY <1>1, <1>2 DEF GameType
<1>5. ASSUME NEW owing \in SUBSET Players PROVE Playable([g EXCEPT !.owing = owing])
  BY <1>1, <1>2 DEF GameType
<1>6. ASSUME NEW owing \in SUBSET Players, NEW more \in Nat
      PROVE  Playable([g EXCEPT !.owing = owing, !.more = more])
  BY <1>1, <1>2 DEF GameType
<1>7. Playable([g EXCEPT !.winner = g.current])
  BY <1>1, <1>2 DEF GameType
<1>8. QED
  BY <1>3, <1>4, <1>5, <1>6, <1>7

\* A question leaves the turn as it is, and so does a victory.
LEMMA AskedOrWon ==
  ASSUME NEW g, Playable(g)
  PROVE  /\ \A owings \in SUBSET SUBSET Players, mores \in SUBSET Nat :
              \A h \in Turns!Asks(g, owings, mores) : Playable(h)
         /\ \A h \in Turns!OrWon(g) : Playable(h)
<1>1. ASSUME NEW owings \in SUBSET SUBSET Players, NEW mores \in SUBSET Nat, NEW h \in Turns!Asks(g, owings, mores)
      PROVE  Playable(h)
  <2>1. PICK owing \in owings, more \in mores : h = [g EXCEPT !.owing = owing, !.more = more]
    BY <1>1 DEF Turns!Asks
  <2>2. owing \in SUBSET Players /\ more \in Nat
    OBVIOUS
  <2>3. QED
    BY <2>1, <2>2, SameTurnFacts
<1>2. ASSUME NEW h \in Turns!OrWon(g)
      PROVE  Playable(h)
  BY <1>2, SameTurnFacts DEF Turns!OrWon
<1>3. QED
  BY <1>1, <1>2

\* What the player of the turn may do leaves a game that can be played on.
LEMMA ActFacts ==
  ASSUME NEW g, Playable(g), NEW h \in Turns!Act(g)
  PROVE  Playable(h)
<1>0. g.current \in Players
  BY DEF Playable, GameType
<1>1. {g.current} \in SUBSET Players /\ {{g.current}} \in SUBSET SUBSET Players /\ {0, 1} \in SUBSET Nat
      /\ {1} \in SUBSET Nat /\ {2} \in SUBSET Nat /\ (SUBSET Players) \ {{}} \in SUBSET SUBSET Players
      /\ {{q} : q \in Players \ {g.current}} \in SUBSET SUBSET Players
  BY <1>0
<1>2. CASE g.setup # Null
  BY <1>2, SameTurnFacts, NextTurnFacts DEF Turns!Act
<1>3. CASE h \in Turns!PlayCard(g)
  <2>1. PICK c : c = [g EXCEPT !.card = TRUE]
    OBVIOUS
  <2>2. Playable(c) /\ c.current = g.current
    BY <2>1, SameTurnFacts DEF Playable, GameType
  <2>3. h \in Turns!Asks(c, {{g.current}}, {0, 1})
    BY <1>3, <2>1, <2>2 DEF Turns!PlayCard
  <2>4. QED
    BY <1>1, <2>2, <2>3, AskedOrWon
<1>4. CASE h \in Turns!Roll(g)
  <2>1. PICK rolled : rolled = [g EXCEPT !.half = 2]
    OBVIOUS
  <2>2. Playable(rolled)
    BY <2>1, SameTurnFacts
  <2>3. \/ h = rolled
        \/ h \in Turns!Asks(rolled, (SUBSET Players) \ {{}}, {2})
        \/ h \in Turns!Asks(rolled, {{g.current}}, {1})
    BY <1>4, <2>1 DEF Turns!Roll
  <2>4. QED
    BY <1>1, <2>2, <2>3, AskedOrWon
<1>5. CASE h \in Turns!Build(g) \/ h \in Turns!Propose(g)
  BY <1>1, <1>5, AskedOrWon DEF Turns!Build, Turns!Propose
<1>6. CASE h \in Turns!OrWon(Turns!NextTurn(g))
  <2>1. PICK next : next = Turns!NextTurn(g)
    OBVIOUS
  <2>2. Playable(next)
    BY <2>1, NextTurnFacts
  <2>3. QED
    BY <1>6, <2>1, <2>2, AskedOrWon
<1>7. QED
  BY <1>2, <1>3, <1>4, <1>5, <1>6 DEF Turns!Act

\* So does an answer.
LEMMA AnswerFacts ==
  ASSUME NEW g, Playable(g), NEW p \in Players, NEW h \in Turns!Answer(g, p)
  PROVE  Playable(h)
<1>1. g.owing \ {p} \in SUBSET Players /\ {{q} : q \in Players} \in SUBSET SUBSET Players /\ g.more \in Nat
      /\ {} \in SUBSET Players
  BY DEF Playable, GameType
<1>2. 0..(g.more - 1) \in SUBSET Nat
  BY <1>1
<1>3. CASE g.owing \ {p} # {}
  <2>1. h = [g EXCEPT !.owing = g.owing \ {p}]
    BY <1>3 DEF Turns!Answer
  <2>2. PICK rest : rest = g.owing \ {p}
    OBVIOUS
  <2>3. QED
    BY <1>1, <2>1, <2>2, SameTurnFacts
<1>4. CASE g.owing \ {p} = {}
  <2>1. PICK answered : answered = [g EXCEPT !.owing = {}, !.more = 0]
    OBVIOUS
  <2>2. Playable(answered)
    BY <1>1, <2>1, SameTurnFacts
  <2>3. h \in Turns!OrWon(answered) \/ h \in Turns!Asks(g, {{q} : q \in Players}, 0..(g.more - 1))
    BY <1>4, <2>1 DEF Turns!Answer
  <2>4. QED
    BY <1>1, <1>2, <2>2, <2>3, AskedOrWon
<1>5. QED
  BY <1>3, <1>4

\* Whatever a player does, the game can be played on.
LEMMA AfterFacts ==
  ASSUME NEW g, Playable(g), NEW p, NEW h \in Turns!After(g, p)
  PROVE  Playable(h)
<1>1. g.owing \subseteq Players
  BY DEF Playable, GameType
<1>2. QED
  BY <1>1, ActFacts, AnswerFacts DEF Turns!After

-----------------------------------------------------------------------------
(* The gateway.                                                            *)

\* A memory that follows its game is left alone by refreshTurnTracking.
LEMMA TrackedFacts ==
  ASSUME NEW m, NEW count, Sound(m, count)
  PROVE  Tracked(m) = m
BY DEF Tracked, Sound

\* An accepted command counts for the turn it leaves the game in.
LEMMA AcceptKeeps ==
  ASSUME Sound(memory, tally), NEW g, Playable(g), Accept(g),
         Turns!Identity(g) = Turns!Identity(Game) => memory.keys < Budget \/ memory.keys < MaxKeys
  PROVE  Sound(memory, tally)' /\ step' = "write" /\ saveStatus' = "SAVING"
<1> DEFINE more == IF Game.owing = {} /\ Game.half = 2 /\ g.more = 1 /\ g.owing # {g.current} THEN 1 ELSE 0
           identity == Turns!Identity(g)
<1>0. Budget \in Nat /\ MaxKeys \in Nat
  BY OrdersAssumption
<1>1. /\ memory \in MemoryType /\ memory.keys \in 0..Budget + MaxKeys /\ memory.offers \in Nat
      /\ memory.keys = tally /\ memory.identity = Turns!Identity(Game)
  BY DEF Sound, MemoryType, Game
<1>2. identity \in (Nat \cup {Null}) \X Players
  BY DEF Playable, GameType, Turns!Identity
<1>3. more \in Nat
  OBVIOUS
<1>4. PICK counted : counted = [memory EXCEPT !.game = g, !.keys = memory.keys + 1, !.offers = memory.offers + more]
  OBVIOUS
<1>5. memory' = Tracked(counted) /\ tally' = IF identity = Turns!Identity(Game) THEN Counted ELSE 0
  BY <1>4 DEF Accept
<1> HIDE DEF more, identity
<1>6. counted.game = g /\ counted.identity = memory.identity
  BY <1>1, <1>4 DEF MemoryType
<1>7. CASE identity = Turns!Identity(Game)
  <2>1. memory.keys + 1 \in 0..Budget + MaxKeys /\ tally' = memory.keys + 1
    BY <1>0, <1>1, <1>5, <1>7 DEF Counted, identity
  <2>2. memory' = counted
    BY <1>1, <1>5, <1>6, <1>7 DEF Tracked, identity
  <2>3. counted \in MemoryType /\ counted.keys = memory.keys + 1
    <3>1. counted = [game |-> g, identity |-> memory.identity, keys |-> memory.keys + 1,
                     offers |-> memory.offers + more]
      BY <1>1, <1>4 DEF MemoryType
    <3>2. memory.identity \in (Nat \cup {Null}) \X Players
      BY <1>1 DEF MemoryType
    <3>3. memory.offers + more \in Nat /\ g \in {h \in GameType : Playable(h)}
      BY <1>1, <1>3 DEF Playable
    <3>4. QED
      BY <2>1, <3>1, <3>2, <3>3 DEF MemoryType
  <2>4. QED
    BY <1>1, <1>6, <1>7, <2>1, <2>2, <2>3 DEF Sound, Accept, identity
<1>8. CASE identity # Turns!Identity(Game)
  <2>1. tally' = 0 /\ 0 \in 0..Budget + MaxKeys
    BY <1>0, <1>5, <1>8
  <2>2. memory' = [counted EXCEPT !.identity = identity, !.keys = 0, !.offers = 0]
    BY <1>1, <1>5, <1>6, <1>8 DEF Tracked, identity
  <2>3. memory' = [game |-> g, identity |-> identity, keys |-> 0, offers |-> 0]
    BY <1>1, <1>4, <2>2 DEF MemoryType
  <2>4. QED
    BY <1>2, <2>1, <2>3 DEF Sound, Accept, MemoryType, Playable, identity
<1>9. QED
  BY <1>7, <1>8

\* What the player starts: a game, a command, a save, a load, the first page.
LEMMA PlayerKeeps ==
  ASSUME LocalInvariant,
         CreateGame \/ Submit \/ SaveGame \/ LoadLatestGame \/ DeleteSavedGame \/ LeaveGame
  PROVE  LocalInvariant'
<1>0. Held /\ Allowed /\ Stored /\ SavedIsDurable
  BY DEF LocalInvariant
<1>1. CASE CreateGame
  <2>1. PICK order \in Orders : LET g == Turns!NewGame(order)
                                IN  memory' = [game |-> g, identity |-> Turns!Identity(g), keys |-> 0, offers |-> 0]
    BY <1>1 DEF CreateGame
  <2>2. PICK g : g = Turns!NewGame(order)
    OBVIOUS
  <2>3. Playable(g) /\ g \in GameType
    BY <2>2, NewGameFacts DEF Playable
  <2>4. Turns!Identity(g) \in (Nat \cup {Null}) \X Players
    BY <2>3 DEF GameType, Turns!Identity
  <2>5. PICK identity : identity = Turns!Identity(g)
    OBVIOUS
  <2>6. memory' = [game |-> g, identity |-> identity, keys |-> 0, offers |-> 0] /\ tally' = 0
    BY <1>1, <2>1, <2>2, <2>5 DEF CreateGame
  <2>7. 0 \in 0..Budget + MaxKeys
    BY OrdersAssumption
  <2>8. Sound(memory, tally)'
    BY <2>3, <2>4, <2>5, <2>6, <2>7 DEF Sound, MemoryType
  <2>9. disk' = disk /\ step' = "write" /\ saveStatus' = "SAVING"
    BY <1>1 DEF CreateGame
  <2>10. QED
    BY <1>0, <2>8, <2>9 DEF LocalInvariant, Held, Allowed, Stored, SavedIsDurable
<1>2. CASE Submit
  <2>1. PICK g \in Turns!After(Game, Human) : Accept(g)
    BY <1>2 DEF Submit
  <2>2. Sound(memory, tally) /\ Playable(Game) /\ memory.keys < MaxKeys
    BY <1>0, <1>2 DEF Submit, Held, Sound, MemoryType, Game
  <2>3. Playable(g)
    BY <2>2, AfterFacts
  <2>4. Sound(memory, tally)' /\ step' = "write" /\ saveStatus' = "SAVING"
    BY <2>1, <2>2, <2>3, AcceptKeeps
  <2>5. disk' = disk
    BY <1>2 DEF Submit
  <2>6. QED
    BY <1>0, <2>4, <2>5 DEF LocalInvariant, Held, Allowed, Stored, SavedIsDurable
<1>3. CASE SaveGame \/ LeaveGame \/ DeleteSavedGame
  <2>1. /\ memory' = memory /\ tally' = tally
        /\ \/ disk' = disk /\ saveStatus' = "SAVING" /\ step' = "write" /\ screen = "GAME"
           \/ disk' = disk /\ saveStatus' = saveStatus /\ step' = step /\ screen' = "HOME" /\ step = "idle"
           \/ disk' = Null /\ saveStatus' = "IDLE" /\ step' = step /\ screen' = screen
    BY <1>3 DEF SaveGame, LeaveGame, DeleteSavedGame
  <2>2. Held' /\ Allowed'
    BY <1>0, <2>1 DEF Held, Allowed, Sound
  <2>3. Stored' /\ SavedIsDurable'
    BY <1>0, <2>1 DEF Stored, Sound, SavedIsDurable, Envelope
  <2>4. QED
    BY <2>2, <2>3 DEF LocalInvariant
<1>4. CASE LoadLatestGame
  <2>1. /\ disk' = disk /\ screen' = screen /\ step = "idle" /\ screen = "HOME"
        /\ \/ /\ disk \notin {Null, Corrupt} /\ memory' = disk.memory /\ tally' = disk.tally
              /\ saveStatus' = "SAVED" /\ step' = "run"
           \/ memory' = memory /\ tally' = tally /\ saveStatus' = saveStatus /\ step' = step
    BY <1>4 DEF LoadLatestGame, Readable
  <2>2. CASE disk \notin {Null, Corrupt} /\ memory' = disk.memory /\ tally' = disk.tally /\ saveStatus' = "SAVED"
             /\ step' = "run"
    <3>1. disk = [memory |-> disk.memory, tally |-> disk.tally] /\ Sound(disk.memory, disk.tally)
      BY <1>0, <2>2 DEF Stored
    <3>2. Sound(memory, tally)'
      BY <2>2, <3>1 DEF Sound
    <3>3. QED
      BY <1>0, <2>1, <2>2, <3>1, <3>2
      DEF LocalInvariant, Held, Allowed, Stored, SavedIsDurable, Envelope
  <2>3. CASE memory' = memory /\ tally' = tally /\ saveStatus' = saveStatus /\ step' = step
    BY <1>0, <2>1, <2>3 DEF LocalInvariant, Held, Allowed, Stored, SavedIsDurable, Envelope, Sound
  <2>4. QED
    BY <2>1, <2>2, <2>3
<1>5. QED
  BY <1>1, <1>2, <1>3, <1>4

\* The steps of an operation, and the end of the page.
LEMMA OperationKeeps ==
  ASSUME LocalInvariant, Proceed \/ Reload
  PROVE  LocalInvariant'
<1>0. Held /\ Allowed /\ Stored /\ SavedIsDurable
  BY DEF LocalInvariant
<1>1. CASE WriteSucceeds
  <2>1. /\ memory' = memory /\ tally' = tally /\ screen' = screen /\ step' \in {"run", "idle"}
        /\ disk' = [memory |-> memory, tally |-> tally] /\ Sound(memory, tally)
    BY <1>0, <1>1 DEF WriteSucceeds, Held, Envelope
  <2>2. disk'.memory = memory /\ disk'.tally = tally
    BY <2>1
  <2>3. Stored' /\ SavedIsDurable'
    BY <2>1, <2>2 DEF Stored, SavedIsDurable, Envelope, Sound
  <2>4. Held' /\ Allowed'
    BY <2>1 DEF Held, Allowed, Sound
  <2>5. QED
    BY <2>3, <2>4 DEF LocalInvariant
<1>2. CASE WriteFails
  <2>1. /\ memory' = memory /\ tally' = tally /\ screen' = screen /\ disk' = disk /\ step' = "idle"
        /\ saveStatus' = "ERROR"
    BY <1>2 DEF WriteFails, SetError
  <2>2. QED
    BY <1>0, <2>1 DEF LocalInvariant, Held, Allowed, Stored, SavedIsDurable, Sound
<1>3. CASE RunAi
  <2>1. Sound(memory, tally) /\ disk' = disk /\ Playable(Game)
    BY <1>0, <1>3 DEF RunAi, Held, Sound, MemoryType, Game
  <2>2. CASE memory' = memory /\ tally' = tally /\ saveStatus' = saveStatus
             /\ (step' = "choose" => memory.keys < Budget)
    BY <1>0, <2>1, <2>2 DEF LocalInvariant, Held, Allowed, Stored, SavedIsDurable, Envelope, Sound
  <2>3. CASE \E g \in Turns!OrWon(Turns!NextTurn(Game)) : Accept(g)
    <3>1. PICK g \in Turns!OrWon(Turns!NextTurn(Game)) : Accept(g)
      BY <2>3
    <3>2. PICK next : next = Turns!NextTurn(Game)
      OBVIOUS
    <3>3. Playable(next) /\ Turns!Identity(next) # Turns!Identity(Game)
      BY <2>1, <3>2, NextTurnFacts
    <3>4. g = next \/ g = [next EXCEPT !.winner = next.current]
      BY <3>1, <3>2 DEF Turns!OrWon
    <3>5. Playable(g)
      BY <3>3, <3>4, SameTurnFacts
    <3>6. Turns!Identity(g) = Turns!Identity(next)
      BY <3>3, <3>4 DEF Turns!Identity, Playable, GameType
    <3>7. Sound(memory, tally)' /\ step' = "write" /\ saveStatus' = "SAVING"
      BY <2>1, <3>1, <3>3, <3>5, <3>6, AcceptKeeps
    <3>8. QED
      BY <1>0, <2>1, <3>7 DEF LocalInvariant, Held, Allowed, Stored, SavedIsDurable
  <2>4. Tracked(memory) = memory
    BY <2>1, TrackedFacts
  <2>5. QED
    BY <1>3, <2>2, <2>3, <2>4 DEF RunAi, Finish, SetError
<1>4. CASE AgentChooses
  <2>1. Sound(memory, tally) /\ disk' = disk /\ Playable(Game) /\ memory.keys < Budget
    BY <1>0, <1>4 DEF AgentChooses, Held, Allowed, Sound, MemoryType, Game
  <2>2. PICK g \in Turns!After(Game, DecisionActor(Game)) : Accept(g)
    BY <1>4 DEF AgentChooses
  <2>3. Playable(g)
    BY <2>1, AfterFacts
  <2>4. Sound(memory, tally)' /\ step' = "write" /\ saveStatus' = "SAVING"
    BY <2>1, <2>2, <2>3, AcceptKeeps
  <2>5. QED
    BY <1>0, <2>1, <2>4 DEF LocalInvariant, Held, Allowed, Stored, SavedIsDurable
<1>5. CASE Reload
  <2>1. memory' = Null /\ disk' = disk /\ screen' = "HOME" /\ step' = "idle" /\ saveStatus' = "IDLE"
    BY <1>5 DEF Reload
  <2>2. QED
    BY <1>0, <2>1 DEF LocalInvariant, Held, Allowed, Stored, SavedIsDurable
<1>6. QED
  BY <1>1, <1>2, <1>3, <1>4, <1>5 DEF Proceed

\* On the first page there is nothing to remember yet.
LEMMA LocalInitially == LocalInit => LocalInvariant
BY DEF LocalInit, Fresh, LocalInvariant, Held, Allowed, Stored, SavedIsDurable

\* Every step preserves the invariant.
LEMMA LocalStep == LocalInvariant /\ [LocalNext]_localVars => LocalInvariant'
<1> SUFFICES ASSUME LocalInvariant, [LocalNext]_localVars
             PROVE  LocalInvariant'
  OBVIOUS
<1>1. CASE CreateGame \/ Submit \/ SaveGame \/ LoadLatestGame \/ DeleteSavedGame \/ LeaveGame
  BY <1>1, PlayerKeeps
<1>2. CASE Proceed \/ Reload
  BY <1>2, OperationKeeps
<1>3. CASE UNCHANGED localVars
  BY <1>3 DEF localVars, LocalInvariant, Held, Allowed, Stored, SavedIsDurable, Envelope, Sound
<1>4. QED
  BY <1>1, <1>2, <1>3 DEF LocalNext

-----------------------------------------------------------------------------
(* What the gateway keeps.                                                 *)

\* The invariant holds in every behaviour.
THEOREM LocalInvariantHolds == LocalSpec => []LocalInvariant
BY LocalInitially, LocalStep, PTL DEF LocalSpec

\* "Saved" is said only of the game that is shown, with its counts, over
\* failed writes, new games, loads and reloads.
THEOREM SavedMeansSaved == LocalSpec => []SavedIsDurable
<1>1. LocalInvariant => SavedIsDurable
  BY DEF LocalInvariant
<1>2. QED
  BY <1>1, LocalInvariantHolds, PTL

\* The commands counted against a turn are the commands of that turn, though
\* the page may be closed in the middle of it.
THEOREM CountsFollowTheTurn == LocalSpec => []CountsAreOfThisTurn
<1>1. LocalInvariant => CountsAreOfThisTurn
  BY DEF LocalInvariant, Held, Sound, CountsAreOfThisTurn, Game
<1>2. QED
  BY <1>1, LocalInvariantHolds, PTL
=============================================================================
