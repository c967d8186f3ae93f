-------------------------- MODULE ProcessingProofs --------------------------
(***************************************************************************)
(* What holds of the processor tasks for every chain, every way to cut it  *)
(* into batches, every number of tasks and every processor, whatever its   *)
(* process_transactions makes of a transaction.                            *)
(***************************************************************************)
EXTENDS Processing, StatementsProofs

ParsingFields == {"pc", "first", "last", "at", "tried", "acc"}

WritingFields == {"pc", "first", "last", "rows", "todo"}

TaskOK(x) ==
    \/ x = Idle
    \/ /\ x.pc \in {"parsing", "writing"}
       /\ DOMAIN x = IF x.pc = "parsing" THEN ParsingFields ELSE WritingFields

Shape ==
    /\ DOMAIN task = setup.tasks
    /\ \A t \in setup.tasks : TaskOK(task[t])

-----------------------------------------------------------------------------
(* What a step does to the tasks *)

\* Parsing a transaction, or trying its lookups again, keeps the batch.
LEMMA ParsingStep ==
    ASSUME Shape, NEW t \in setup.tasks, RetryLookup(t) \/ ParseTransaction(t)
    PROVE  /\ UNCHANGED <<setup, db, next_version, done, kills>>
           /\ DOMAIN task' = DOMAIN task
           /\ \A u \in setup.tasks \ {t} : task'[u] = task[u]
           /\ task[t].pc = "parsing" /\ task'[t].pc = "parsing"
           /\ DOMAIN task'[t] = ParsingFields
<1>1. /\ t \in DOMAIN task
      /\ task[t].pc = "parsing"
      /\ DOMAIN task[t] = ParsingFields
    BY DEF Shape, TaskOK, Idle, RetryLookup, ParseTransaction
<1>2. CASE RetryLookup(t)
  <2>1. task' = [task EXCEPT ![t] = [task[t] EXCEPT !.tried = task[t].tried + 1]]
      BY <1>2 DEF RetryLookup
  <2> QED BY <1>1, <1>2, <2>1 DEF RetryLookup, ParsingFields, Shape
<1>3. CASE ParseTransaction(t)
  <2> DEFINE x == [Parsed(t) EXCEPT !.missed = FALSE]
             y == [[[task[t] EXCEPT !.acc = x] EXCEPT !.at = task[t].at + 1]
                        EXCEPT !.tried = 0]
  <2>1. task' = [task EXCEPT ![t].acc = x, ![t].at = @ + 1, ![t].tried = 0]
      BY <1>3 DEF ParseTransaction
  <2> HIDE DEF x
  <2>2. task' = [task EXCEPT ![t] = y]
      BY <1>1, <2>1 DEF ParsingFields
  <2>3. /\ DOMAIN y = ParsingFields
        /\ y.pc = task[t].pc
      BY <1>1 DEF ParsingFields
  <2> HIDE DEF y
  <2> QED BY <1>1, <1>3, <2>2, <2>3 DEF ParseTransaction, Shape
<1> QED BY <1>2, <1>3

\* A batch in the hands of one task is no concern of the others.
LEMMA WritingStep ==
    ASSUME Shape, NEW t \in setup.tasks, task[t].pc = "writing",
           NEW ss \in task[t].todo, ExecuteStatements(t, ss)
    PROVE  /\ UNCHANGED <<setup, next_version, done, kills>>
           /\ DOMAIN task' = DOMAIN task
           /\ \A u \in setup.tasks \ {t} : task'[u] = task[u]
           /\ task'[t].pc = "writing"
           /\ task'[t].rows = task[t].rows
           /\ task'[t].todo = task[t].todo \ {ss}
           /\ DOMAIN task'[t] = WritingFields
<1>1. /\ t \in DOMAIN task
      /\ DOMAIN task[t] = WritingFields
    BY DEF Shape, TaskOK, Idle
<1>2. task' = [task EXCEPT ![t] = [task[t] EXCEPT !.todo = task[t].todo \ {ss}]]
    BY DEF ExecuteStatements
<1> QED BY <1>1, <1>2 DEF ExecuteStatements, WritingFields, Shape

\* A task begins to parse a batch.
LEMMA TakeStep ==
    ASSUME Shape, NEW t \in setup.tasks, TakeBatch(t)
    PROVE  /\ UNCHANGED <<setup, db, done, kills>>
           /\ DOMAIN task' = DOMAIN task
           /\ \A u \in setup.tasks \ {t} : task'[u] = task[u]
           /\ task'[t].pc = "parsing"
           /\ DOMAIN task'[t] = ParsingFields
<1>1. PICK n \in 1 .. MaxBatch :
        task' = [task EXCEPT ![t] =
                [pc |-> "parsing", first |-> next_version, last |-> next_version + n - 1,
                 at |-> next_version, tried |-> 0,
                 acc |-> Batch(Memo(Processor,
                            [i \in 1 .. n |-> TxnAt(next_version + i - 1)]))]]
    BY DEF TakeBatch
<1> DEFINE b == Batch(Memo(Processor, [i \in 1 .. n |-> TxnAt(next_version + i - 1)]))
<1>2. task' = [task EXCEPT ![t] =
                [pc |-> "parsing", first |-> next_version, last |-> next_version + n - 1,
                 at |-> next_version, tried |-> 0, acc |-> b]]
    BY <1>1
<1> HIDE DEF b
<1>3. /\ DOMAIN task' = DOMAIN task
      /\ \A u \in setup.tasks \ {t} : task'[u] = task[u]
      /\ task'[t].pc = "parsing"
      /\ DOMAIN task'[t] = ParsingFields
    BY <1>2 DEF ParsingFields, Shape
<1> QED BY <1>3 DEF TakeBatch

\* insert_to_db begins with the batch that was parsed.
LEMMA InsertStep ==
    ASSUME Shape, NEW t \in setup.tasks, InsertToDb(t)
    PROVE  /\ UNCHANGED <<setup, db, next_version, done, kills>>
           /\ DOMAIN task' = DOMAIN task
           /\ \A u \in setup.tasks \ {t} : task'[u] = task[u]
           /\ task[t].pc = "parsing" /\ task'[t].pc = "writing"
           /\ task'[t].todo = Steps({task'[t].rows[i].table : i \in DOMAIN task'[t].rows})
           /\ DOMAIN task'[t] = WritingFields
<1>1. t \in DOMAIN task
    BY DEF Shape
<1> DEFINE rows == Collected(task[t].acc.rows)
           todo == Steps({rows[i].table : i \in DOMAIN rows})
<1>2. task' = [task EXCEPT ![t] =
                [pc |-> "writing", first |-> task[t].first, last |-> task[t].last,
                 rows |-> rows, todo |-> todo]]
    BY DEF InsertToDb
<1>3. todo = Steps({rows[i].table : i \in DOMAIN rows})
    OBVIOUS
<1> HIDE DEF rows, todo
<1>4. task'[t].rows = rows /\ task'[t].todo = todo
    BY <1>1, <1>2
<1>5. task'[t].todo = Steps({task'[t].rows[i].table : i \in DOMAIN task'[t].rows})
    BY <1>3, <1>4
<1> QED BY <1>1, <1>2, <1>5 DEF InsertToDb, WritingFields, Shape

-----------------------------------------------------------------------------
(* Every step keeps the shape of the tasks *)

\* Every step is one of these.
LEMMA NextCases ==
    ASSUME Next
    PROVE  \/ \E t \in setup.tasks : TakeBatch(t)
           \/ \E t \in setup.tasks : RetryLookup(t) \/ ParseTransaction(t)
           \/ \E t \in setup.tasks : InsertToDb(t)
           \/ \E t \in setup.tasks : /\ task[t].pc = "writing"
                                     /\ \E ss \in task[t].todo : ExecuteStatements(t, ss)
           \/ \E t \in setup.tasks : Report(t)
           \/ StartAgain
           \/ UNCHANGED vars
BY DEF Next, TaskStep, ParsePanics, InsertFails, Killed, Rest

LEMMA NextShape ==
    ASSUME Shape, [Next]_vars
    PROVE  Shape'
<1>1. ASSUME NEW t \in setup.tasks, setup' = setup, DOMAIN task' = DOMAIN task,
             \A u \in setup.tasks \ {t} : task'[u] = task[u], TaskOK(task'[t])
      PROVE  Shape'
    BY <1>1 DEF Shape
<1>2. ASSUME NEW t \in setup.tasks, TakeBatch(t)
      PROVE  Shape'
    BY <1>1, <1>2, TakeStep DEF TaskOK
<1>3. ASSUME NEW t \in setup.tasks, RetryLookup(t) \/ ParseTransaction(t)
      PROVE  Shape'
    BY <1>1, <1>3, ParsingStep DEF TaskOK
<1>4. ASSUME NEW t \in setup.tasks, InsertToDb(t)
      PROVE  Shape'
    BY <1>1, <1>4, InsertStep DEF TaskOK
<1>5. ASSUME NEW t \in setup.tasks, task[t].pc = "writing",
             NEW ss \in task[t].todo, ExecuteStatements(t, ss)
      PROVE  Shape'
    BY <1>1, <1>5, WritingStep DEF TaskOK
<1>6. ASSUME NEW t \in setup.tasks, Report(t)
      PROVE  Shape'
    BY <1>6 DEF Report, Shape, TaskOK
<1>7. ASSUME StartAgain
      PROVE  Shape'
    BY <1>7 DEF StartAgain, Shape, TaskOK
<1>8. ASSUME UNCHANGED vars
      PROVE  Shape'
    BY <1>8 DEF vars, Shape
<1> QED BY <1>2, <1>3, <1>4, <1>5, <1>6, <1>7, <1>8, NextCases

LEMMA ShapeInvariance == Spec => []Shape
<1>1. Init => Shape
    BY DEF Init, Shape, TaskOK
<1> QED BY <1>1, NextShape, PTL DEF Spec

-----------------------------------------------------------------------------
(* The tables, step by step *)

TablesInv == Shape /\ \A t \in DOMAIN db : RowsAreRows(db[t])

\* Only the statements of a batch write.
LEMMA TableStep ==
    ASSUME TablesInv, [Next]_vars
    PROVE  \/ db' = db
           \/ \E rows, ss : db' = ExecutedAll(db, rows, ss)
<1>1. CASE UNCHANGED vars
    BY <1>1 DEF vars
<1>2. CASE Next
    BY <1>2, NextCases DEF TakeBatch, RetryLookup, ParseTransaction, InsertToDb,
        ExecuteStatements, Report, StartAgain, vars
<1> QED BY <1>1, <1>2

\* What a step does to the tables.
LEMMA TableFacts ==
    ASSUME TablesInv, [Next]_vars
    PROVE  /\ DOMAIN db' = DOMAIN db
           /\ \A t \in DOMAIN db :
                /\ RowsAreRows(db'[t])
                /\ \A k \in DOMAIN db[t] :
                      k \in DOMAIN db'[t] /\ GivesWay(t, db[t][k], db'[t][k])
<1>1. CASE db' = db
    BY <1>1 DEF TablesInv, GivesWay
<1>2. ASSUME NEW rows, NEW ss, db' = ExecutedAll(db, rows, ss)
      PROVE  /\ DOMAIN db' = DOMAIN db
             /\ \A t \in DOMAIN db :
                  /\ RowsAreRows(db'[t])
                  /\ \A k \in DOMAIN db[t] :
                        k \in DOMAIN db'[t] /\ GivesWay(t, db[t][k], db'[t][k])
    BY <1>2, ExecutedAllFacts DEF TablesInv
<1> QED BY <1>1, <1>2, TableStep

LEMMA TablesInvariance == Spec => []TablesInv
<1>1. ASSUME Init PROVE \A t \in DOMAIN db : RowsAreRows(db[t])
    BY <1>1 DEF Init, RowsAreRows, NoMap
<1>2. ASSUME TablesInv, Shape', [Next]_vars
      PROVE  TablesInv'
    BY <1>2, TableFacts DEF TablesInv
<1> QED BY ShapeInvariance, <1>1, <1>2, PTL DEF Spec, TablesInv

\* Whatever tasks and processes write, in whatever order, and whatever the parsers
\* hand them: no row is lost, and one of a table with a version clause only gives
\* way in the direction of the clause, those of tokens included, which are written
\* by two statements that set different columns.
THEOREM StoredRowsOnlyAdvance == Spec => RowsOnlyAdvance
<1>1. ASSUME TablesInv, [Next]_vars
      PROVE  [\A t \in DOMAIN db : \A k \in DOMAIN db[t] :
                /\ k \in DOMAIN db'[t]
                /\ Queries[t].guard \in {"latest", "first"} =>
                      \/ db'[t][k] = db[t][k]
                      \/ Queries[t].guard = "latest" /\ db[t][k].v <= db'[t][k].v
                      \/ Queries[t].guard = "first" /\ db[t][k].v >= db'[t][k].v]_vars
    BY <1>1, TableFacts DEF GivesWay
<1> QED BY TablesInvariance, <1>1, PTL DEF Spec, RowsOnlyAdvance

-----------------------------------------------------------------------------
(* What is executed is stored *)

\* ExecutedIsStored for a task, with the rows stored in the tables.
StoredFor(x, tables) ==
    x.pc = "writing" =>
        \A i \in DOMAIN x.rows :
            x.rows[i].table \notin UNION x.todo /\ TableOf(x.rows[i].table) \in DOMAIN tables
                => x.rows[i].key \in DOMAIN tables[TableOf(x.rows[i].table)]

TodoOK(x) == x.pc = "writing" => \A ss \in x.todo : OneEach(ss)

\* The inductive invariant: without the second conjunct a step could stand for
\* two statements on one table.
WriteInv ==
    /\ TablesInv
    /\ \A t \in setup.tasks : TodoOK(task[t])
    /\ \A t \in setup.tasks : StoredFor(task[t], db)

\* What a task has stored, no step of another takes away.
LEMMA StoredStays ==
    ASSUME WriteInv, [Next]_vars, NEW u \in setup.tasks, task'[u] = task[u]
    PROVE  TodoOK(task'[u]) /\ StoredFor(task'[u], db')
<1>1. /\ DOMAIN db' = DOMAIN db
      /\ \A t \in DOMAIN db : \A k \in DOMAIN db[t] : k \in DOMAIN db'[t]
    BY TableFacts DEF WriteInv
<1>2. TodoOK(task[u]) /\ StoredFor(task[u], db)
    BY DEF WriteInv
<1>3. StoredFor(task[u], db')
    BY <1>1, <1>2 DEF StoredFor
<1> QED BY <1>2, <1>3

\* The step for some statements stores the keys of all their rows.
LEMMA StoresKeys ==
    ASSUME TablesInv, NEW rows, NEW ss, OneEach(ss), db' = ExecutedAll(db, rows, ss),
           NEW i \in DOMAIN rows, rows[i].table \in ss,
           TableOf(rows[i].table) \in DOMAIN db
    PROVE  rows[i].key \in DOMAIN db'[TableOf(rows[i].table)]
<1> DEFINE s == rows[i].table
           t == TableOf(s)
           mine == {x \in ss : TableOf(x) = t}
<1>1. mine = {s}
    BY DEF OneEach
<1>2. db'[t] = IF mine = {} THEN db[t] ELSE Executed(db[t], rows, CHOOSE x \in mine : TRUE)
    BY DEF ExecutedAll
<1>3. (CHOOSE x \in mine : TRUE) = s
    BY <1>1
<1>4. db'[t] = Executed(db[t], rows, s)
    BY <1>1, <1>2, <1>3
<1>5. RowsAreRows(db[t])
    BY DEF TablesInv
<1>6. DOMAIN Executed(db[t], rows, s) = DOMAIN db[t] \cup {rows[j].key : j \in RowsFor(rows, s)}
    BY <1>5, ExecutedFacts
<1>7. i \in RowsFor(rows, s)
    BY DEF RowsFor
<1> HIDE DEF s, t
<1>8. rows[i].key \in DOMAIN db'[t]
    BY <1>4, <1>6, <1>7
<1> QED BY <1>8 DEF s, t

LEMMA ExecuteStores ==
    ASSUME WriteInv, [Next]_vars, NEW t \in setup.tasks, task[t].pc = "writing",
           NEW ss \in task[t].todo, ExecuteStatements(t, ss)
    PROVE  TodoOK(task'[t]) /\ StoredFor(task'[t], db')
<1>1. /\ task'[t].rows = task[t].rows
      /\ task'[t].todo = task[t].todo \ {ss}
    BY WritingStep DEF WriteInv, TablesInv
<1>2. TodoOK(task[t]) /\ StoredFor(task[t], db)
    BY DEF WriteInv
<1>3. TodoOK(task'[t])
    BY <1>1, <1>2 DEF TodoOK
<1>4. /\ DOMAIN db' = DOMAIN db
      /\ \A x \in DOMAIN db : \A k \in DOMAIN db[x] : k \in DOMAIN db'[x]
    BY TableFacts DEF WriteInv
<1>5. OneEach(ss) /\ db' = ExecutedAll(db, task[t].rows, ss)
    BY <1>2 DEF TodoOK, ExecuteStatements
<1> DEFINE rows == task[t].rows
<1>6. ASSUME NEW i \in DOMAIN rows, rows[i].table \notin UNION (task[t].todo \ {ss}),
             TableOf(rows[i].table) \in DOMAIN db
      PROVE  rows[i].key \in DOMAIN db'[TableOf(rows[i].table)]
  <2>1. CASE rows[i].table \in ss
    <3>1. TablesInv
        BY DEF WriteInv
    <3> HIDE DEF rows
    <3> QED BY <1>5, <1>6, <2>1, <3>1, StoresKeys DEF rows
  <2>2. CASE rows[i].table \notin ss
    <3>1. rows[i].table \notin UNION task[t].todo
        BY <1>6, <2>2
    <3>2. rows[i].key \in DOMAIN db[TableOf(rows[i].table)]
        BY <1>2, <1>6, <3>1 DEF StoredFor
    <3> QED BY <1>4, <1>6, <3>2
  <2> QED BY <2>1, <2>2
<1>7. StoredFor(task'[t], db')
    BY <1>1, <1>4, <1>6 DEF StoredFor
<1> QED BY <1>3, <1>7

LEMMA NextWrites ==
    ASSUME WriteInv, Shape', [Next]_vars
    PROVE  WriteInv'
<1>0. Shape /\ TablesInv
    BY DEF WriteInv, TablesInv
<1>1. TablesInv'
    BY <1>0, TableFacts DEF TablesInv
<1>2. ASSUME setup' = setup,
             \A u \in setup.tasks : TodoOK(task'[u]) /\ StoredFor(task'[u], db')
      PROVE  WriteInv'
    BY <1>1, <1>2 DEF WriteInv
<1>3. ASSUME NEW x, x.pc # "writing"
      PROVE  TodoOK(x) /\ StoredFor(x, db')
    BY <1>3 DEF TodoOK, StoredFor
<1>4. Idle.pc # "writing"
    BY DEF Idle
<1>5. ASSUME NEW t \in setup.tasks, setup' = setup,
             \A u \in setup.tasks \ {t} : task'[u] = task[u],
             TodoOK(task'[t]) /\ StoredFor(task'[t], db')
      PROVE  WriteInv'
    BY <1>2, <1>5, StoredStays
<1>6. ASSUME NEW t \in setup.tasks, TakeBatch(t)
      PROVE  WriteInv'
  <2>1. /\ setup' = setup
        /\ \A u \in setup.tasks \ {t} : task'[u] = task[u]
        /\ task'[t].pc = "parsing"
      BY <1>0, <1>6, TakeStep
  <2>2. TodoOK(task'[t]) /\ StoredFor(task'[t], db')
      BY <1>3, <2>1
  <2> QED BY <1>5, <2>1, <2>2
<1>7. ASSUME NEW t \in setup.tasks, RetryLookup(t) \/ ParseTransaction(t)
      PROVE  WriteInv'
  <2>1. /\ setup' = setup
        /\ \A u \in setup.tasks \ {t} : task'[u] = task[u]
        /\ task'[t].pc = "parsing"
      BY <1>0, <1>7, ParsingStep
  <2>2. TodoOK(task'[t]) /\ StoredFor(task'[t], db')
      BY <1>3, <2>1
  <2> QED BY <1>5, <2>1, <2>2
<1>8. ASSUME NEW t \in setup.tasks, InsertToDb(t)
      PROVE  WriteInv'
  <2> DEFINE S == {task'[t].rows[i].table : i \in DOMAIN task'[t].rows}
  <2>1. /\ setup' = setup
        /\ \A u \in setup.tasks \ {t} : task'[u] = task[u]
        /\ task'[t].todo = Steps(S)
      BY <1>0, <1>8, InsertStep
  <2>2. \A i \in DOMAIN task'[t].rows : task'[t].rows[i].table \in S
      OBVIOUS
  <2> HIDE DEF S
  <2>3. UNION task'[t].todo = S /\ \A ss \in task'[t].todo : OneEach(ss)
      BY <2>1, StepsFacts
  <2>4. TodoOK(task'[t]) /\ StoredFor(task'[t], db')
      BY <2>2, <2>3 DEF TodoOK, StoredFor
  <2> QED BY <1>5, <2>1, <2>4
<1>9. ASSUME NEW t \in setup.tasks, task[t].pc = "writing",
             NEW ss \in task[t].todo, ExecuteStatements(t, ss)
      PROVE  WriteInv'
  <2>1. /\ setup' = setup
        /\ \A u \in setup.tasks \ {t} : task'[u] = task[u]
      BY <1>0, <1>9, WritingStep
  <2>2. TodoOK(task'[t]) /\ StoredFor(task'[t], db')
      BY <1>9, ExecuteStores
  <2> QED BY <1>5, <2>1, <2>2
<1>10. ASSUME NEW t \in setup.tasks, Report(t)
       PROVE  WriteInv'
  <2>1. /\ setup' = setup
        /\ \A u \in setup.tasks \ {t} : task'[u] = task[u]
        /\ task'[t] = Idle
      BY <1>0, <1>10 DEF Report, Shape
  <2>2. TodoOK(task'[t]) /\ StoredFor(task'[t], db')
      BY <1>3, <1>4, <2>1
  <2> QED BY <1>5, <2>1, <2>2
<1>11. ASSUME StartAgain
       PROVE  WriteInv'
  <2>1. setup' = setup /\ \A u \in setup.tasks : task'[u] = Idle
      BY <1>11 DEF StartAgain
  <2>2. TodoOK(Idle) /\ StoredFor(Idle, db')
      BY <1>3, <1>4
  <2> QED BY <1>2, <2>1, <2>2
<1>12. ASSUME UNCHANGED vars
       PROVE  WriteInv'
  <2>1. setup' = setup /\ \A u \in setup.tasks : task'[u] = task[u]
      BY <1>12 DEF vars
  <2> QED BY <1>2, <2>1, StoredStays
<1> QED BY <1>6, <1>7, <1>8, <1>9, <1>10, <1>11, <1>12, NextCases

LEMMA WriteInvariance == Spec => []WriteInv
<1>1. ASSUME Init, TablesInv PROVE WriteInv
    BY <1>1 DEF Init, WriteInv, Idle, TodoOK, StoredFor
<1>2. ASSUME WriteInv, Shape', [Next]_vars
      PROVE  WriteInv'
    BY <1>2, NextWrites
<1>3. TablesInv => Shape
    BY DEF TablesInv
<1> QED BY TablesInvariance, <1>1, <1>2, <1>3, PTL DEF Spec

\* insert_to_db leaves no row out: when a batch is reported each of its rows,
\* those of deleted tokens included, has its key in its table, also if other
\* tasks write the same keys in between or the batch is done a second time.
THEOREM BatchRowsAreStored == Spec => []ExecutedIsStored
<1>1. WriteInv => ExecutedIsStored
    BY DEF WriteInv, StoredFor, ExecutedIsStored
<1> QED BY WriteInvariance, <1>1, PTL
=============================================================================
