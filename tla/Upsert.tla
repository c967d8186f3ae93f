------------------------------- MODULE Upsert -------------------------------
(***************************************************************************)
(* How a processor writes the rows of its batches to one database table    *)
(* (process_transactions and insert_to_db of the processors, and           *)
(* utils/database.rs).  Several processor tasks do this at the same time,  *)
(* each for a batch of its own; each splits its rows into chunks, and each *)
(* chunk is one INSERT ... ON CONFLICT statement on a connection of its    *)
(* own.  A statement locks its rows one after the other, in the order of   *)
(* the rows, and releases them when it commits or fails.                   *)
(*                                                                         *)
(* A row is a primary key and the version of the transaction it comes      *)
(* from; the version stands for the rest of the row's content.  The        *)
(* process may end at any moment: the statements it had sent are then on   *)
(* their own, and may still commit while the next process is at work.      *)
(***************************************************************************)
EXTENDS Integers, Sequences, FiniteSets

CONSTANTS
    Kinds,          \* the kinds of tables studied, see Tables.tla
    Keys,           \* values of the key column that tells the rows apart
    Histories,      \* what the transactions may write: keys per version
    LastVersion,    \* the versions are 1 .. LastVersion
    Tasks,          \* the processor tasks
    MaxBatch,       \* most transactions in one batch
    ChunkSize,      \* rows per statement, of get_config_table_chunk_size
    WhereVersions,  \* versions whose rows have the word "where" in a column
    MaxFaults,      \* bound on failing statements
    MaxLives        \* bound on the number of process starts

AnyKind ==
    [guard : {"latest", "first", "always", "nothing"},
     keep : {"last", "first", "all"}, ordered : BOOLEAN, append : BOOLEAN]

ASSUME UpsertAssumption ==
    /\ Keys \subseteq Nat /\ IsFiniteSet(Keys)
    /\ LastVersion \in Nat
    /\ Histories \subseteq [1 .. LastVersion -> SUBSET Keys]
    /\ MaxBatch \in Nat \ {0}
    /\ ChunkSize \in Nat \ {0}
    /\ WhereVersions \subseteq Nat
    /\ MaxFaults \in Nat
    /\ MaxLives \in Nat
    /\ Kinds \subseteq AnyKind

Versions == 1 .. LastVersion

\* Rows of a table that is appended to have the version in their key.
PrimaryKeys == (0 .. LastVersion) \X Keys

NoRow == 0

VARIABLES
    kind,           \* the kind of table; never changes
    writes,         \* the keys each transaction writes; never changes
    table,          \* per primary key: version of the row, or NoRow
    stmts,          \* the statements sent and not yet answered for
    batch,          \* per task: the versions of its batch, {} when it has none
    next_version,   \* first version that no task has taken in this life
    done,           \* versions whose batch was reported as processed
    life,           \* number of the running process
    faults

vars == <<kind, writes, table, stmts, batch, next_version, done, life, faults>>

Init ==
    /\ kind \in Kinds
    /\ writes \in Histories
    /\ table = [k \in PrimaryKeys |-> NoRow]
    /\ stmts = {}
    /\ batch = [t \in Tasks |-> {}]
    /\ next_version = 1
    /\ done = {}
    /\ life = 1
    /\ faults = 0

-----------------------------------------------------------------------------
(* The rows of a batch *)

PrimaryKey(v, k) == IF kind.append THEN <<v, k>> ELSE <<0, k>>

KeyBefore(a, b) == a[1] < b[1] \/ (a[1] = b[1] /\ a[2] < b[2])

\* What the transactions of a batch write.  One transaction writes a key once; the
\* parsers see to that (ListedOnce in Ledger), except for the events that are made
\* up for multisig accounts, which are outside this module.
AllRows(B) ==
    UNION {{[key |-> PrimaryKey(v, k), version |-> v] : k \in writes[v]} : v \in B}

\* Variant: a later row never replaces the one the map has.
BatchRows_First(B) ==
    {r \in AllRows(B) :
        \A s \in AllRows(B) : s.key = r.key => s.version >= r.version}

\* Transactions are read in version order.  "last": collected into a map, a
\* later row replaces an earlier one with its key; "first": it does not;
\* "all": collected into a list.
BatchRows(B) ==
    LET all == AllRows(B)
        same(r) == {s \in all : s.key = r.key}
    IN  {r \in all :
            /\ kind.keep = "last" => \A s \in same(r) : s.version <= r.version
            /\ kind.keep = "first" => \A s \in same(r) : s.version >= r.version}

\* Variant: the list taken from the map is not sorted.
SortedRows_Unsorted(R) ==
    {q \in [1 .. Cardinality(R) -> R] :
        \A i, j \in DOMAIN q : i < j => q[i] # q[j]}

\* The orders in which the rows R may be sent.  A sort that looks at the key
\* column puts them in key order; one that does not leaves them in the arbitrary
\* order of the hash map.
SortedRows(R) ==
    {q \in [1 .. Cardinality(R) -> R] :
        \A i, j \in DOMAIN q : i < j =>
            /\ q[i] # q[j]
            /\ kind.ordered => ~KeyBefore(q[j].key, q[i].key)}

\* execute_in_chunks spawns one statement for each chunk of the rows.
NumChunks(q) == (Len(q) + ChunkSize - 1) \div ChunkSize

Chunk(q, c) ==
    SubSeq(q, (c - 1) * ChunkSize + 1,
           IF c * ChunkSize < Len(q) THEN c * ChunkSize ELSE Len(q))

NewStatements(t, q) ==
    {[life |-> life, task |-> t, chunk |-> c, rows |-> Chunk(q, c),
      pos |-> 1, attempt |-> 1, result |-> "running"] : c \in 1 .. NumChunks(q)}

Own(t) == {s \in stmts : s.life = life /\ s.task = t}

\* A task takes the next batch and sends the statements for its rows.
ProcessTransactions(t) ==
    /\ life <= MaxLives
    /\ batch[t] = {}
    /\ \E n \in 1 .. MaxBatch :
          LET B == next_version .. next_version + n - 1
          IN  /\ next_version + n - 1 <= LastVersion
              /\ \E q \in SortedRows(BatchRows(B)) :
                    stmts' = stmts \cup NewStatements(t, q)
              /\ batch' = [batch EXCEPT ![t] = B]
              /\ next_version' = next_version + n
    /\ UNCHANGED <<kind, writes, table, done, life, faults>>

-----------------------------------------------------------------------------
(* The statements inside the database *)

Running(s) == s.result = "running"

Locked(s) == {s.rows[i].key : i \in 1 .. s.pos - 1}

Replace(s, new) == (stmts \ {s}) \cup new

\* s cannot lock its next row because r has it.
WaitsFor(s, r) ==
    /\ r # s
    /\ Running(s) /\ Running(r)
    /\ s.pos <= Len(s.rows)
    /\ s.rows[s.pos].key \in Locked(r)

\* Every statement of S waits for another one of S.
Deadlocked(S) == S # {} /\ \A s \in S : \E r \in S : WaitsFor(s, r)

LockRow(s) ==
    /\ Running(s)
    /\ s.pos <= Len(s.rows)
    /\ \A r \in stmts : ~WaitsFor(s, r)
    /\ stmts' = Replace(s, {[s EXCEPT !.pos = s.pos + 1]})
    /\ UNCHANGED <<kind, writes, table, batch, next_version, done, life, faults>>

\* Variant: the WHERE clause never reaches the database.
EffectiveGuard_Dropped(s) ==
    IF kind.guard \in {"latest", "first"} THEN "always" ELSE kind.guard

\* execute_with_better_error appends the WHERE clause of the table unless the
\* debug text of the statement, which includes its values, contains "where".
EffectiveGuard(s) ==
    IF /\ kind.guard \in {"latest", "first"}
       /\ \E i \in DOMAIN s.rows : s.rows[i].version \in WhereVersions
    THEN "always"
    ELSE kind.guard

\* ON CONFLICT: what becomes of the row old when new is inserted.
Resolve(guard, old, new) ==
    CASE old = NoRow -> new
      [] old # NoRow /\ guard = "latest" -> IF old <= new THEN new ELSE old
      [] old # NoRow /\ guard = "first" -> IF old >= new THEN new ELSE old
      [] old # NoRow /\ guard = "always" -> new
      [] old # NoRow /\ guard = "nothing" -> old

RowFor(s, k) == CHOOSE i \in DOMAIN s.rows : s.rows[i].key = k

\* All rows are locked: the statement takes effect.
Commit(s) ==
    /\ Running(s)
    /\ s.pos > Len(s.rows)
    /\ table' = [k \in PrimaryKeys |->
                    IF k \in Locked(s)
                    THEN Resolve(EffectiveGuard(s), table[k],
                                 s.rows[RowFor(s, k)].version)
                    ELSE table[k]]
    /\ stmts' = Replace(s, IF s.life = life
                           THEN {[s EXCEPT !.result = "ok"]} ELSE {})
    /\ UNCHANGED <<kind, writes, batch, next_version, done, life, faults>>

\* Variant: a statement that failed is taken to be finished.
Answered_Ignored(s) == {[s EXCEPT !.result = "ok"]}

\* Variant: sent again after every error.
Answered_Forever(s) ==
    IF s.life # life THEN {} ELSE {[s EXCEPT !.attempt = s.attempt + 1, !.pos = 1]}

\* execute_or_retry_cleaned: after an error the statement is built again from the
\* cleaned rows and sent once more; the second error is returned.  Nobody sends
\* the statement of a process that has ended again.
Answered(s) ==
    IF s.life # life THEN {}
    ELSE IF s.attempt = 1 THEN {[s EXCEPT !.attempt = 2, !.pos = 1]}
    ELSE {[s EXCEPT !.result = "error", !.pos = 1]}

\* The database fails a statement, and undoes it: a connection is lost, a value
\* is not accepted.
StatementFails(s) ==
    /\ Running(s)
    /\ faults < MaxFaults
    /\ faults' = faults + 1
    /\ stmts' = Replace(s, Answered(s))
    /\ UNCHANGED <<kind, writes, table, batch, next_version, done, life>>

\* The database ends a deadlock by failing one of its statements.
DeadlockVictim(s) ==
    /\ \E S \in SUBSET stmts : s \in S /\ Deadlocked(S)
    /\ stmts' = Replace(s, Answered(s))
    /\ UNCHANGED <<kind, writes, table, batch, next_version, done, life, faults>>

-----------------------------------------------------------------------------
(* The end of a batch, and of the process *)

\* insert_to_db has joined all statements, and all succeeded.
InsertReturns(t) ==
    /\ batch[t] # {}
    /\ \A s \in Own(t) : s.result = "ok"
    /\ done' = done \cup batch[t]
    /\ batch' = [batch EXCEPT ![t] = {}]
    /\ stmts' = stmts \ Own(t)
    /\ UNCHANGED <<kind, writes, table, next_version, life, faults>>

\* Variant: the next process goes on where the last one stopped reading.
EndLife_Skips ==
    /\ life' = life + 1
    /\ batch' = [t \in Tasks |-> {}]
    /\ \E sent \in SUBSET {s \in stmts : Running(s)} : stmts' = sent
    /\ UNCHANGED <<kind, writes, table, done, next_version>>

\* Statements that have reached the database may go on or be abandoned there.
\* The next process starts at the version after the stored status, which is
\* somewhere below the first version that is not done; it may cut other batches.
EndLife ==
    /\ life' = life + 1
    /\ batch' = [t \in Tasks |-> {}]
    /\ \E sent \in SUBSET {s \in stmts : Running(s)} : stmts' = sent
    /\ \E v \in 1 .. LastVersion + 1 :
          /\ 1 .. v - 1 \subseteq done
          /\ next_version' = v
    /\ UNCHANGED <<kind, writes, table, done>>

\* insert_to_db has joined all statements, and one failed: the task panics.
InsertFails(t) ==
    /\ batch[t] # {}
    /\ \A s \in Own(t) : ~Running(s)
    /\ \E s \in Own(t) : s.result = "error"
    /\ EndLife
    /\ UNCHANGED faults

\* A panic elsewhere in the process, or a kill from outside.
Killed ==
    /\ life < MaxLives
    /\ faults < MaxFaults
    /\ faults' = faults + 1
    /\ EndLife

\* Nothing is left to do: all is done, or the process is not started again.
Rest ==
    /\ next_version > LastVersion \/ life > MaxLives
    /\ stmts = {}
    /\ \A t \in Tasks : batch[t] = {}
    /\ UNCHANGED vars

TaskStep(t) == ProcessTransactions(t) \/ InsertReturns(t) \/ InsertFails(t)

Next ==
    \/ \E t \in Tasks : TaskStep(t)
    \/ \E s \in stmts : \/ LockRow(s) \/ Commit(s)
                        \/ StatementFails(s) \/ DeadlockVictim(s)
    \/ Killed
    \/ Rest

Spec == Init /\ [][Next]_vars

\* Tasks are polled, and the database executes what it can.
FairSpec ==
    /\ Spec
    /\ \A t \in Tasks : WF_vars(TaskStep(t))
    /\ WF_vars(\E s \in stmts : LockRow(s) \/ Commit(s) \/ DeadlockVictim(s))

-----------------------------------------------------------------------------
Row == [key : PrimaryKeys, version : Versions]

Statement ==
    [life : Nat, task : Tasks, chunk : Nat, rows : Seq(Row), pos : Nat,
     attempt : {1, 2}, result : {"running", "ok", "error"}]

TypeOK ==
    /\ kind \in AnyKind
    /\ writes \in [Versions -> SUBSET Keys]
    /\ table \in [PrimaryKeys -> Versions \cup {NoRow}]
    /\ stmts \subseteq Statement
    /\ \A s \in stmts : s.life \in 1 .. life /\ s.pos \in 1 .. Len(s.rows) + 1
    /\ batch \in [Tasks -> SUBSET Versions]
    /\ next_version \in 1 .. LastVersion + 1
    /\ done \subseteq Versions
    /\ life \in 1 .. MaxLives + 1
    /\ faults \in 0 .. MaxFaults

\* The rows of a table of kind k are collected by their key, or have the version
\* of their transaction in it, so that those of two transactions differ.
CollectedByKey(k) == k.keep = "all" => k.append

\* What a batch keeps of several writes of a row is also what the table keeps.
Converges(k) ==
    /\ CollectedByKey(k)
    /\ ~k.append => /\ k.guard = "latest" => k.keep # "first"
                    /\ k.guard = "first" => k.keep # "last"

\* What the table must show for the row that version v writes to key k.
Shows(v, k) ==
    LET row == table[PrimaryKey(v, k)]
    IN  /\ row # NoRow
        /\ kind.guard = "latest" => row >= v
        /\ kind.guard = "first" => row <= v
        /\ kind.append => row = v

\* Once a batch is reported as processed, each of its rows is in the table or
\* was replaced by a later one (by an earlier one where the table keeps the
\* first): whatever order concurrent, repeated and orphaned statements commit
\* in, no stale row survives.
DoneIsVisible == \A v \in done : \A k \in writes[v] : Shows(v, k)

\* The versions that write the row with primary key p.
Writers(p) == {v \in Versions : \E k \in writes[v] : PrimaryKey(v, k) = p}

\* A stored row is always one that some version wrote under this very key.  Once
\* all versions are done the table has a row for every key written, and it is the
\* last (first) one written: how versions were cut into batches and chunks, which
\* tasks had them, what failed and was sent again, and which statements of ended
\* processes are still to commit makes no difference to what the table says.
TableIsExact ==
    \A p \in PrimaryKeys :
        /\ table[p] # NoRow => table[p] \in Writers(p)
        /\ done = Versions /\ Writers(p) # {} =>
              /\ table[p] # NoRow
              /\ kind.guard = "latest" => \A v \in Writers(p) : v <= table[p]
              /\ kind.guard = "first" => \A v \in Writers(p) : v >= table[p]

\* A row of a table of latest states is never replaced by an older one, and a
\* row of a table of first states never by a younger one.
NeverStale ==
    [][\A k \in PrimaryKeys : table[k] # NoRow =>
          /\ kind.guard = "latest" => table[k] <= table'[k]
          /\ kind.guard = "first" => table[k] >= table'[k]]_vars

\* Concurrent statements never wait for each other in a circle ("sorting by pk
\* in order to avoid postgres deadlock since we're doing multi threaded db
\* writes").
NoDeadlock == \A S \in SUBSET stmts : ~Deadlocked(S)

\* Every version is eventually processed, in spite of failing statements and of
\* restarts.
AllDone == <>(done = Versions)
=============================================================================
