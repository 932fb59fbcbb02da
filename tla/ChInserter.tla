----------------------------- MODULE ChInserter -----------------------------
(***************************************************************************)
(* The ClickHouse driver of components/clickhouseexporter/driver.go, used  *)
(* by several collectors that share one table.  An exporter connects, and  *)
(* creates the database on the way when it is missing; Start ensures the   *)
(* base schema; each flush adds the columns and indexes of new attribute   *)
(* keys one statement after the other and then sends the batch.            *)
(*                                                                         *)
(* The server is external: it executes one statement at a time.  Any call  *)
(* may fail, with or without having taken effect (a lost reply), and an    *)
(* exporter may crash between two statements and be started again, when it *)
(* no longer knows which keys it has ensured.                              *)
(***************************************************************************)
EXTENDS Integers, FiniteSets

CONSTANTS
  Exporters,
  Keys,          \* attribute keys
  attrColumn,    \* the name of the column of each key
  Batches,       \* the keys of the rows of a batch
  HasDatabase,   \* whether a target database is configured
  MaxFaults,     \* bound: how many calls fail
  MaxStarts      \* bound: how often exporters are started

ASSUME BatchesAssumption == Batches \subseteq SUBSET Keys
ASSUME DatabaseAssumption == HasDatabase \in BOOLEAN
ASSUME BoundsAssumption == MaxFaults \in Nat /\ MaxStarts \in Nat

VARIABLES
  database,   \* the target database exists
  table,      \* the spans table exists
  columns,    \* its attribute columns: name, and the key of the default
  indexes,    \* the names of the indexed columns
  stored,     \* the batches inserted
  pc,         \* where each exporter is
  conns,      \* its open connections
  leased,     \* it holds a prepared batch
  known,      \* the keys it has ensured (Writer.known)
  batch,      \* the keys of the batch it is flushing
  todo,       \* those still to be ensured
  key,        \* the key whose column it has just added
  rejected,   \* the server rejected a statement other than the probe
  faults, starts

serverVars == <<database, table, columns, indexes, stored>>
flushVars == <<known, batch, todo, key>>
linkVars == <<conns, leased>>
vars == <<serverVars, pc, flushVars, linkVars, rejected, faults, starts>>

NoKey == "none"
Names == {attrColumn[k] : k \in Keys}
Bootstrap == {"verify", "ensure", "create", "reopen"}
Flushing == {"column", "index", "prepare", "append", "send"}
Connected == {"opened", "table", "ready", "closing"} \cup Flushing

TypeOK ==
  /\ database \in BOOLEAN /\ table \in BOOLEAN
  /\ columns \subseteq [name : Names, key : Keys] /\ indexes \subseteq Names
  /\ stored \subseteq SUBSET Keys
  /\ pc \in [Exporters -> {"down"} \cup Bootstrap \cup Connected]
  /\ conns \in [Exporters -> Nat] /\ leased \in [Exporters -> BOOLEAN]
  /\ known \in [Exporters -> SUBSET Keys] /\ batch \in [Exporters -> SUBSET Keys]
  /\ todo \in [Exporters -> SUBSET Keys] /\ key \in [Exporters -> Keys \cup {NoKey}]
  /\ rejected \in BOOLEAN /\ faults \in 0..MaxFaults /\ starts \in 0..MaxStarts

\* The database may have been created by somebody else; the table is ours.
Init ==
  /\ database \in BOOLEAN /\ table = FALSE
  /\ columns = {} /\ indexes = {} /\ stored = {}
  /\ pc = [e \in Exporters |-> "down"]
  /\ conns = [e \in Exporters |-> 0] /\ leased = [e \in Exporters |-> FALSE]
  /\ known = [e \in Exporters |-> {}] /\ batch = [e \in Exporters |-> {}]
  /\ todo = [e \in Exporters |-> {}] /\ key = [e \in Exporters |-> NoKey]
  /\ rejected = FALSE /\ faults = 0 /\ starts = 0

-----------------------------------------------------------------------------
(* The server.                                                             *)

Goto(e, label) == pc' = [pc EXCEPT ![e] = label]

CreateDatabase == database' = TRUE /\ UNCHANGED <<table, columns, indexes, stored>>

CreateTable == table' = TRUE /\ UNCHANGED <<database, columns, indexes, stored>>

HasColumn(name) == \E col \in columns : col.name = name

\* ADD COLUMN IF NOT EXISTS leaves a column of that name as it is.
AddColumn(k) ==
  /\ columns' = IF HasColumn(attrColumn[k]) THEN columns
                ELSE columns \cup {[name |-> attrColumn[k], key |-> k]}
  /\ UNCHANGED <<database, table, indexes, stored>>

AddIndex(k) ==
  /\ indexes' = indexes \cup {attrColumn[k]}
  /\ UNCHANGED <<database, table, columns, stored>>

Insert(S) == stored' = stored \cup {S} /\ UNCHANGED <<database, table, columns, indexes>>

DatabaseReady == HasDatabase => database

Fault == faults < MaxFaults /\ faults' = faults + 1

Succeeds(e, effect, label) == effect /\ Goto(e, label) /\ UNCHANGED <<rejected, faults>>

\* The statement failed: rejected for what it refers to, not executed, or
\* executed without an answer.
Fails(e, accepted, effect, label) ==
  /\ Goto(e, label)
  /\ \/ ~accepted /\ rejected' = TRUE /\ UNCHANGED <<serverVars, faults>>
     \/ Fault /\ UNCHANGED <<serverVars, rejected>>
     \/ Fault /\ accepted /\ effect /\ UNCHANGED rejected

-----------------------------------------------------------------------------
(* newInserter: openConnWithDatabase, bootstrapAndOpen.                    *)

Connections(e, n) == conns' = [conns EXCEPT ![e] = @ + n] /\ UNCHANGED leased

\* clickhouse-go may connect now and report the missing database, or later.
Open(e) ==
  /\ pc[e] = "down" /\ starts < MaxStarts
  /\ starts' = starts + 1
  /\ UNCHANGED <<serverVars, flushVars, rejected>>
  /\ \/ /\ Goto(e, IF HasDatabase THEN "verify" ELSE "opened")
        /\ Connections(e, 1) /\ UNCHANGED faults
     \/ ~DatabaseReady /\ Goto(e, "ensure") /\ UNCHANGED <<linkVars, faults>>
     \/ Fault /\ Goto(e, "down") /\ UNCHANGED linkVars

\* SELECT 1; error 81 means that the database is missing.
Verify(e) ==
  /\ pc[e] = "verify"
  /\ UNCHANGED <<serverVars, flushVars, rejected, starts>>
  /\ \/ database /\ Goto(e, "opened") /\ UNCHANGED <<linkVars, faults>>
     \/ ~database /\ Goto(e, "ensure") /\ Connections(e, -1) /\ UNCHANGED faults
     \/ Fault /\ Goto(e, "down") /\ Connections(e, -1)

\* ensureDatabaseExists: a second connection, without the target database.
EnsureOpen(e) ==
  /\ pc[e] = "ensure"
  /\ UNCHANGED <<serverVars, flushVars, rejected, starts>>
  /\ \/ Goto(e, "create") /\ Connections(e, 1) /\ UNCHANGED faults
     \/ Fault /\ Goto(e, "down") /\ UNCHANGED linkVars

EnsureCreate(e) ==
  /\ pc[e] = "create"
  /\ Succeeds(e, CreateDatabase, "reopen") \/ Fails(e, TRUE, CreateDatabase, "down")
  /\ Connections(e, -1)
  /\ UNCHANGED <<flushVars, starts>>

Reopen(e) ==
  /\ pc[e] = "reopen"
  /\ UNCHANGED <<serverVars, flushVars, rejected, starts>>
  /\ \/ Goto(e, "opened") /\ Connections(e, 1) /\ UNCHANGED faults
     \/ Fault /\ Goto(e, "down") /\ UNCHANGED linkVars

-----------------------------------------------------------------------------
(* EnsureBaseSchema, called by Start.  When it fails, the collector shuts  *)
(* the exporter down.                                                      *)

EnsureDatabase(e) ==
  /\ pc[e] = "opened"
  /\ IF HasDatabase
     THEN Succeeds(e, CreateDatabase, "table") \/ Fails(e, TRUE, CreateDatabase, "closing")
     ELSE Succeeds(e, UNCHANGED serverVars, "table")
  /\ UNCHANGED <<flushVars, linkVars, starts>>

\* Mutant: the exporter starts although the table could not be created.
EnsureTableBestEffort(e) ==
  /\ pc[e] = "table"
  /\ \/ DatabaseReady /\ Succeeds(e, CreateTable, "ready")
     \/ Fails(e, DatabaseReady, CreateTable, "ready")
  /\ UNCHANGED <<flushVars, linkVars, starts>>

EnsureTable(e) ==
  /\ pc[e] = "table"
  /\ \/ DatabaseReady /\ Succeeds(e, CreateTable, "ready")
     \/ Fails(e, DatabaseReady, CreateTable, "closing")
  /\ UNCHANGED <<flushVars, linkVars, starts>>

\* Shutdown, also after a Start that failed; or newExporter closes the writer it
\* could not register metrics for.
Close(e) ==
  /\ pc[e] \in {"opened", "ready", "closing"}
  /\ Goto(e, "down") /\ Connections(e, -1)
  /\ known' = [known EXCEPT ![e] = {}] /\ UNCHANGED <<batch, todo, key>>
  /\ UNCHANGED <<serverVars, rejected, faults, starts>>

-----------------------------------------------------------------------------
(* A flush: AddColumns for the new keys, then InsertBatch.                 *)

AfterEnsuring(left) == IF left = {} THEN "prepare" ELSE "column"

Flush(e) ==
  /\ pc[e] = "ready"
  /\ \E S \in Batches :
       /\ batch' = [batch EXCEPT ![e] = S]
       /\ todo' = [todo EXCEPT ![e] = S \ known[e]]
       /\ Goto(e, AfterEnsuring(S \ known[e]))
  /\ UNCHANGED <<serverVars, known, key, linkVars, rejected, faults, starts>>

\* newKeys collects the keys from maps: any of them is next.
AddOneColumn(e) ==
  /\ pc[e] = "column"
  /\ \E k \in todo[e] :
       /\ \/ table /\ Succeeds(e, AddColumn(k), "index")
          \/ Fails(e, table, AddColumn(k), "ready")
       /\ key' = [key EXCEPT ![e] = k]
  /\ UNCHANGED <<known, batch, todo, linkVars, starts>>

\* Mutant: a key counts as known although its index could not be added.
AddOneIndexBestEffort(e) ==
  /\ pc[e] = "index"
  /\ LET k == key[e]
         left == todo[e] \ {k}
     IN /\ \/ HasColumn(attrColumn[k]) /\ Succeeds(e, AddIndex(k), AfterEnsuring(left))
           \/ Fails(e, HasColumn(attrColumn[k]), AddIndex(k), AfterEnsuring(left))
        /\ todo' = [todo EXCEPT ![e] = left]
        /\ known' = [known EXCEPT ![e] = IF left = {} THEN @ \cup batch[e] ELSE @]
  /\ UNCHANGED <<batch, key, linkVars, starts>>

\* With the last index every key of the batch is known.
AddOneIndex(e) ==
  /\ pc[e] = "index"
  /\ LET k == key[e]
         left == todo[e] \ {k}
     IN \/ /\ HasColumn(attrColumn[k]) /\ Succeeds(e, AddIndex(k), AfterEnsuring(left))
           /\ todo' = [todo EXCEPT ![e] = left]
           /\ known' = [known EXCEPT ![e] = IF left = {} THEN @ \cup batch[e] ELSE @]
        \/ Fails(e, HasColumn(attrColumn[k]), AddIndex(k), "ready") /\ UNCHANGED <<todo, known>>
  /\ UNCHANGED <<batch, key, linkVars, starts>>

Lease(e, held) == leased' = [leased EXCEPT ![e] = held] /\ UNCHANGED conns

PrepareBatch(e) ==
  /\ pc[e] = "prepare"
  /\ \/ table /\ Succeeds(e, UNCHANGED serverVars, "append") /\ Lease(e, TRUE)
     \/ Fails(e, table, UNCHANGED serverVars, "ready") /\ UNCHANGED linkVars
  /\ UNCHANGED <<flushVars, starts>>

\* Mutant: a batch that could not be filled is not aborted.
AppendRowsLeaking(e) ==
  /\ pc[e] = "append"
  /\ \/ Succeeds(e, UNCHANGED serverVars, "send") /\ UNCHANGED linkVars
     \/ Fails(e, TRUE, UNCHANGED serverVars, "ready") /\ UNCHANGED linkVars
  /\ UNCHANGED <<flushVars, starts>>

\* Append fails on the client; the batch is then aborted.
AppendRows(e) ==
  /\ pc[e] = "append"
  /\ \/ Succeeds(e, UNCHANGED serverVars, "send") /\ UNCHANGED linkVars
     \/ Fails(e, TRUE, UNCHANGED serverVars, "ready") /\ Lease(e, FALSE)
  /\ UNCHANGED <<flushVars, starts>>

Send(e) ==
  /\ pc[e] = "send"
  /\ Succeeds(e, Insert(batch[e]), "ready") \/ Fails(e, TRUE, Insert(batch[e]), "ready")
  /\ Lease(e, FALSE)
  /\ UNCHANGED <<flushVars, starts>>

-----------------------------------------------------------------------------
\* The process dies, and with it what it knew and its connections.
Crash(e) ==
  /\ pc[e] # "down"
  /\ Goto(e, "down")
  /\ conns' = [conns EXCEPT ![e] = 0] /\ leased' = [leased EXCEPT ![e] = FALSE]
  /\ known' = [known EXCEPT ![e] = {}] /\ UNCHANGED <<batch, todo, key>>
  /\ UNCHANGED <<serverVars, rejected, faults, starts>>

Step(e) ==
  \/ Open(e) \/ Verify(e) \/ EnsureOpen(e) \/ EnsureCreate(e) \/ Reopen(e)
  \/ EnsureDatabase(e) \/ EnsureTable(e) \/ Close(e)
  \/ Flush(e) \/ AddOneColumn(e) \/ AddOneIndex(e)
  \/ PrepareBatch(e) \/ AppendRows(e) \/ Send(e)
  \/ Crash(e)

\* Nobody is started any more.
Terminated ==
  /\ starts = MaxStarts /\ \A e \in Exporters : pc[e] = "down"
  /\ UNCHANGED vars

Next == (\E e \in Exporters : Step(e)) \/ Terminated

Spec == Init /\ [][Next]_vars

-----------------------------------------------------------------------------
(* Properties.                                                             *)

\* No other key has the same column name; a hash of 32 bits does not exclude it.
OwnName(k) == \A l \in Keys : attrColumn[l] = attrColumn[k] => l = k

\* The keys whose column is there with its index, filled from the key or, when
\* keys have the same name, from one of them.
Searchable == {k \in Keys :
  /\ attrColumn[k] \in indexes
  /\ \E col \in columns : col.name = attrColumn[k] /\ (OwnName(k) => col.key = k)}

\* A key an exporter will not ensure again has its column, filled from this key
\* if the name is its own, and the index, whatever failed and whoever else
\* altered the table (AddColumns, Writer.known).
KnownKeysSearchable == \A e \in Exporters : known[e] \subseteq Searchable

\* Distinct keys always get distinct columns: the column that an exporter has
\* ensured for a key is filled from that key (attrColumn, attrKeyHash).
KnownKeysOwnColumns ==
  \A e \in Exporters : \A k \in known[e] : [name |-> attrColumn[k], key |-> k] \in columns

\* Bootstrapping, failing and flushing leave no connection behind and need one
\* at a time: an exporter that is down has none, a connected one has its own,
\* and a prepared batch is held only while it is filled and sent
\* (openConnWithDatabase's Close, ensureDatabaseExists's defer, Abort).
ConnectionsBalanced ==
  \A e \in Exporters :
    /\ conns[e] = (IF pc[e] \in Connected \cup {"verify", "create"} THEN 1 ELSE 0)
    /\ leased[e] <=> pc[e] \in {"append", "send"}

\* No statement refers to what does not exist: after a crash between any two
\* statements, and next to other exporters that start and flush, the order of
\* statements builds everything first (EnsureBaseSchema, AddColumns).
NeverRejected == ~rejected

\* The table is one with a growing schema: rows are stored only when each of
\* their keys can be searched by, also those of a batch whose keys were ensured
\* by an earlier flush.
Store == INSTANCE SchemaStore WITH searchable <- Searchable
ImplementsSchemaStore == Store!Spec
=============================================================================
