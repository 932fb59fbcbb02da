-------------------------- MODULE ChInserterProofs --------------------------
(***************************************************************************)
(* Theorems about ChInserter for any number of exporters, keys, faults and *)
(* restarts.  The invariant says, for each place an exporter can be at,    *)
(* what the statements before it have built.  Nothing built is ever taken  *)
(* away (ServerGrows), so the steps of other exporters keep it.            *)
(***************************************************************************)
EXTENDS ChInserter, TLAPS

ColumnOf(k) == [name |-> attrColumn[k], key |-> k]

\* Every column is the column of a key.
ColumnsOfKeys == \A col \in columns : col = ColumnOf(col.key)

\* What the exporter has seen succeed exists.
Built(e) ==
  /\ pc[e] \in {"opened", "table", "ready", "reopen"} \cup Flushing => DatabaseReady
  /\ pc[e] \in {"ready"} \cup Flushing => table
  /\ known[e] \subseteq Searchable
  /\ pc[e] \in {"column", "index"} => batch[e] \ todo[e] \subseteq Searchable
  /\ pc[e] = "index" => key[e] \in todo[e] /\ HasColumn(attrColumn[key[e]])
  /\ pc[e] \in {"prepare", "append", "send"} => batch[e] \subseteq Searchable

DriverInv ==
  /\ TypeOK /\ ConnectionsBalanced /\ NeverRejected /\ ColumnsOfKeys
  /\ \A e \in Exporters : Built(e)

\* The server only gains: the schema never shrinks.
ServerGrows ==
  /\ database => database'
  /\ table => table'
  /\ columns \subseteq columns' /\ indexes \subseteq indexes'

USE DEF Bootstrap, Flushing, Connected

-----------------------------------------------------------------------------
\* What can be searched by stays searchable.
LEMMA SearchableGrows == ASSUME ServerGrows PROVE Searchable \subseteq Searchable'
  BY DEF ServerGrows, Searchable

\* A column that has the name of one key only is filled from it.
LEMMA ColumnsFilledByTheirKeys ==
  ASSUME TypeOK, ColumnsOfKeys, NEW k \in Keys, OwnName(k), NEW col \in columns,
         col.name = attrColumn[k]
  PROVE  col.key = k
<1>1. col.key \in Keys /\ col = ColumnOf(col.key)
  BY DEF TypeOK, ColumnsOfKeys
<1>2. attrColumn[col.key] = attrColumn[k]
  BY <1>1 DEF ColumnOf
<1> QED
  BY <1>1, <1>2 DEF OwnName

\* Every statement adds to the server or leaves it alone.
LEMMA StatementsAdd ==
  ASSUME NEW k \in Keys, NEW S \in SUBSET Keys, TypeOK,
         \/ CreateDatabase \/ CreateTable \/ AddColumn(k) \/ AddIndex(k) \/ Insert(S)
         \/ UNCHANGED serverVars
  PROVE  ServerGrows
  BY DEF CreateDatabase, CreateTable, AddColumn, AddIndex, Insert, serverVars, ServerGrows

\* An exporter that did not move keeps what it built.
LEMMA OthersKeepBuilt ==
  ASSUME DriverInv, ServerGrows, NEW e \in Exporters,
         pc'[e] = pc[e], known'[e] = known[e], batch'[e] = batch[e],
         todo'[e] = todo[e], key'[e] = key[e]
  PROVE  Built(e)'
<1>1. Searchable \subseteq Searchable'
  BY SearchableGrows
<1>2. Built(e)
  BY DEF DriverInv
<1>3. (DatabaseReady => DatabaseReady') /\ (table => table') /\ columns \subseteq columns'
  BY DEF ServerGrows, DatabaseReady
<1> QED
  BY <1>1, <1>2, <1>3 DEF Built, HasColumn

-----------------------------------------------------------------------------
(* What the steps of an exporter have in common.                           *)

\* Exporters other than e stay where they are.
OthersStay(e) ==
  \A f \in Exporters \ {e} :
    /\ pc'[f] = pc[f] /\ known'[f] = known[f] /\ batch'[f] = batch[f]
    /\ todo'[f] = todo[f] /\ key'[f] = key[f]
    /\ conns'[f] = conns[f] /\ leased'[f] = leased[f]

\* The moved exporter is where its connections say.
BalancedAt(e) ==
  /\ conns[e] = (IF pc[e] \in Connected \cup {"verify", "create"} THEN 1 ELSE 0)
  /\ leased[e] <=> pc[e] \in {"append", "send"}

\* It is enough to look at the exporter that moved.
LEMMA OnlyTheMover ==
  ASSUME DriverInv, NEW e \in Exporters, OthersStay(e), ServerGrows,
         TypeOK', NeverRejected', ColumnsOfKeys', BalancedAt(e)', Built(e)'
  PROVE  DriverInv'
<1>1. ConnectionsBalanced'
  BY DEF DriverInv, ConnectionsBalanced, BalancedAt, OthersStay
<1>2. ASSUME NEW f \in Exporters PROVE Built(f)'
  <2>1. CASE f = e
    BY <2>1
  <2>2. CASE f # e
    BY <2>2, OthersKeepBuilt DEF OthersStay
  <2> QED
    BY <2>1, <2>2
<1> QED
  BY <1>1, <1>2 DEF DriverInv

\* A step that leaves the server and the flush alone keeps what e has built,
\* if it does not go where more has to be built.
LEMMA QuietStep ==
  ASSUME DriverInv, NEW e \in Exporters, OthersStay(e), TypeOK', NeverRejected',
         UNCHANGED serverVars, UNCHANGED flushVars, BalancedAt(e)',
         \/ pc'[e] \in {"down", "verify", "ensure", "create", "closing"}
         \/ (pc'[e] = "opened" /\ DatabaseReady)
         \/ pc'[e] = "ready" /\ pc[e] \in {"ready"} \cup Flushing
         \/ pc'[e] \in {"append", "send"} /\ pc[e] \in {"prepare", "append"}
  PROVE  DriverInv'
<1>1. ServerGrows /\ ColumnsOfKeys' /\ Searchable' = Searchable /\ DatabaseReady' = DatabaseReady
  BY DEF serverVars, ServerGrows, DriverInv, ColumnsOfKeys, ColumnOf, Searchable, DatabaseReady
<1>2. Built(e)'
  BY <1>1 DEF DriverInv, Built, serverVars, flushVars, HasColumn
<1> QED
  BY <1>1, <1>2, OnlyTheMover

-----------------------------------------------------------------------------
(* Bootstrapping.                                                          *)

LEMMA OpenInv == ASSUME DriverInv, NEW e \in Exporters, Open(e) PROVE DriverInv'
<1>1. OthersStay(e)
  BY DEF Open, Goto, Connections, linkVars, flushVars, OthersStay, DriverInv, TypeOK
<1>2. TypeOK' /\ NeverRejected' /\ BalancedAt(e)'
  BY BoundsAssumption, DatabaseAssumption DEF Open, Goto, Connections, Fault, linkVars,
     flushVars, serverVars, DriverInv, TypeOK, NeverRejected, ConnectionsBalanced, BalancedAt
<1>3. UNCHANGED serverVars /\ UNCHANGED flushVars
  BY DEF Open
<1>4. pc'[e] \in {"down", "verify", "ensure"} \/ (pc'[e] = "opened" /\ DatabaseReady)
  BY DatabaseAssumption DEF Open, Goto, DriverInv, TypeOK, DatabaseReady
<1> QED
  BY <1>1, <1>2, <1>3, <1>4, QuietStep

LEMMA VerifyInv == ASSUME DriverInv, NEW e \in Exporters, Verify(e) PROVE DriverInv'
<1>1. OthersStay(e)
  BY DEF Verify, Goto, Connections, linkVars, flushVars, OthersStay, DriverInv, TypeOK
<1>2. TypeOK' /\ NeverRejected' /\ BalancedAt(e)'
  BY BoundsAssumption DEF Verify, Goto, Connections, Fault, linkVars,
     flushVars, serverVars, DriverInv, TypeOK, NeverRejected, ConnectionsBalanced, BalancedAt
<1>3. UNCHANGED serverVars /\ UNCHANGED flushVars
  BY DEF Verify
<1>4. pc'[e] \in {"down", "ensure"} \/ (pc'[e] = "opened" /\ DatabaseReady)
  BY DEF Verify, Goto, DriverInv, TypeOK, DatabaseReady
<1> QED
  BY <1>1, <1>2, <1>3, <1>4, QuietStep

LEMMA EnsureOpenInv == ASSUME DriverInv, NEW e \in Exporters, EnsureOpen(e) PROVE DriverInv'
<1>1. OthersStay(e)
  BY DEF EnsureOpen, Goto, Connections, linkVars, flushVars, OthersStay, DriverInv, TypeOK
<1>2. TypeOK' /\ NeverRejected' /\ BalancedAt(e)'
  BY BoundsAssumption DEF EnsureOpen, Goto, Connections, Fault, linkVars,
     flushVars, serverVars, DriverInv, TypeOK, NeverRejected, ConnectionsBalanced, BalancedAt
<1>3. UNCHANGED serverVars /\ UNCHANGED flushVars /\ pc'[e] \in {"down", "create"}
  BY DEF EnsureOpen, Goto, DriverInv, TypeOK
<1> QED
  BY <1>1, <1>2, <1>3, QuietStep

LEMMA EnsureCreateInv == ASSUME DriverInv, NEW e \in Exporters, EnsureCreate(e) PROVE DriverInv'
<1> USE DEF EnsureCreate, Succeeds, Fails, CreateDatabase
<1>1. OthersStay(e)
  BY DEF Goto, Connections, flushVars, OthersStay, DriverInv, TypeOK
<1>2a. NeverRejected' /\ BalancedAt(e)'
  BY BoundsAssumption DEF Goto, Connections, Fault, flushVars, serverVars,
     DriverInv, TypeOK, NeverRejected, ConnectionsBalanced, BalancedAt
<1>2b. TypeOK'
  <2>1. database' \in BOOLEAN /\ table' \in BOOLEAN /\ columns' = columns /\ indexes' = indexes /\ stored' = stored
    BY BoundsAssumption DEF Goto, Connections, Fault, flushVars, serverVars,
       DriverInv, TypeOK, NeverRejected, ConnectionsBalanced
  <2>2. pc' \in [Exporters -> {"down"} \cup Bootstrap \cup Connected]
    BY BoundsAssumption DEF Goto, Connections, Fault, flushVars, serverVars,
       DriverInv, TypeOK, NeverRejected, ConnectionsBalanced
  <2>3. conns' \in [Exporters -> Nat] /\ leased' \in [Exporters -> BOOLEAN]
    BY BoundsAssumption DEF Goto, Connections, Fault, flushVars, serverVars,
       DriverInv, TypeOK, NeverRejected, ConnectionsBalanced
  <2>4. rejected' \in BOOLEAN /\ faults' \in 0..MaxFaults /\ starts' = starts
    BY BoundsAssumption DEF Goto, Connections, Fault, flushVars, serverVars,
       DriverInv, TypeOK, NeverRejected, ConnectionsBalanced
  <2>5. known' \in [Exporters -> SUBSET Keys] /\ UNCHANGED <<batch, todo, key>>
    BY BoundsAssumption DEF Goto, Connections, Fault, flushVars, serverVars,
       DriverInv, TypeOK, NeverRejected, ConnectionsBalanced
  <2> QED
    BY <2>1, <2>2, <2>3, <2>4, <2>5 DEF DriverInv, TypeOK
<1>3. ServerGrows /\ ColumnsOfKeys'
  BY DEF serverVars, ServerGrows, DriverInv, TypeOK, ColumnsOfKeys, ColumnOf
<1>4. (pc'[e] = "reopen" /\ database') \/ pc'[e] = "down"
  BY DEF Goto, DriverInv, TypeOK
<1>5. Built(e)'
  BY <1>3, <1>4, SearchableGrows DEF flushVars, Built, DriverInv, DatabaseReady
<1> QED
  BY <1>1, <1>2a, <1>2b, <1>3, <1>5, OnlyTheMover

LEMMA ReopenInv == ASSUME DriverInv, NEW e \in Exporters, Reopen(e) PROVE DriverInv'
<1>1. OthersStay(e)
  BY DEF Reopen, Goto, Connections, linkVars, flushVars, OthersStay, DriverInv, TypeOK
<1>2. TypeOK' /\ NeverRejected' /\ BalancedAt(e)'
  BY BoundsAssumption DEF Reopen, Goto, Connections, Fault, linkVars,
     flushVars, serverVars, DriverInv, TypeOK, NeverRejected, ConnectionsBalanced, BalancedAt
<1>3. UNCHANGED serverVars /\ UNCHANGED flushVars
  BY DEF Reopen
<1>4. pc'[e] = "down" \/ (pc'[e] = "opened" /\ DatabaseReady)
  BY DEF Reopen, Goto, DriverInv, TypeOK, Built
<1> QED
  BY <1>1, <1>2, <1>3, <1>4, QuietStep

-----------------------------------------------------------------------------
(* Start and Shutdown.                                                     *)

LEMMA EnsureDatabaseInv == ASSUME DriverInv, NEW e \in Exporters, EnsureDatabase(e) PROVE DriverInv'
<1> USE DEF EnsureDatabase, Succeeds, Fails, CreateDatabase
<1>1. OthersStay(e)
  BY DEF Goto, linkVars, flushVars, OthersStay, DriverInv, TypeOK
<1>2a. NeverRejected' /\ BalancedAt(e)'
  BY BoundsAssumption DEF Goto, linkVars, Fault, flushVars, serverVars,
     DriverInv, TypeOK, NeverRejected, ConnectionsBalanced, BalancedAt
<1>2b. TypeOK'
  <2>1. database' \in BOOLEAN /\ table' \in BOOLEAN /\ columns' = columns /\ indexes' = indexes /\ stored' = stored
    BY BoundsAssumption DEF Goto, linkVars, Fault, flushVars, serverVars,
       DriverInv, TypeOK, NeverRejected, ConnectionsBalanced
  <2>2. pc' \in [Exporters -> {"down"} \cup Bootstrap \cup Connected]
    BY BoundsAssumption DEF Goto, linkVars, Fault, flushVars, serverVars,
       DriverInv, TypeOK, NeverRejected, ConnectionsBalanced
  <2>3. conns' \in [Exporters -> Nat] /\ leased' \in [Exporters -> BOOLEAN]
    BY BoundsAssumption DEF Goto, linkVars, Fault, flushVars, serverVars,
       DriverInv, TypeOK, NeverRejected, ConnectionsBalanced
  <2>4. rejected' \in BOOLEAN /\ faults' \in 0..MaxFaults /\ starts' = starts
    BY BoundsAssumption DEF Goto, linkVars, Fault, flushVars, serverVars,
       DriverInv, TypeOK, NeverRejected, ConnectionsBalanced
  <2>5. known' \in [Exporters -> SUBSET Keys] /\ UNCHANGED <<batch, todo, key>>
    BY BoundsAssumption DEF Goto, linkVars, Fault, flushVars, serverVars,
       DriverInv, TypeOK, NeverRejected, ConnectionsBalanced
  <2> QED
    BY <2>1, <2>2, <2>3, <2>4, <2>5 DEF DriverInv, TypeOK
<1>3. ServerGrows /\ ColumnsOfKeys'
  BY DEF serverVars, ServerGrows, DriverInv, TypeOK, ColumnsOfKeys, ColumnOf
<1>4. (pc'[e] = "table" /\ DatabaseReady') \/ pc'[e] = "closing"
  BY DEF Goto, DriverInv, TypeOK, DatabaseReady
<1>5. Built(e)'
  BY <1>3, <1>4, SearchableGrows DEF flushVars, Built, DriverInv
<1> QED
  BY <1>1, <1>2a, <1>2b, <1>3, <1>5, OnlyTheMover

LEMMA EnsureTableInv == ASSUME DriverInv, NEW e \in Exporters, EnsureTable(e) PROVE DriverInv'
<1> USE DEF EnsureTable, Succeeds, Fails, CreateTable
<1>0. DatabaseReady
  BY DEF DriverInv, Built
<1>1. OthersStay(e)
  BY DEF Goto, linkVars, flushVars, OthersStay, DriverInv, TypeOK
<1>2a. NeverRejected' /\ BalancedAt(e)'
  BY <1>0, BoundsAssumption DEF Goto, linkVars, Fault, flushVars, serverVars,
     DriverInv, TypeOK, NeverRejected, ConnectionsBalanced, BalancedAt
<1>2b. TypeOK'
  <2>1. database' \in BOOLEAN /\ table' \in BOOLEAN /\ columns' = columns /\ indexes' = indexes /\ stored' = stored
    BY <1>0, BoundsAssumption DEF Goto, linkVars, Fault, flushVars, serverVars,
       DriverInv, TypeOK, NeverRejected, ConnectionsBalanced
  <2>2. pc' \in [Exporters -> {"down"} \cup Bootstrap \cup Connected]
    BY <1>0, BoundsAssumption DEF Goto, linkVars, Fault, flushVars, serverVars,
       DriverInv, TypeOK, NeverRejected, ConnectionsBalanced
  <2>3. conns' \in [Exporters -> Nat] /\ leased' \in [Exporters -> BOOLEAN]
    BY <1>0, BoundsAssumption DEF Goto, linkVars, Fault, flushVars, serverVars,
       DriverInv, TypeOK, NeverRejected, ConnectionsBalanced
  <2>4. rejected' \in BOOLEAN /\ faults' \in 0..MaxFaults /\ starts' = starts
    BY <1>0, BoundsAssumption DEF Goto, linkVars, Fault, flushVars, serverVars,
       DriverInv, TypeOK, NeverRejected, ConnectionsBalanced
  <2>5. known' \in [Exporters -> SUBSET Keys] /\ UNCHANGED <<batch, todo, key>>
    BY <1>0, BoundsAssumption DEF Goto, linkVars, Fault, flushVars, serverVars,
       DriverInv, TypeOK, NeverRejected, ConnectionsBalanced
  <2> QED
    BY <2>1, <2>2, <2>3, <2>4, <2>5 DEF DriverInv, TypeOK
<1>3. ServerGrows /\ ColumnsOfKeys' /\ DatabaseReady'
  BY <1>0 DEF serverVars, ServerGrows, DriverInv, TypeOK, ColumnsOfKeys, ColumnOf, DatabaseReady
<1>4. (pc'[e] = "ready" /\ table') \/ pc'[e] = "closing"
  BY DEF Goto, DriverInv, TypeOK
<1>5. Built(e)'
  BY <1>3, <1>4, SearchableGrows DEF flushVars, Built, DriverInv
<1> QED
  BY <1>1, <1>2a, <1>2b, <1>3, <1>5, OnlyTheMover

LEMMA LeavingInv ==
  ASSUME DriverInv, NEW e \in Exporters, Close(e) \/ Crash(e) PROVE DriverInv'
<1> USE DEF Close, Crash
<1>1. OthersStay(e)
  BY DEF Goto, Connections, OthersStay, DriverInv, TypeOK
<1>2a. NeverRejected' /\ BalancedAt(e)'
  BY DEF Goto, Connections, serverVars, DriverInv, TypeOK, NeverRejected,
     ConnectionsBalanced, BalancedAt
<1>2b. TypeOK'
  <2>1. database' \in BOOLEAN /\ table' \in BOOLEAN /\ columns' = columns /\ indexes' = indexes /\ stored' = stored
    BY DEF Goto, Connections, serverVars, DriverInv, TypeOK, NeverRejected,
       ConnectionsBalanced
  <2>2. pc' \in [Exporters -> {"down"} \cup Bootstrap \cup Connected]
    BY DEF Goto, Connections, serverVars, DriverInv, TypeOK, NeverRejected,
       ConnectionsBalanced
  <2>3. conns' \in [Exporters -> Nat] /\ leased' \in [Exporters -> BOOLEAN]
    <3>1. CASE Close(e)
      <4>1. conns[e] = 1
        BY <3>1 DEF DriverInv, ConnectionsBalanced
      <4>2. conns' = [conns EXCEPT ![e] = 0] /\ leased' = leased
        BY <3>1, <4>1 DEF Connections
      <4> QED
        BY <4>2 DEF DriverInv, TypeOK
    <3>2. CASE Crash(e)
      BY <3>2 DEF DriverInv, TypeOK
    <3> QED
      BY <3>1, <3>2
  <2>4. rejected' \in BOOLEAN /\ faults' \in 0..MaxFaults /\ starts' = starts
    BY DEF Goto, Connections, serverVars, DriverInv, TypeOK, NeverRejected,
       ConnectionsBalanced
  <2>5. known' \in [Exporters -> SUBSET Keys] /\ UNCHANGED <<batch, todo, key>>
    BY DEF Goto, Connections, serverVars, DriverInv, TypeOK, NeverRejected,
       ConnectionsBalanced
  <2> QED
    BY <2>1, <2>2, <2>3, <2>4, <2>5 DEF DriverInv, TypeOK
<1>3. ServerGrows /\ ColumnsOfKeys'
  BY DEF serverVars, ServerGrows, DriverInv, ColumnsOfKeys, ColumnOf
<1>4. pc'[e] = "down" /\ known'[e] = {}
  BY DEF Goto, DriverInv, TypeOK
<1>5. Built(e)'
  BY <1>4 DEF Built
<1> QED
  BY <1>1, <1>2a, <1>2b, <1>3, <1>5, OnlyTheMover

-----------------------------------------------------------------------------
(* A flush.                                                                *)

LEMMA FlushInv == ASSUME DriverInv, NEW e \in Exporters, Flush(e) PROVE DriverInv'
<1> USE DEF Flush, AfterEnsuring
<1>1. OthersStay(e)
  BY DEF Goto, linkVars, OthersStay, DriverInv, TypeOK
<1>2. TypeOK' /\ NeverRejected' /\ BalancedAt(e)'
  BY BatchesAssumption DEF Goto, linkVars, serverVars, DriverInv, TypeOK, NeverRejected,
     ConnectionsBalanced, BalancedAt
<1>3. ServerGrows /\ ColumnsOfKeys' /\ Searchable' = Searchable /\ DatabaseReady' = DatabaseReady
  BY DEF serverVars, ServerGrows, DriverInv, ColumnsOfKeys, ColumnOf, Searchable, DatabaseReady
<1>4. PICK S \in Batches :
        /\ batch'[e] = S /\ todo'[e] = S \ known[e]
        /\ pc'[e] = (IF todo'[e] = {} THEN "prepare" ELSE "column")
  BY DEF Goto, DriverInv, TypeOK
<1>5. batch'[e] \ todo'[e] \subseteq known[e] /\ known[e] \subseteq Searchable
  BY <1>4 DEF DriverInv, Built
<1>6. Built(e)'
  BY <1>3, <1>4, <1>5 DEF Built, DriverInv, serverVars
<1> QED
  BY <1>1, <1>2, <1>3, <1>6, OnlyTheMover

LEMMA AddOneColumnInv ==
  ASSUME DriverInv, NEW e \in Exporters, AddOneColumn(e) PROVE DriverInv'
<1>1. PICK k \in todo[e] :
        /\ \/ table /\ Succeeds(e, AddColumn(k), "index")
           \/ Fails(e, table, AddColumn(k), "ready")
        /\ key' = [key EXCEPT ![e] = k]
  BY DEF AddOneColumn
<1>2. k \in Keys /\ table /\ DatabaseReady
  BY DEF DriverInv, TypeOK, Built, AddOneColumn
<1> USE DEF AddOneColumn, Succeeds, Fails
<1>3. OthersStay(e)
  BY <1>1 DEF Goto, linkVars, OthersStay, DriverInv, TypeOK
<1>4. AddColumn(k) \/ UNCHANGED serverVars
  BY <1>1
<1>5. columns' \in {columns, columns \cup {ColumnOf(k)}} /\ UNCHANGED <<database, table, indexes, stored>>
  BY <1>4 DEF AddColumn, serverVars, ColumnOf
<1>6. TypeOK' /\ NeverRejected' /\ BalancedAt(e)'
  BY <1>1, <1>2, <1>5, BoundsAssumption DEF Goto, linkVars, Fault, ColumnOf, Names,
     DriverInv, TypeOK, NeverRejected, ConnectionsBalanced, BalancedAt
<1>7. ServerGrows /\ ColumnsOfKeys' /\ DatabaseReady'
  BY <1>2, <1>5 DEF ServerGrows, DriverInv, ColumnsOfKeys, ColumnOf, DatabaseReady
<1>8. AddColumn(k) => HasColumn(attrColumn[k])'
  <2>1. ASSUME HasColumn(attrColumn[k]), columns' = columns PROVE HasColumn(attrColumn[k])'
    BY <2>1 DEF HasColumn
  <2>2. ASSUME ColumnOf(k) \in columns' PROVE HasColumn(attrColumn[k])'
    BY <2>2 DEF HasColumn, ColumnOf
  <2> QED
    BY <2>1, <2>2 DEF AddColumn, ColumnOf
<1>9. (pc'[e] = "index" /\ AddColumn(k)) \/ pc'[e] = "ready"
  BY <1>1 DEF Goto, DriverInv, TypeOK
<1>10. known'[e] = known[e] /\ batch'[e] = batch[e] /\ todo'[e] = todo[e] /\ key'[e] = k
  BY <1>1 DEF DriverInv, TypeOK
<1>11. Built(e)'
  BY <1>1, <1>2, <1>5, <1>7, <1>8, <1>9, <1>10, SearchableGrows DEF Built, DriverInv
<1> QED
  BY <1>3, <1>6, <1>7, <1>11, OnlyTheMover

LEMMA AddOneIndexInv == ASSUME DriverInv, NEW e \in Exporters, AddOneIndex(e) PROVE DriverInv'
<1> DEFINE k == key[e]
           left == todo[e] \ {k}
<1>1. k \in todo[e] /\ k \in Keys /\ HasColumn(attrColumn[k])
  BY DEF DriverInv, TypeOK, Built, AddOneIndex
<1>2. DatabaseReady /\ table /\ batch[e] \ todo[e] \subseteq Searchable /\ known[e] \subseteq Searchable
  BY DEF DriverInv, Built, AddOneIndex
<1>3. \/ /\ AddIndex(k) /\ Goto(e, AfterEnsuring(left)) /\ UNCHANGED <<rejected, faults>>
         /\ todo' = [todo EXCEPT ![e] = left]
         /\ known' = [known EXCEPT ![e] = IF left = {} THEN @ \cup batch[e] ELSE @]
      \/ /\ AddIndex(k) \/ UNCHANGED serverVars
         /\ Fault /\ Goto(e, "ready") /\ UNCHANGED <<rejected, todo, known>>
  BY <1>1 DEF AddOneIndex, Succeeds, Fails
<1>4. UNCHANGED <<batch, key, conns, leased, starts>> /\ pc[e] = "index"
  BY DEF AddOneIndex, linkVars
<1>5. indexes' \in {indexes, indexes \cup {attrColumn[k]}} /\ UNCHANGED <<database, table, columns, stored>>
  BY <1>3 DEF AddIndex, serverVars
<1> HIDE DEF k, left
<1>6. OthersStay(e)
  BY <1>3, <1>4 DEF Goto, OthersStay, DriverInv, TypeOK
<1>7. NeverRejected' /\ BalancedAt(e)'
  BY <1>3, <1>4 DEF Goto, AfterEnsuring, DriverInv, TypeOK, NeverRejected, ConnectionsBalanced, BalancedAt
<1>8. TypeOK'
  <2>1. left \subseteq Keys /\ batch[e] \subseteq Keys
    BY DEF left, DriverInv, TypeOK
  <2>2. indexes' \subseteq Names
    BY <1>1, <1>5 DEF DriverInv, TypeOK, Names
  <2>3. pc' \in [Exporters -> {"down"} \cup Bootstrap \cup Connected]
    BY <1>3 DEF Goto, AfterEnsuring, DriverInv, TypeOK
  <2>4. todo' \in [Exporters -> SUBSET Keys] /\ known' \in [Exporters -> SUBSET Keys]
    BY <1>3, <2>1 DEF DriverInv, TypeOK
  <2>5. rejected' = rejected /\ faults' \in 0..MaxFaults
    BY <1>3, BoundsAssumption DEF Fault, DriverInv, TypeOK
  <2> QED
    BY <1>4, <1>5, <2>2, <2>3, <2>4, <2>5 DEF DriverInv, TypeOK
<1>9. ServerGrows /\ ColumnsOfKeys' /\ DatabaseReady'
  BY <1>2, <1>5 DEF ServerGrows, DriverInv, ColumnsOfKeys, ColumnOf, DatabaseReady
<1>10. AddIndex(k) => k \in Searchable'
  <2>1. PICK col \in columns : col.name = attrColumn[k]
    BY <1>1 DEF HasColumn
  <2>2. OwnName(k) => col.key = k
    BY <1>1, <2>1, ColumnsFilledByTheirKeys DEF DriverInv
  <2> QED
    BY <1>1, <1>5, <2>1, <2>2 DEF AddIndex, Searchable, OwnName
<1>11. Searchable \subseteq Searchable'
  BY <1>9, SearchableGrows
<1>12. ASSUME AddIndex(k), Goto(e, AfterEnsuring(left)), todo' = [todo EXCEPT ![e] = left],
              known' = [known EXCEPT ![e] = IF left = {} THEN @ \cup batch[e] ELSE @]
       PROVE  Built(e)'
  <2>1. batch'[e] = batch[e] /\ todo'[e] = left /\ pc'[e] = AfterEnsuring(left)
    BY <1>4, <1>12 DEF Goto, DriverInv, TypeOK
  <2>2. known'[e] = IF left = {} THEN known[e] \cup batch[e] ELSE known[e]
    BY <1>12 DEF DriverInv, TypeOK
  <2>3. batch[e] \ left \subseteq Searchable'
    BY <1>2, <1>10, <1>11, <1>12 DEF left
  <2>4. known'[e] \subseteq Searchable'
    BY <1>2, <1>11, <2>2, <2>3
  <2>5. table'
    BY <1>2, <1>5
  <2> QED
    BY <1>9, <2>1, <2>3, <2>4, <2>5 DEF Built, AfterEnsuring
<1>13. ASSUME Goto(e, "ready"), UNCHANGED <<todo, known>> PROVE Built(e)'
  BY <1>2, <1>5, <1>9, <1>11, <1>13 DEF Built, Goto, DriverInv, TypeOK
<1> QED
  BY <1>3, <1>6, <1>7, <1>8, <1>9, <1>12, <1>13, OnlyTheMover

LEMMA PrepareBatchInv == ASSUME DriverInv, NEW e \in Exporters, PrepareBatch(e) PROVE DriverInv'
<1> USE DEF PrepareBatch, Succeeds, Fails, Lease
<1>1. table
  BY DEF DriverInv, Built
<1>2. OthersStay(e)
  BY DEF Goto, linkVars, flushVars, OthersStay, DriverInv, TypeOK
<1>3. NeverRejected' /\ BalancedAt(e)'
  BY <1>1 DEF Goto, linkVars, DriverInv, TypeOK, NeverRejected, ConnectionsBalanced, BalancedAt
<1>4. UNCHANGED serverVars /\ UNCHANGED flushVars /\ pc'[e] \in {"append", "ready"}
  BY <1>1 DEF Goto, DriverInv, TypeOK
<1>5. TypeOK'
  <2>1. pc' \in [Exporters -> {"down"} \cup Bootstrap \cup Connected] /\ leased' \in [Exporters -> BOOLEAN]
    BY <1>1 DEF Goto, linkVars, DriverInv, TypeOK
  <2>2. rejected' \in BOOLEAN /\ faults' \in 0..MaxFaults /\ UNCHANGED <<conns, starts>>
    BY <1>1, BoundsAssumption DEF Fault, linkVars, DriverInv, TypeOK
  <2> QED
    BY <1>4, <2>1, <2>2 DEF serverVars, flushVars, DriverInv, TypeOK
<1> QED
  BY <1>2, <1>3, <1>4, <1>5, QuietStep

LEMMA AppendRowsInv == ASSUME DriverInv, NEW e \in Exporters, AppendRows(e) PROVE DriverInv'
<1> USE DEF AppendRows, Succeeds, Fails, Lease
<1>1. OthersStay(e)
  BY DEF Goto, linkVars, flushVars, OthersStay, DriverInv, TypeOK
<1>2. NeverRejected' /\ BalancedAt(e)'
  BY DEF Goto, linkVars, DriverInv, TypeOK, NeverRejected, ConnectionsBalanced, BalancedAt
<1>3. UNCHANGED serverVars /\ UNCHANGED flushVars /\ pc'[e] \in {"send", "ready"}
  BY DEF Goto, DriverInv, TypeOK
<1>4. TypeOK'
  <2>1. pc' \in [Exporters -> {"down"} \cup Bootstrap \cup Connected] /\ leased' \in [Exporters -> BOOLEAN]
    BY DEF Goto, linkVars, DriverInv, TypeOK
  <2>2. rejected' \in BOOLEAN /\ faults' \in 0..MaxFaults /\ UNCHANGED <<conns, starts>>
    BY BoundsAssumption DEF Fault, linkVars, DriverInv, TypeOK
  <2> QED
    BY <1>3, <2>1, <2>2 DEF serverVars, flushVars, DriverInv, TypeOK
<1> QED
  BY <1>1, <1>2, <1>3, <1>4, QuietStep

LEMMA SendInv == ASSUME DriverInv, NEW e \in Exporters, Send(e) PROVE DriverInv'
<1> USE DEF Send, Succeeds, Fails, Lease, Insert
<1>1. OthersStay(e)
  BY DEF Goto, flushVars, OthersStay, DriverInv, TypeOK
<1>2. stored' \in {stored, stored \cup {batch[e]}} /\ UNCHANGED <<database, table, columns, indexes>>
  BY DEF serverVars
<1>3. NeverRejected' /\ BalancedAt(e)'
  BY DEF Goto, DriverInv, TypeOK, NeverRejected, ConnectionsBalanced, BalancedAt
<1>4. TypeOK'
  <2>1. stored' \subseteq SUBSET Keys
    BY <1>2 DEF DriverInv, TypeOK
  <2>2. pc' \in [Exporters -> {"down"} \cup Bootstrap \cup Connected] /\ leased' \in [Exporters -> BOOLEAN]
    BY DEF Goto, DriverInv, TypeOK
  <2>3. rejected' \in BOOLEAN /\ faults' \in 0..MaxFaults
    BY BoundsAssumption DEF Fault, DriverInv, TypeOK
  <2> QED
    BY <1>2, <2>1, <2>2, <2>3 DEF flushVars, DriverInv, TypeOK
<1>5. ServerGrows /\ ColumnsOfKeys' /\ Searchable' = Searchable /\ DatabaseReady' = DatabaseReady
  BY <1>2 DEF ServerGrows, DriverInv, ColumnsOfKeys, ColumnOf, Searchable, DatabaseReady
<1>6. pc'[e] = "ready" /\ known'[e] = known[e]
  BY DEF Goto, flushVars, DriverInv, TypeOK
<1>7. Built(e)'
  BY <1>2, <1>5, <1>6 DEF Built, DriverInv
<1> QED
  BY <1>1, <1>3, <1>4, <1>5, <1>7, OnlyTheMover

-----------------------------------------------------------------------------
(* The theorems.                                                           *)

LEMMA DriverInit == ASSUME Init PROVE DriverInv
<1>1. TypeOK
  <2>1. /\ known \in [Exporters -> SUBSET Keys] /\ batch \in [Exporters -> SUBSET Keys]
        /\ todo \in [Exporters -> SUBSET Keys]
    BY DEF Init
  <2>2. /\ pc \in [Exporters -> {"down"} \cup Bootstrap \cup Connected]
        /\ conns \in [Exporters -> Nat] /\ leased \in [Exporters -> BOOLEAN]
        /\ key \in [Exporters -> Keys \cup {NoKey}]
    BY DEF Init
  <2>3. database \in BOOLEAN /\ table \in BOOLEAN /\ columns = {} /\ indexes = {} /\ stored = {}
    BY DEF Init
  <2>4. rejected \in BOOLEAN /\ faults \in 0..MaxFaults /\ starts \in 0..MaxStarts
    <3>1. rejected = FALSE /\ faults = 0 /\ starts = 0
      BY DEF Init
    <3>2. 0 \in 0..MaxFaults /\ 0 \in 0..MaxStarts
      BY BoundsAssumption
    <3> QED
      BY <3>1, <3>2
  <2> QED
    BY <2>1, <2>2, <2>3, <2>4 DEF TypeOK
<1>2. ConnectionsBalanced /\ NeverRejected /\ ColumnsOfKeys
  BY DEF Init, ConnectionsBalanced, NeverRejected, ColumnsOfKeys
<1>3. \A e \in Exporters : Built(e)
  BY DEF Init, Built
<1> QED
  BY <1>1, <1>2, <1>3 DEF DriverInv

LEMMA DriverStep == ASSUME DriverInv, [Next]_vars PROVE DriverInv'
<1>1. CASE UNCHANGED vars
  BY <1>1 DEF vars, serverVars, flushVars, linkVars, DriverInv, TypeOK, ConnectionsBalanced,
     NeverRejected, ColumnsOfKeys, Built, Searchable, HasColumn, ColumnOf, DatabaseReady
<1>2. ASSUME NEW e \in Exporters, Step(e) PROVE DriverInv'
  BY <1>2, OpenInv, VerifyInv, EnsureOpenInv, EnsureCreateInv, ReopenInv, EnsureDatabaseInv,
     EnsureTableInv, LeavingInv, FlushInv, AddOneColumnInv, AddOneIndexInv, PrepareBatchInv,
     AppendRowsInv, SendInv DEF Step
<1> QED
  BY <1>1, <1>2 DEF Next, Terminated

\* The invariant holds throughout.
THEOREM DriverCorrect == Spec => []DriverInv
  BY DriverInit, DriverStep, PTL DEF Spec

\* An exporter never counts a key as ensured whose column or index is missing,
\* or filled from another key though the name is its own, whichever statements
\* fail, and next to any number of other exporters.
THEOREM KnownMeansSearchable == Spec => []KnownKeysSearchable
<1>1. DriverInv => KnownKeysSearchable
  BY DEF DriverInv, Built, KnownKeysSearchable
<1> QED
  BY <1>1, DriverCorrect, PTL

\* No statement of bootstrap, Start or a flush refers to what does not exist.
THEOREM StatementsInOrder == Spec => []NeverRejected
<1>1. DriverInv => NeverRejected
  BY DEF DriverInv
<1> QED
  BY <1>1, DriverCorrect, PTL

\* No path through bootstrap or a flush leaks a connection or a batch.
THEOREM NothingLeaks == Spec => [](TypeOK /\ ConnectionsBalanced)
<1>1. DriverInv => TypeOK /\ ConnectionsBalanced
  BY DEF DriverInv
<1> QED
  BY <1>1, DriverCorrect, PTL

-----------------------------------------------------------------------------
(* The driver implements a table with a growing schema.                    *)

\* A column or an index makes searchable the keys that have its name.
LEMMA KeysMaterialize ==
  ASSUME NEW k \in Keys, AddColumn(k) \/ AddIndex(k)
  PROVE  Store!Next
<1>1. Searchable \subseteq Searchable' /\ stored' = stored
  BY DEF AddColumn, AddIndex, Searchable, OwnName
<1>2. Searchable' \in SUBSET Keys /\ Searchable' = Searchable \cup Searchable'
  BY <1>1 DEF Searchable
<1> QED
  BY <1>1, <1>2 DEF Store!Next, Store!Materialize

\* Rows are stored when their keys are searchable.
LEMMA StoredWhenSearchable ==
  ASSUME NEW S \in SUBSET Searchable, Insert(S) PROVE Store!Next
<1>1. UNCHANGED Searchable
  BY DEF Insert, Searchable
<1> QED
  BY <1>1 DEF Insert, Store!Next, Store!Store

\* What does not touch the columns and the rows is a stutter of the store.
LEMMA StoreStutters ==
  ASSUME UNCHANGED serverVars \/ CreateDatabase \/ CreateTable
  PROVE  UNCHANGED <<Searchable, stored>>
  BY DEF serverVars, CreateDatabase, CreateTable, Searchable

LEMMA StepIsStoreStep ==
  ASSUME DriverInv, [Next]_vars
  PROVE  [Store!Next]_<<Searchable, stored>>
<1>1. CASE UNCHANGED vars
  BY <1>1, StoreStutters DEF vars
<1>2. ASSUME NEW e \in Exporters, Step(e) PROVE [Store!Next]_<<Searchable, stored>>
  <2>1. CASE Open(e) \/ Verify(e) \/ EnsureOpen(e) \/ Reopen(e) \/ Close(e) \/ Flush(e) \/ Crash(e)
    BY <2>1, StoreStutters DEF Open, Verify, EnsureOpen, Reopen, Close, Flush, Crash
  <2>2. CASE EnsureCreate(e) \/ EnsureDatabase(e) \/ EnsureTable(e)
    BY <2>2, StoreStutters DEF EnsureCreate, EnsureDatabase, EnsureTable, Succeeds, Fails
  <2>3. CASE PrepareBatch(e) \/ AppendRows(e)
    BY <2>3, StoreStutters DEF PrepareBatch, AppendRows, Succeeds, Fails
  <2>4. CASE AddOneColumn(e)
    <3>1. PICK k \in todo[e] : AddColumn(k) \/ UNCHANGED serverVars
      BY <2>4 DEF AddOneColumn, Succeeds, Fails
    <3>2. k \in Keys
      BY DEF DriverInv, TypeOK
    <3> QED
      BY <3>1, <3>2, KeysMaterialize, StoreStutters
  <2>5. CASE AddOneIndex(e)
    <3>1. AddIndex(key[e]) \/ UNCHANGED serverVars
      BY <2>5 DEF AddOneIndex, Succeeds, Fails
    <3>2. key[e] \in Keys
      BY <2>5 DEF DriverInv, TypeOK, Built, AddOneIndex
    <3> QED
      BY <3>1, <3>2, KeysMaterialize, StoreStutters
  <2>6. CASE Send(e)
    <3>1. Insert(batch[e]) \/ UNCHANGED serverVars
      BY <2>6 DEF Send, Succeeds, Fails
    <3>2. batch[e] \in SUBSET Searchable
      BY <2>6 DEF DriverInv, Built, Send
    <3> QED
      BY <3>1, <3>2, StoredWhenSearchable, StoreStutters
  <2> QED
    BY <1>2, <2>1, <2>2, <2>3, <2>4, <2>5, <2>6 DEF Step
<1> QED
  BY <1>1, <1>2 DEF Next, Terminated

\* What can be searched by only grows, and rows are stored only when each of
\* their keys can be searched by, for any exporters, keys and faults.
THEOREM DriverImplementsStore == Spec => ImplementsSchemaStore
<1>1. Init => Store!Init
  BY DEF Init, Store!Init, Searchable
<1> QED
  BY <1>1, DriverCorrect, StepIsStoreStep, PTL DEF Spec, Store!Spec, ImplementsSchemaStore
=============================================================================
