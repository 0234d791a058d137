---------------------------- MODULE UplinkSpool ----------------------------
(***************************************************************************)
(* src/cloud/uplinkspool.{h,cpp}: the durable FIFO of messages the uplink  *)
(* could not publish.  A SQLite table keyed by an AUTOINCREMENT id, with a *)
(* row counter cached in memory, a row cap enforced by evicting the oldest *)
(* rows, and an open() whose failure is latched for the whole process.     *)
(*                                                                         *)
(* Every statement the class executes may fail; SqlFaults names the ones   *)
(* that do in a given instance.  Payloads and SQL text are abstracted: a   *)
(* message is its topic (car and kind), session and sequence number.       *)
(***************************************************************************)
EXTENDS Integers, FiniteSets

CONSTANTS
    Cars,       \* device ids the dash can be provisioned for
    NoCar,      \* the empty device id
    MaxRows,    \* kMaxRows, 500000 in the code
    BatchSize,  \* kBatchSize, 200 in the code
    SqlFaults   \* the statements that may fail

SqlStatements ==
    {"open", "count", "append", "evict", "peek", "release", "clear", "power"}

ASSUME SpoolAssumption ==
    /\ NoCar \notin Cars
    /\ MaxRows \in Nat \ {0}
    /\ BatchSize \in Nat \ {0}
    /\ SqlFaults \subseteq SqlStatements

VARIABLES
    rows,      \* the table `frames`, on the SD card
    nextId,    \* sqlite_sequence: the next AUTOINCREMENT id, on the SD card
    synced,    \* <<rows, nextId>> a power cut may fall back to
    db,        \* "closed", "open", or "failed" (latched)
    rowCount   \* m_rowCount

spoolVars == <<rows, nextId, synced, db, rowCount>>

----------------------------------------------------------------------------
Devices == Cars \cup {NoCar}

Kinds == {"start", "frame", "stop"}

Messages == [car : Devices, kind : Kinds, sid : Nat, seq : Nat]

RowSet == [id : Nat, car : Devices, kind : Kinds, sid : Nat, seq : Nat]

Row(id, m) ==
    [id |-> id, car |-> m.car, kind |-> m.kind, sid |-> m.sid, seq |-> m.seq]

Msg(r) == [car |-> r.car, kind |-> r.kind, sid |-> r.sid, seq |-> r.seq]

\* Telemetry frames have one topic per car, session events another.
SameTopic(p, q) ==
    /\ p.car = q.car
    /\ (p.kind = "frame") = (q.kind = "frame")

\* The n rows with the smallest ids: ORDER BY id ASC LIMIT n.
Oldest(n, S) == {r \in S : Cardinality({q \in S : q.id < r.id}) < n}

\* MUTANT: the run is cut at a change of session only.
PeekRun_SidOnly(S) ==
    LET top == Oldest(BatchSize, S)
    IN  {r \in top : \A p, q \in top : p.id <= r.id /\ q.id <= r.id => p.sid = q.sid}

\* The leading run of the table that shares a topic and a session.
PeekRun(S) ==
    LET top == Oldest(BatchSize, S)
    IN  {r \in top : \A p, q \in top :
            p.id <= r.id /\ q.id <= r.id => SameTopic(p, q) /\ p.sid = q.sid}

\* MUTANT: the id of the newest row is handed out again.
IdAfter_Reused(id) == id

\* AUTOINCREMENT.
IdAfter(id) == id + 1

\* What evictOverflow() deletes when the counter says `count`.
Excess(count) == count - MaxRows

\* count(): the counter, or 0 while the database is not open.
SpoolCount == IF db = "open" THEN rowCount ELSE 0

----------------------------------------------------------------------------
\* open(): lazy, idempotent, and latched once it has failed.  A failed
\* COUNT(*) seeds the counter with 0.
OpenResults ==
    IF db # "closed"
    THEN {[db |-> db, count |-> rowCount]}
    ELSE {[db |-> "open", count |-> Cardinality(rows)]}
         \cup {[db |-> "open", count |-> 0] : f \in SqlFaults \cap {"count"}}
         \cup {[db |-> "failed", count |-> 0] : f \in SqlFaults \cap {"open"}}

\* A commit replaces the table; under synchronous=NORMAL the state before it
\* is what a power cut may bring back.
Commit(before, after) ==
    /\ rows' = after[1] /\ nextId' = after[2]
    /\ synced' = IF "power" \in SqlFaults THEN before ELSE after

Keep == UNCHANGED <<rows, nextId, synced>>

\* MUTANT: the database is left for the first append to open.
Open_Later == UNCHANGED <<db, rowCount>> /\ Keep

Open ==
    \E o \in OpenResults : db' = o.db /\ rowCount' = o.count /\ Keep

\* append(): one transaction, rolled back when any statement of it fails,
\* then evictOverflow(), whose own DELETE may fail.
AppendRow(m) ==
    \E o \in OpenResults :
        /\ db' = o.db
        /\ \/ /\ o.db = "failed" \/ "append" \in SqlFaults
              /\ rowCount' = o.count
              /\ Keep
           \/ /\ o.db = "open"
              /\ LET grown   == rows \cup {Row(nextId, m)}
                     evicted == Oldest(Excess(o.count + 1), grown)
                     after   == IdAfter(nextId)
                 IN  \/ /\ Commit(<<IF evicted = {} THEN rows ELSE grown,
                                    IF evicted = {} THEN nextId ELSE after>>,
                                  <<grown \ evicted, after>>)
                        /\ rowCount' = o.count + 1 - Cardinality(evicted)
                     \/ /\ "evict" \in SqlFaults /\ evicted # {}
                        /\ Commit(<<rows, nextId>>, <<grown, after>>)
                        /\ rowCount' = o.count + 1

\* MUTANT: the counter keeps counting the acknowledged rows.
ReleaseThrough_KeepsCount(lastId) ==
    \E o \in OpenResults :
        /\ db' = o.db /\ rowCount' = o.count
        /\ o.db = "open"
        /\ Commit(<<rows, nextId>>, <<{r \in rows : r.id > lastId}, nextId>>)

\* releaseThrough(): deletes the acknowledged prefix.
ReleaseThrough(lastId) ==
    \E o \in OpenResults :
        /\ db' = o.db
        /\ \/ /\ o.db = "failed" \/ "release" \in SqlFaults
              /\ rowCount' = o.count
              /\ Keep
           \/ /\ o.db = "open"
              /\ LET acked == {r \in rows : r.id <= lastId}
                 IN  /\ Commit(<<rows, nextId>>, <<rows \ acked, nextId>>)
                     /\ rowCount' = o.count - Cardinality(acked)

\* clear(): drops the backlog and zeroes the counter.
Clear ==
    \E o \in OpenResults :
        /\ db' = o.db
        /\ \/ /\ o.db = "failed" \/ "clear" \in SqlFaults
              /\ rowCount' = o.count
              /\ Keep
           \/ /\ o.db = "open"
              /\ Commit(<<rows, nextId>>, <<{}, nextId>>)
              /\ rowCount' = 0

\* The process ends: the connection and the counter go, the table stays.
CloseCleanly ==
    /\ db' = "closed" /\ rowCount' = 0
    /\ synced' = <<rows, nextId>>
    /\ UNCHANGED <<rows, nextId>>

\* The power is cut: the last commit may be undone as well.
LosePower ==
    /\ db' = "closed" /\ rowCount' = 0
    /\ \E disk \in {<<rows, nextId>>, synced} :
          rows' = disk[1] /\ nextId' = disk[2] /\ synced' = disk

----------------------------------------------------------------------------
SpoolInit ==
    /\ rows = {} /\ nextId = 1 /\ synced = <<{}, 1>>
    /\ db = "closed" /\ rowCount = 0

----------------------------------------------------------------------------
\* The type of the table and its bookkeeping; no id at or above the next one
\* AUTOINCREMENT hands out is in use, on disk or in what a power cut restores.
SpoolTypeOK ==
    /\ rows \subseteq RowSet
    /\ IsFiniteSet(rows)
    /\ nextId \in Nat
    /\ \A r \in rows : r.id < nextId
    /\ db \in {"closed", "open", "failed"}
    /\ rowCount \in Int
    /\ synced \in (SUBSET RowSet) \X Nat
    /\ IsFiniteSet(synced[1])
    /\ \A r \in synced[1] : r.id < synced[2]

\* An id names one row: releasing through an id can never take a row that was
\* appended after it (uplinkspool.cpp, releaseThrough()).
OneRowPerId(S) == \A p, q \in S : p.id = q.id => p = q

IdsUnique == OneRowPerId(rows)

\* The cached counter is the number of rows, whatever statements failed,
\* unless the COUNT(*) that seeds it did (uplinkspool.h, count(): "Every
\* mutation below adjusts the counter instead").
CountExact ==
    ("count" \notin SqlFaults /\ db = "open") => rowCount = Cardinality(rows)

\* What left S on the way to T was older than all that stays.
GoneFromFront(S, T) == \A p \in S \ T : \A q \in T : p.id < q.id

\* What a power cut falls back to is the table with its newest row missing, or
\* with rows that had left its front still there.
UndoIsOneCommit ==
    \/ /\ synced[2] = nextId
       /\ rows \subseteq synced[1]
       /\ GoneFromFront(synced[1], rows)
    \/ /\ synced[2] + 1 = nextId
       /\ \E new \in rows : new.id = synced[2] /\ synced[1] = rows \ {new}

\* The inductive invariant of every user of the spool.
SpoolInv ==
    /\ SpoolTypeOK
    /\ IdsUnique
    /\ OneRowPerId(synced[1])
    /\ CountExact
    /\ UndoIsOneCommit

\* Rows leave the table from its front only: by acknowledgement, eviction or
\* clear(), never from the middle.  Losing power is the one step that may take
\* the newest row, and it gives the id back with it.
LeaveFromTheFront ==
    [][nextId' >= nextId => GoneFromFront(rows, rows')]_spoolVars

\* An append evicts exactly the overflow: the table never shrinks below the
\* cap to make room for one row (evictOverflow() sizes the DELETE off the
\* cached counter).
EvictsOnlyOverflow ==
    [][nextId' > nextId /\ "count" \notin SqlFaults =>
         \/ Cardinality(rows') >= MaxRows
         \/ Cardinality(rows') = Cardinality(rows) + 1]_spoolVars
=============================================================================
