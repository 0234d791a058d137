------------------------ MODULE SpoolWorkload_proof ------------------------
(***************************************************************************)
(* What every operation of UplinkSpool preserves, whoever calls it and     *)
(* whichever of its SQL statements fail; and so the spool keeps its        *)
(* promises under every sequence of calls, whatever the cap, the batch     *)
(* size and the messages.                                                  *)
(***************************************************************************)
EXTENDS SpoolWorkload, FiniteSetTheorems, FunctionTheorems, TLAPS

USE SpoolAssumption DEF SpoolAssumption

----------------------------------------------------------------------------
(* The order of the table. *)

Older(S, r) == {q \in S : q.id < r.id}

\* ORDER BY id ASC LIMIT n takes a front of the table.
LEMMA OldestIsFront ==
    ASSUME NEW S, S \subseteq RowSet, IsFiniteSet(S), NEW n \in Int
    PROVE  /\ Oldest(n, S) \subseteq S
           /\ \A p \in Oldest(n, S) : \A q \in S \ Oldest(n, S) : p.id < q.id
<1>1. Oldest(n, S) \subseteq S
  BY DEF Oldest
<1>2. ASSUME NEW p \in Oldest(n, S), NEW q \in S \ Oldest(n, S)
      PROVE  p.id < q.id
  <2>1. /\ p \in S /\ q \in S /\ p.id \in Nat /\ q.id \in Nat
        /\ Cardinality(Older(S, p)) < n /\ ~(Cardinality(Older(S, q)) < n)
    BY DEF Oldest, Older, RowSet
  <2>2. SUFFICES ASSUME q.id <= p.id PROVE FALSE
    BY <2>1
  <2>3. Older(S, q) \subseteq Older(S, p)
    BY <2>1, <2>2 DEF Older, RowSet
  <2>4. IsFiniteSet(Older(S, p)) /\ IsFiniteSet(Older(S, q))
    BY FS_Subset DEF Older
  <2>5. Cardinality(Older(S, q)) <= Cardinality(Older(S, p))
    BY <2>3, <2>4, FS_Subset
  <2>6. Cardinality(Older(S, q)) \in Nat /\ Cardinality(Older(S, p)) \in Nat
    BY <2>4, FS_CardinalityType
  <2>. QED BY <2>1, <2>5, <2>6
<1>. QED BY <1>1, <1>2

\* LIMIT n takes at most n rows.
LEMMA OldestIsLimited ==
    ASSUME NEW S, S \subseteq RowSet, IsFiniteSet(S), OneRowPerId(S), NEW n \in Int
    PROVE  /\ n <= 0 => Oldest(n, S) = {}
           /\ n > 0 => Cardinality(Oldest(n, S)) <= n
<1>1. \A r \in S : IsFiniteSet(Older(S, r)) /\ Cardinality(Older(S, r)) \in Nat
  BY FS_Subset, FS_CardinalityType DEF Older
<1>2. n <= 0 => Oldest(n, S) = {}
  BY <1>1 DEF Oldest, Older
<1>3. ASSUME n > 0 PROVE Cardinality(Oldest(n, S)) <= n
  <2> DEFINE rank == [r \in Oldest(n, S) |-> Cardinality(Older(S, r))]
  <2>1. rank \in [Oldest(n, S) -> 0..(n-1)]
    BY <1>1, <1>3 DEF Oldest, Older
  <2>2. ASSUME NEW p \in Oldest(n, S), NEW q \in Oldest(n, S), p.id < q.id
        PROVE  rank[p] < rank[q]
    <3>1. p \in S /\ q \in S /\ p.id \in Nat /\ q.id \in Nat
      BY DEF Oldest, RowSet
    <3>2. Older(S, p) \subseteq Older(S, q)
      BY <2>2, <3>1 DEF Older, RowSet
    <3>3. p \in Older(S, q) /\ p \notin Older(S, p)
      BY <2>2, <3>1 DEF Older
    <3>4. /\ Cardinality(Older(S, p)) <= Cardinality(Older(S, q))
          /\ Cardinality(Older(S, p)) # Cardinality(Older(S, q))
      BY <1>1, <3>1, <3>2, <3>3, FS_Subset
    <3>. QED BY <1>1, <3>1, <3>4
  <2>3. \A p, q \in Oldest(n, S) : rank[p] = rank[q] => p = q
    <3>1. \A p, q \in Oldest(n, S) :
              p.id \in Nat /\ q.id \in Nat /\ rank[p] \in Nat /\ rank[q] \in Nat
              /\ (p.id = q.id => p = q)
      BY <1>1 DEF Oldest, RowSet, OneRowPerId
    <3>. QED BY <2>2, <3>1
  <2>4. rank \in Injection(Oldest(n, S), 0..(n-1))
    BY <2>1, <2>3 DEF Injection, IsInjective
  <2>5. IsFiniteSet(0..(n-1)) /\ Cardinality(0..(n-1)) = n
    BY <1>3, FS_Interval
  <2>. QED BY <2>4, <2>5, FS_Injection
<1>. QED BY <1>2, <1>3

\* Taking some rows away leaves as many as the counter says.
LEMMA RemoveRows ==
    ASSUME NEW S, IsFiniteSet(S), NEW T, T \subseteq S
    PROVE  /\ IsFiniteSet(S \ T) /\ IsFiniteSet(T)
           /\ Cardinality(S) \in Nat /\ Cardinality(T) \in Nat
           /\ Cardinality(S \ T) = Cardinality(S) - Cardinality(T)
<1>1. S \cap T = T
  OBVIOUS
<1>. QED BY <1>1, FS_Difference, FS_Subset, FS_CardinalityType

----------------------------------------------------------------------------
(* The operations. *)

\* Whatever open() answers is well typed, and an open database has the right
\* count unless the COUNT(*) failed.
LEMMA OpenCounts ==
    ASSUME SpoolInv, NEW o \in OpenResults
    PROVE  /\ o.db \in {"closed", "open", "failed"}
           /\ o.count \in Int
           /\ "count" \notin SqlFaults /\ o.db = "open" =>
                 o.count = Cardinality(rows)
BY FS_CardinalityType DEF SpoolInv, SpoolTypeOK, CountExact, OpenResults

\* A commit leaves a well-formed table, and one to fall back to.
LEMMA CommitTypes ==
    ASSUME SpoolTypeOK,
           NEW S, S \subseteq RowSet, IsFiniteSet(S), NEW m \in Nat,
           \A r \in S : r.id < m,
           NEW T, T \subseteq RowSet, IsFiniteSet(T), NEW n \in Nat,
           \A r \in T : r.id < n,
           Commit(<<S, m>>, <<T, n>>),
           db' \in {"closed", "open", "failed"}, rowCount' \in Int
    PROVE  SpoolTypeOK'
<1>1. /\ rows' = T /\ nextId' = n
      /\ synced' = <<S, m>> \/ synced' = <<T, n>>
  BY DEF Commit
<1>2. /\ synced' \in (SUBSET RowSet) \X Nat
      /\ IsFiniteSet(synced'[1])
      /\ \A r \in synced'[1] : r.id < synced'[2]
  <2>1. CASE synced' = <<S, m>>
    BY <2>1
  <2>2. CASE synced' = <<T, n>>
    BY <2>2
  <2>. QED BY <1>1, <2>1, <2>2
<1>. QED BY <1>1, <1>2 DEF SpoolTypeOK, RowSet, Devices, Kinds

\* A failed statement leaves the table alone.
LEMMA KeepInv ==
    ASSUME SpoolInv, Keep, NEW o \in OpenResults,
           db' = o.db, rowCount' = o.count
    PROVE  SpoolInv'
BY OpenCounts DEF SpoolInv, SpoolTypeOK, IdsUnique, OneRowPerId, CountExact,
                  UndoIsOneCommit, GoneFromFront, Keep

\* open(), lazy, repeated or failing, preserves the invariant.
THEOREM OpenInv == SpoolInv /\ Open => SpoolInv'
BY KeepInv DEF Open

\* A commit that takes rows from the front.
LEMMA ShrinkInv ==
    ASSUME SpoolInv, NEW o \in OpenResults, o.db = "open", db' = o.db,
           NEW gone, gone \subseteq rows,
           \A p \in gone : \A q \in rows \ gone : p.id < q.id,
           Commit(<<rows, nextId>>, <<rows \ gone, nextId>>),
           rowCount' = o.count - Cardinality(gone)
    PROVE  SpoolInv'
<1>1. /\ IsFiniteSet(rows \ gone) /\ Cardinality(gone) \in Nat
      /\ Cardinality(rows \ gone) = Cardinality(rows) - Cardinality(gone)
  BY RemoveRows DEF SpoolInv, SpoolTypeOK
<1>2. /\ rows' = rows \ gone /\ nextId' = nextId
      /\ synced' = <<rows, nextId>> \/ synced' = <<rows \ gone, nextId>>
  BY DEF Commit
<1>3. SpoolTypeOK'
  <2>1. /\ rows \subseteq RowSet /\ IsFiniteSet(rows) /\ nextId \in Nat
        /\ \A r \in rows : r.id < nextId
        /\ SpoolTypeOK
    BY DEF SpoolInv, SpoolTypeOK
  <2>2. db' \in {"closed", "open", "failed"} /\ rowCount' \in Int
    BY <1>1, OpenCounts
  <2>. QED BY <1>1, <2>1, <2>2, CommitTypes
<1>4. IdsUnique' /\ OneRowPerId(synced[1])'
  BY <1>2 DEF SpoolInv, IdsUnique, OneRowPerId
<1>5. CountExact'
  BY <1>1, <1>2, OpenCounts DEF CountExact
<1>6. UndoIsOneCommit'
  BY <1>2 DEF UndoIsOneCommit, GoneFromFront
<1>. QED BY <1>3, <1>4, <1>5, <1>6 DEF SpoolInv

\* releaseThrough() preserves the invariant, whichever id it is given.
THEOREM ReleaseInv ==
    ASSUME NEW lastId \in Int, SpoolInv, ReleaseThrough(lastId)
    PROVE  SpoolInv'
<1>1. PICK o \in OpenResults :
        /\ db' = o.db
        /\ \/ rowCount' = o.count /\ Keep
           \/ /\ o.db = "open"
              /\ LET acked == {r \in rows : r.id <= lastId}
                 IN  /\ Commit(<<rows, nextId>>, <<rows \ acked, nextId>>)
                     /\ rowCount' = o.count - Cardinality(acked)
  BY DEF ReleaseThrough
<1> DEFINE acked == {r \in rows : r.id <= lastId}
<1>2. \A p \in acked : \A q \in rows \ acked : p.id < q.id
  BY DEF SpoolInv, SpoolTypeOK, RowSet
<1>. QED BY <1>1, <1>2, KeepInv, ShrinkInv

\* clear() preserves the invariant: the counter is zeroed with the table.
THEOREM ClearInv == SpoolInv /\ Clear => SpoolInv'
<1>1. SUFFICES ASSUME SpoolInv, Clear PROVE SpoolInv'
  OBVIOUS
<1>2. PICK o \in OpenResults :
        /\ db' = o.db
        /\ \/ rowCount' = o.count /\ Keep
           \/ /\ Commit(<<rows, nextId>>, <<{}, nextId>>)
              /\ rowCount' = 0
  BY <1>1 DEF Clear
<1>3. CASE rowCount' = o.count /\ Keep
  BY <1>1, <1>2, <1>3, KeepInv
<1>4. CASE Commit(<<rows, nextId>>, <<{}, nextId>>) /\ rowCount' = 0
  <2>1. /\ rows' = {} /\ nextId' = nextId
        /\ synced' = <<rows, nextId>> \/ synced' = <<{}, nextId>>
    BY <1>4 DEF Commit
  <2>2. IsFiniteSet({}) /\ Cardinality({}) = 0
    BY FS_EmptySet
  <2>3. SpoolTypeOK'
    <3>1. /\ rows \subseteq RowSet /\ IsFiniteSet(rows) /\ nextId \in Nat
          /\ \A r \in rows : r.id < nextId
          /\ SpoolTypeOK
      BY <1>1 DEF SpoolInv, SpoolTypeOK
    <3>2. db' \in {"closed", "open", "failed"} /\ rowCount' \in Int
      BY <1>1, <1>2, <1>4, OpenCounts
    <3>3. /\ synced' \in (SUBSET RowSet) \X Nat
          /\ IsFiniteSet(synced'[1])
          /\ \A r \in synced'[1] : r.id < synced'[2]
      <4>1. CASE synced' = <<rows, nextId>>
        BY <3>1, <4>1
      <4>2. CASE synced' = <<{}, nextId>>
        BY <3>1, <2>2, <4>2
      <4>. QED BY <2>1, <4>1, <4>2
    <3>. QED BY <2>1, <2>2, <3>1, <3>2, <3>3 DEF SpoolTypeOK
  <2>. QED
    BY <1>1, <1>4, <2>1, <2>2, <2>3
       DEF SpoolInv, IdsUnique, OneRowPerId, CountExact, UndoIsOneCommit,
           GoneFromFront
<1>. QED BY <1>2, <1>3, <1>4

\* The table with one more row, before anything is evicted from it.
Grown(m) == rows \cup {Row(nextId, m)}

\* A message joins the table under an id no row has.
LEMMA GrownTable ==
    ASSUME SpoolInv, NEW m \in Messages
    PROVE  /\ Grown(m) \subseteq RowSet /\ IsFiniteSet(Grown(m))
           /\ rows \subseteq RowSet /\ IsFiniteSet(rows)
           /\ nextId \in Nat /\ IdAfter(nextId) = nextId + 1
           /\ \A r \in Grown(m) : r.id < nextId + 1
           /\ \A r \in rows : r.id < nextId
           /\ Row(nextId, m).id = nextId /\ Row(nextId, m) \notin rows
           /\ OneRowPerId(Grown(m)) /\ OneRowPerId(rows)
           /\ Cardinality(rows) \in Nat
           /\ Cardinality(Grown(m)) = Cardinality(rows) + 1
<1> DEFINE new == Row(nextId, m)
<1>1. /\ rows \subseteq RowSet /\ IsFiniteSet(rows) /\ nextId \in Nat
      /\ \A r \in rows : r.id \in Nat /\ r.id < nextId
      /\ OneRowPerId(rows)
  BY DEF SpoolInv, SpoolTypeOK, RowSet, IdsUnique
<1>2. new \in RowSet /\ new.id = nextId /\ new \notin rows
  BY <1>1 DEF Row, RowSet, Messages
<1> HIDE DEF new
<1>3. /\ IsFiniteSet(rows \cup {new}) /\ Cardinality(rows) \in Nat
      /\ Cardinality(rows \cup {new}) = Cardinality(rows) + 1
  BY <1>1, <1>2, FS_AddElement, FS_CardinalityType
<1>4. OneRowPerId(rows \cup {new})
  BY <1>1, <1>2 DEF OneRowPerId
<1>5. rows \cup {new} \subseteq RowSet /\ \A r \in rows \cup {new} : r.id < nextId + 1
  BY <1>1, <1>2
<1>. QED BY <1>1, <1>2, <1>3, <1>4, <1>5 DEF new, Grown, IdAfter

\* An append that evicts nothing, or whose eviction fails, preserves it.
LEMMA GrowInv ==
    ASSUME SpoolInv, NEW m \in Messages, NEW o \in OpenResults,
           o.db = "open", db' = o.db, rowCount' = o.count + 1,
           Commit(<<rows, nextId>>, <<Grown(m), nextId + 1>>)
    PROVE  SpoolInv'
<1>1. /\ rows' = Grown(m) /\ nextId' = nextId + 1
      /\ synced' = <<rows, nextId>> \/ synced' = <<rows', nextId'>>
  BY DEF Commit
<1>2. SpoolTypeOK'
  <2>1. db' \in {"closed", "open", "failed"} /\ rowCount' \in Int /\ SpoolTypeOK
    BY OpenCounts DEF SpoolInv
  <2>2. nextId + 1 \in Nat
    BY GrownTable
  <2>. QED BY <2>1, <2>2, GrownTable, CommitTypes
<1>3. OneRowPerId(rows)' /\ OneRowPerId(synced[1])'
  BY <1>1, GrownTable
<1>4. CountExact'
  BY <1>1, GrownTable, OpenCounts DEF CountExact
<1>5. UndoIsOneCommit'
  <2>1. CASE synced' = <<rows, nextId>>
    <3>1. /\ Row(nextId, m) \in rows' /\ Row(nextId, m).id = nextId
          /\ rows = rows' \ {Row(nextId, m)}
      BY <1>1, GrownTable DEF Grown
    <3>. QED BY <1>1, <2>1, <3>1 DEF UndoIsOneCommit
  <2>2. CASE synced' = <<rows', nextId'>>
    BY <2>2 DEF UndoIsOneCommit, GoneFromFront
  <2>. QED BY <1>1, <2>1, <2>2
<1>. QED BY <1>2, <1>3, <1>4, <1>5 DEF SpoolInv, IdsUnique

\* An append that evicts rows from the front preserves it.
LEMMA EvictInv ==
    ASSUME SpoolInv, NEW m \in Messages, NEW o \in OpenResults,
           o.db = "open", db' = o.db,
           NEW gone, gone \subseteq Grown(m),
           \A p \in gone : \A q \in Grown(m) \ gone : p.id < q.id,
           Commit(<<Grown(m), nextId + 1>>, <<Grown(m) \ gone, nextId + 1>>),
           rowCount' = o.count + 1 - Cardinality(gone)
    PROVE  SpoolInv'
<1>1. /\ IsFiniteSet(Grown(m) \ gone) /\ Cardinality(gone) \in Nat
      /\ Cardinality(Grown(m) \ gone) = Cardinality(Grown(m)) - Cardinality(gone)
  BY RemoveRows, GrownTable
<1>2. /\ rows' = Grown(m) \ gone /\ nextId' = nextId + 1
      /\ \/ synced' = <<Grown(m), nextId + 1>>
         \/ synced' = <<rows', nextId'>>
  BY DEF Commit
<1>3. SpoolTypeOK'
  <2>1. db' \in {"closed", "open", "failed"} /\ rowCount' \in Int /\ SpoolTypeOK
    BY <1>1, OpenCounts DEF SpoolInv
  <2>2. /\ nextId + 1 \in Nat
        /\ Grown(m) \ gone \subseteq RowSet
        /\ \A r \in Grown(m) \ gone : r.id < nextId + 1
    BY GrownTable
  <2>. QED BY <1>1, <2>1, <2>2, GrownTable, CommitTypes
<1>4. OneRowPerId(rows)' /\ OneRowPerId(synced[1])'
  BY <1>2, GrownTable DEF OneRowPerId
<1>5. CountExact'
  BY <1>1, <1>2, GrownTable, OpenCounts DEF CountExact
<1>6. UndoIsOneCommit'
  BY <1>2 DEF UndoIsOneCommit, GoneFromFront
<1>. QED BY <1>3, <1>4, <1>5, <1>6 DEF SpoolInv, IdsUnique

\* What an append may do to the table: nothing, or one row joins at the back and
\* rows leave the front, at most as many as the counter is over the cap.
Gone(m, o) == Oldest(Excess(o.count + 1), Grown(m))

NotAppended(o) == rowCount' = o.count /\ Keep

Appended(m, o) ==
    /\ o.db = "open" /\ rowCount' = o.count + 1
    /\ Commit(<<rows, nextId>>, <<Grown(m), nextId + 1>>)

AppendedOver(m, o) ==
    /\ o.db = "open" /\ rowCount' = o.count + 1 - Cardinality(Gone(m, o))
    /\ Commit(<<Grown(m), nextId + 1>>, <<Grown(m) \ Gone(m, o), nextId + 1>>)

\* append() comes down to three outcomes: refused, added, added with eviction.
LEMMA AppendCases ==
    ASSUME SpoolInv, NEW m \in Messages, AppendRow(m)
    PROVE  \E o \in OpenResults :
              /\ db' = o.db
              /\ \/ NotAppended(o)
                 \/ Appended(m, o) /\ (Gone(m, o) = {} \/ "evict" \in SqlFaults)
                 \/ AppendedOver(m, o)
<1>1. PICK o \in OpenResults :
        /\ db' = o.db
        /\ \/ rowCount' = o.count /\ Keep
           \/ /\ o.db = "open"
              /\ Commit(<<IF Gone(m, o) = {} THEN rows ELSE Grown(m),
                          IF Gone(m, o) = {} THEN nextId ELSE nextId + 1>>,
                        <<Grown(m) \ Gone(m, o), nextId + 1>>)
              /\ rowCount' = o.count + 1 - Cardinality(Gone(m, o))
           \/ /\ o.db = "open" /\ rowCount' = o.count + 1
              /\ "evict" \in SqlFaults
              /\ Commit(<<rows, nextId>>, <<Grown(m), nextId + 1>>)
  BY DEF AppendRow, Grown, Gone, IdAfter
<1>2. CASE rowCount' = o.count /\ Keep
  BY <1>1, <1>2 DEF NotAppended
<1>3. CASE /\ o.db = "open"
           /\ Commit(<<IF Gone(m, o) = {} THEN rows ELSE Grown(m),
                       IF Gone(m, o) = {} THEN nextId ELSE nextId + 1>>,
                     <<Grown(m) \ Gone(m, o), nextId + 1>>)
           /\ rowCount' = o.count + 1 - Cardinality(Gone(m, o))
  <2>1. CASE Gone(m, o) = {}
    <3>1. /\ Grown(m) \ Gone(m, o) = Grown(m)
          /\ Cardinality(Gone(m, o)) = 0 /\ o.count \in Int
      BY <2>1, FS_EmptySet, OpenCounts
    <3>2. Appended(m, o)
      BY <1>3, <2>1, <3>1 DEF Appended
    <3>. QED BY <1>1, <2>1, <3>2
  <2>2. CASE Gone(m, o) # {}
    BY <1>1, <1>3, <2>2 DEF AppendedOver
  <2>. QED BY <2>1, <2>2
<1>4. CASE /\ o.db = "open" /\ rowCount' = o.count + 1
           /\ "evict" \in SqlFaults
           /\ Commit(<<rows, nextId>>, <<Grown(m), nextId + 1>>)
  BY <1>1, <1>4 DEF Appended
<1>. QED BY <1>1, <1>2, <1>3, <1>4

\* evictOverflow() takes a front of the grown table.
LEMMA EvictedIsFront ==
    ASSUME SpoolInv, NEW m \in Messages, NEW n \in Int
    PROVE  /\ Oldest(n, Grown(m)) \subseteq Grown(m)
           /\ \A p \in Oldest(n, Grown(m)) :
                 \A q \in Grown(m) \ Oldest(n, Grown(m)) : p.id < q.id
BY GrownTable, OldestIsFront

\* append() with its eviction preserves the invariant.
THEOREM AppendInv ==
    ASSUME NEW m \in Messages, SpoolInv, AppendRow(m)
    PROVE  SpoolInv'
<1>1. PICK o \in OpenResults :
        /\ db' = o.db
        /\ NotAppended(o) \/ Appended(m, o) \/ AppendedOver(m, o)
  BY AppendCases
<1>2. Excess(o.count + 1) \in Int
  BY OpenCounts DEF Excess
<1>3. /\ Gone(m, o) \subseteq Grown(m)
      /\ \A p \in Gone(m, o) : \A q \in Grown(m) \ Gone(m, o) : p.id < q.id
  BY <1>2, EvictedIsFront DEF Gone
<1>4. CASE NotAppended(o)
  BY <1>1, <1>4, KeepInv DEF NotAppended
<1>5. CASE Appended(m, o)
  BY <1>1, <1>5, GrowInv DEF Appended
<1>6. CASE AppendedOver(m, o)
  BY <1>1, <1>3, <1>6, EvictInv DEF AppendedOver
<1>. QED BY <1>1, <1>4, <1>5, <1>6

\* An append takes rows from the front only, and no more than overflow.
THEOREM AppendEffect ==
    ASSUME NEW m \in Messages, SpoolInv, AppendRow(m)
    PROVE  /\ rows' \subseteq Grown(m)
           /\ GoneFromFront(rows, rows')
           /\ \/ rows' = rows /\ nextId' = nextId
              \/ nextId' = nextId + 1 /\ GoneFromFront(Grown(m), rows')
           /\ nextId' = nextId + 1 /\ "count" \notin SqlFaults =>
                 \/ rows' = Grown(m)
                 \/ Cardinality(rows') >= MaxRows
<1>1. PICK o \in OpenResults :
        /\ db' = o.db
        /\ NotAppended(o) \/ Appended(m, o) \/ AppendedOver(m, o)
  BY AppendCases
<1>2. /\ nextId \in Nat /\ rows \subseteq Grown(m) /\ IsFiniteSet(Grown(m))
  BY GrownTable DEF Grown
<1>3. CASE NotAppended(o)
  BY <1>2, <1>3 DEF NotAppended, Keep, GoneFromFront
<1>4. CASE Appended(m, o)
  BY <1>2, <1>4 DEF Appended, Commit, GoneFromFront
<1>5. CASE AppendedOver(m, o)
  <2>1. rows' = Grown(m) \ Gone(m, o) /\ nextId' = nextId + 1 /\ o.db = "open"
    BY <1>5 DEF AppendedOver, Commit
  <2>2. Excess(o.count + 1) \in Int /\ o.count \in Int
    BY OpenCounts DEF Excess
  <2>3. /\ Gone(m, o) \subseteq Grown(m)
        /\ \A p \in Gone(m, o) : \A q \in Grown(m) \ Gone(m, o) : p.id < q.id
    BY <2>2, EvictedIsFront DEF Gone
  <2>4. /\ rows' \subseteq Grown(m)
        /\ GoneFromFront(rows, rows') /\ GoneFromFront(Grown(m), rows')
    BY <1>2, <2>1, <2>3 DEF GoneFromFront
  <2>5. ASSUME "count" \notin SqlFaults
        PROVE  rows' = Grown(m) \/ Cardinality(rows') >= MaxRows
    <3>1. /\ Cardinality(rows') = Cardinality(Grown(m)) - Cardinality(Gone(m, o))
          /\ Cardinality(Gone(m, o)) \in Nat
      BY <1>2, <2>1, <2>3, RemoveRows
    <3>2. Cardinality(Grown(m)) = o.count + 1
      BY <2>1, <2>5, GrownTable, OpenCounts
    <3>3. /\ Excess(o.count + 1) <= 0 => Gone(m, o) = {}
          /\ Excess(o.count + 1) > 0 =>
                Cardinality(Gone(m, o)) <= Excess(o.count + 1)
      BY <2>2, GrownTable, OldestIsLimited DEF Gone
    <3>4. CASE Excess(o.count + 1) <= 0
      BY <2>1, <3>3, <3>4
    <3>5. CASE Excess(o.count + 1) > 0
      BY <2>2, <3>1, <3>2, <3>3, <3>5 DEF Excess
    <3>. QED BY <2>2, <3>4, <3>5
  <2>. QED BY <1>2, <2>1, <2>4, <2>5
<1>. QED BY <1>1, <1>3, <1>4, <1>5

\* An acknowledgement takes rows from the front only.
THEOREM ReleaseEffect ==
    ASSUME NEW lastId \in Int, SpoolInv, ReleaseThrough(lastId)
    PROVE  /\ rows' \subseteq rows /\ nextId' = nextId
           /\ GoneFromFront(rows, rows')
           /\ \A r \in rows \ rows' : r.id <= lastId
<1>1. \A r \in rows : r.id \in Nat
  BY DEF SpoolInv, SpoolTypeOK, RowSet
<1>. QED BY <1>1 DEF ReleaseThrough, Commit, Keep, GoneFromFront

\* A clean end of the process preserves the invariant.
THEOREM CloseInv == SpoolInv /\ CloseCleanly => SpoolInv'
BY DEF SpoolInv, SpoolTypeOK, IdsUnique, OneRowPerId, CountExact,
       UndoIsOneCommit, GoneFromFront, CloseCleanly

\* A power cut, with or without undoing a commit, preserves the invariant.
THEOREM LosePowerInv == SpoolInv /\ LosePower => SpoolInv'
<1>1. SUFFICES ASSUME SpoolInv, LosePower PROVE SpoolInv'
  OBVIOUS
<1>2. PICK disk \in {<<rows, nextId>>, synced} :
        rows' = disk[1] /\ nextId' = disk[2] /\ synced' = disk
  BY <1>1 DEF LosePower
<1>3. /\ disk \in (SUBSET RowSet) \X Nat /\ IsFiniteSet(disk[1])
      /\ \A r \in disk[1] : r.id < disk[2]
      /\ OneRowPerId(disk[1])
  BY <1>1, <1>2 DEF SpoolInv, SpoolTypeOK, IdsUnique
<1>4. SpoolTypeOK'
  BY <1>1, <1>2, <1>3 DEF SpoolTypeOK, LosePower
<1>. QED
  BY <1>1, <1>2, <1>3, <1>4
     DEF SpoolInv, IdsUnique, OneRowPerId, CountExact, UndoIsOneCommit,
         GoneFromFront, LosePower

----------------------------------------------------------------------------
(* The specification of the spool. *)

\* The empty, closed spool satisfies the invariant.
LEMMA WorkloadInit == SpoolInit => SpoolInv
<1>1. IsFiniteSet({}) /\ Cardinality({}) = 0
  BY FS_EmptySet
<1>. QED
  BY <1>1 DEF SpoolInit, SpoolInv, SpoolTypeOK, IdsUnique, OneRowPerId,
              CountExact, UndoIsOneCommit, GoneFromFront

\* Every call the owner can make preserves it.
LEMMA WorkloadStep == SpoolInv /\ [SpoolNext]_spoolVars => SpoolInv'
<1> SUFFICES ASSUME SpoolInv, [SpoolNext]_spoolVars PROVE SpoolInv'
  OBVIOUS
<1>1. CASE Open
  BY <1>1, OpenInv
<1>2. ASSUME NEW m \in Messages, AppendRow(m) PROVE SpoolInv'
  BY <1>2, AppendInv
<1>3. ASSUME NEW n \in Int, ReleaseThrough(n) PROVE SpoolInv'
  BY <1>3, ReleaseInv
<1>4. CASE Clear
  BY <1>4, ClearInv
<1>5. CASE CloseCleanly
  BY <1>5, CloseInv
<1>6. CASE LosePower
  BY <1>6, LosePowerInv
<1>7. CASE UNCHANGED spoolVars
  BY <1>7 DEF spoolVars, SpoolInv, SpoolTypeOK, IdsUnique, OneRowPerId,
              CountExact, UndoIsOneCommit, GoneFromFront
<1>. QED BY <1>1, <1>2, <1>3, <1>4, <1>5, <1>6, <1>7 DEF SpoolNext

\* The inductive invariant: types, unique ids, the exact counter, and what a
\* power cut can bring back, each needed for the others.
THEOREM SpoolIsSound == SpoolSpec => []SpoolInv
BY WorkloadInit, WorkloadStep, PTL DEF SpoolSpec

\* The table's rows and its bookkeeping keep their types.
THEOREM SpoolTypeCorrect == SpoolSpec => []SpoolTypeOK
<1>1. SpoolInv => SpoolTypeOK
  BY DEF SpoolInv
<1>. QED BY <1>1, SpoolIsSound, PTL

\* releaseThrough() can never take a row appended after the one it names.
THEOREM SpoolIdsUnique == SpoolSpec => []IdsUnique
<1>1. SpoolInv => IdsUnique
  BY DEF SpoolInv
<1>. QED BY <1>1, SpoolIsSound, PTL

\* The cached row counter never drifts from the table.
THEOREM SpoolCountExact == SpoolSpec => []CountExact
<1>1. SpoolInv => CountExact
  BY DEF SpoolInv
<1>. QED BY <1>1, SpoolIsSound, PTL

\* A power cut undoes one commit: the newest row, or a removal from the front.
THEOREM SpoolUndo == SpoolSpec => []UndoIsOneCommit
<1>1. SpoolInv => UndoIsOneCommit
  BY DEF SpoolInv
<1>. QED BY <1>1, SpoolIsSound, PTL

\* Acknowledgement, eviction and clear() take the oldest rows first.
THEOREM SpoolLeavesFromTheFront == SpoolSpec => LeaveFromTheFront
<1>1. ASSUME SpoolInv, [SpoolNext]_spoolVars, nextId' >= nextId
      PROVE  GoneFromFront(rows, rows')
  <2>1. CASE Open \/ CloseCleanly \/ UNCHANGED spoolVars
    BY <2>1 DEF Open, Keep, CloseCleanly, spoolVars, GoneFromFront
  <2>2. ASSUME NEW m \in Messages, AppendRow(m) PROVE GoneFromFront(rows, rows')
    BY <1>1, <2>2, AppendEffect
  <2>3. ASSUME NEW n \in Int, ReleaseThrough(n) PROVE GoneFromFront(rows, rows')
    BY <1>1, <2>3, ReleaseEffect
  <2>4. CASE Clear
    BY <2>4 DEF Clear, Commit, Keep, GoneFromFront
  <2>5. CASE LosePower
    <3>1. CASE rows' = rows
      BY <3>1 DEF GoneFromFront
    <3>2. CASE rows' = synced[1] /\ nextId' = synced[2]
      <4>1. nextId \in Nat /\ synced[2] \in Nat
        BY <1>1 DEF SpoolInv, SpoolTypeOK
      <4>2. rows \subseteq synced[1]
        BY <1>1, <3>2, <4>1 DEF SpoolInv, UndoIsOneCommit
      <4>. QED BY <3>2, <4>2 DEF GoneFromFront
    <3>. QED BY <2>5, <3>1, <3>2 DEF LosePower
  <2>. QED BY <1>1, <2>1, <2>2, <2>3, <2>4, <2>5 DEF SpoolNext
<1>2. SpoolInv /\ [SpoolNext]_spoolVars =>
        [nextId' >= nextId => GoneFromFront(rows, rows')]_spoolVars
  BY <1>1
<1>. QED BY <1>2, SpoolIsSound, PTL DEF SpoolSpec, LeaveFromTheFront

\* An append evicts the overflow and nothing more.
THEOREM SpoolEvictsOnlyOverflow == SpoolSpec => EvictsOnlyOverflow
<1> DEFINE OverflowOnly ==
      nextId' > nextId /\ "count" \notin SqlFaults =>
         \/ Cardinality(rows') >= MaxRows
         \/ Cardinality(rows') = Cardinality(rows) + 1
<1>1. ASSUME SpoolInv, [SpoolNext]_spoolVars, nextId' > nextId,
             "count" \notin SqlFaults
      PROVE  \/ Cardinality(rows') >= MaxRows
             \/ Cardinality(rows') = Cardinality(rows) + 1
  <2>1. nextId \in Nat /\ synced[2] \in Nat
    BY <1>1 DEF SpoolInv, SpoolTypeOK
  <2>2. nextId' # nextId
    BY <1>1, <2>1
  <2>3. ~Open /\ ~CloseCleanly /\ ~Clear /\ ~UNCHANGED spoolVars
    BY <2>2 DEF Open, Keep, CloseCleanly, Clear, Commit, spoolVars
  <2>4. ~LosePower
    BY <1>1, <2>1 DEF LosePower, SpoolInv, UndoIsOneCommit
  <2>5. ~(\E n \in Int : ReleaseThrough(n))
    BY <2>2 DEF ReleaseThrough, Commit, Keep
  <2>6. PICK m \in Messages : AppendRow(m)
    BY <1>1, <2>3, <2>4, <2>5 DEF SpoolNext
  <2>. QED BY <1>1, <2>2, <2>6, AppendEffect, GrownTable
<1>2. SpoolInv /\ [SpoolNext]_spoolVars => [OverflowOnly]_spoolVars
  BY <1>1
<1>. QED BY <1>2, SpoolIsSound, PTL DEF SpoolSpec, EvictsOnlyOverflow
=============================================================================
