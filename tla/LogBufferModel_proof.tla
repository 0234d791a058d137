------------------------ MODULE LogBufferModel_proof ------------------------
(***************************************************************************)
(* Theorems about LogBufferModel, for any threads, levels and limits: no   *)
(* message is lost track of, the files and the entries stay in order, the  *)
(* files lose lines from the front only, and the page's count catches up.  *)
(***************************************************************************)
EXTENDS LogBufferModel, SequenceTheorems, FiniteSetTheorems, FunctionTheorems, TLAPS

USE LogAssumption DEF LogAssumption

----------------------------------------------------------------------------
(* The invariant. *)

Entries == [id : Nat, level : Levels]
Calls == [at : {"none", "append", "count"}, level : Levels, line : BOOLEAN]
Stages == {"idle", "write", "note", "flush", "remove", "rename", "open", "notify", "show",
           "snapshot", "clear", "off", "dead"}

\* The numbers of a segment's messages; notes have none.
Ids(s) == {s[i].id : i \in DOMAIN s} \ {0}
Before(s, t) == \A x \in Ids(s), y \in Ids(t) : x < y
UpTo(s, n) == \A x \in Ids(s) : x <= n

LogTyped ==
    /\ calls \in [Loggers -> Calls]
    /\ buckets \in [Levels -> Seq(Entries)] /\ filterLevel \in Levels
    /\ pendingWrites \in Seq(Entries) /\ writes \in Seq(Entries)
    /\ buffer \in Seq(Entries) /\ log \in Seq(Entries) /\ rotated \in Seq(Entries)
    /\ droppedWrites \in Nat /\ dropped \in Nat /\ logBytes \in Nat
    /\ newSinceRefresh \in Nat /\ lastNotifiedNew \in Nat /\ badge \in Nat
    /\ messages \in Nat /\ settled \in Nat
    /\ writeQueueFull \in BOOLEAN /\ quitting \in BOOLEAN /\ isOpen \in BOOLEAN
    /\ main \in Stages

\* What the writer holds while it is where it is, and that a destructor finds no
\* thread logging and leaves nothing in the queue of an open file.
Phases ==
    /\ main \in {"write", "note", "flush"} => isOpen
    /\ main \in {"rename", "open"} => ~isOpen
    /\ main # "write" => writes = <<>>
    /\ main \notin {"write", "note"} => dropped = 0
    /\ main = "off" => quitting
    /\ quitting => \A t \in Loggers : calls[t] = Silent
    /\ quitting /\ (main = "off" => isOpen) => pendingWrites = <<>> /\ droppedWrites = 0

Counted == messages = settled + Len(writes) + dropped + Len(pendingWrites) + droppedWrites

\* The page is told of every count it has not read.
BadgeFollows ==
    /\ lastNotifiedNew <= newSinceRefresh
    /\ main # "show" => lastNotifiedNew <= badge /\ badge <= newSinceRefresh

\* A file that is rotated has its lines.
RotatesFull ==
    /\ main \notin {"note", "flush"} => buffer = <<>>
    /\ Running /\ isOpen => logBytes <= Len(log) + Len(buffer)
    /\ main = "remove" => isOpen /\ logBytes >= RotateAt

\* The order of the messages from the older file to the queue, segment by segment.
InOrder ==
    /\ Ascends(rotated) /\ Ascends(log) /\ Ascends(buffer) /\ Ascends(writes)
    /\ Ascends(pendingWrites)
    /\ Before(rotated, log) /\ Before(rotated, buffer) /\ Before(rotated, writes)
    /\ Before(rotated, pendingWrites)
    /\ Before(log, buffer) /\ Before(log, writes) /\ Before(log, pendingWrites)
    /\ Before(buffer, writes) /\ Before(buffer, pendingWrites)
    /\ Before(writes, pendingWrites)
    /\ UpTo(rotated, messages) /\ UpTo(log, messages) /\ UpTo(buffer, messages)
    /\ UpTo(writes, messages) /\ UpTo(pendingWrites, messages)

BucketsInOrder ==
    \A level \in Levels : Ascends(buckets[level]) /\ UpTo(buckets[level], messages)

LogInv ==
    /\ LogTyped /\ Phases /\ Counted /\ BadgeFollows /\ RotatesFull
    /\ InOrder /\ BucketsInOrder

----------------------------------------------------------------------------
(* Segments. *)

\* An empty segment is in order with any other.
LEMMA NoIds ==
    /\ Ids(<<>>) = {} /\ Ascends(<<>>)
    /\ \A s : Before(s, <<>>) /\ Before(<<>>, s)
    /\ \A n : UpTo(<<>>, n)
BY DEF Ids, Ascends, Before, UpTo

\* A segment is a list of entries; the numbers of its messages are above 0.
LEMMA Segment ==
    ASSUME NEW s \in Seq(Entries)
    PROVE  /\ Len(s) \in Nat /\ DOMAIN s = 1 .. Len(s)
           /\ \A i \in DOMAIN s : s[i] \in Entries /\ s[i].id \in Nat
           /\ Ids(s) \subseteq Nat \ {0}
<1>1. Len(s) \in Nat /\ DOMAIN s = 1 .. Len(s) /\ s \in [1 .. Len(s) -> Entries]
  BY LenProperties
<1>2. ASSUME NEW i \in DOMAIN s PROVE s[i] \in Entries /\ s[i].id \in Nat
  <2>1. s[i] \in Entries
    BY <1>1
  <2>. QED BY <2>1 DEF Entries
<1>. QED BY <1>1, <1>2 DEF Ids

\* Two segments one after the other.
LEMMA IdsOfConcat ==
    ASSUME NEW s \in Seq(Entries), NEW t \in Seq(Entries)
    PROVE  Ids(s \o t) = Ids(s) \cup Ids(t)
<1>1. /\ DOMAIN s = 1 .. Len(s) /\ DOMAIN t = 1 .. Len(t) /\ Len(s) \in Nat /\ Len(t) \in Nat
      /\ DOMAIN (s \o t) = 1 .. Len(s) + Len(t)
      /\ \A i \in 1 .. Len(s) + Len(t) :
            (s \o t)[i] = IF i <= Len(s) THEN s[i] ELSE t[i - Len(s)]
  BY ConcatProperties
<1>2. ASSUME NEW x \in Ids(s \o t) PROVE x \in Ids(s) \cup Ids(t)
  <2>1. PICK i \in 1 .. Len(s) + Len(t) : x = (s \o t)[i].id
    BY <1>1, <1>2 DEF Ids
  <2>2. CASE i <= Len(s)
    BY <1>1, <1>2, <2>1, <2>2 DEF Ids
  <2>3. CASE ~(i <= Len(s))
    <3>1. i - Len(s) \in DOMAIN t /\ x = t[i - Len(s)].id
      BY <1>1, <2>1, <2>3
    <3>. QED BY <1>2, <3>1 DEF Ids
  <2>. QED BY <2>2, <2>3
<1>3. ASSUME NEW x \in Ids(s) PROVE x \in Ids(s \o t)
  <2>1. PICK i \in DOMAIN s : x = s[i].id
    BY DEF Ids
  <2>2. i \in DOMAIN (s \o t) /\ x = (s \o t)[i].id
    BY <1>1, <2>1
  <2>. QED BY <1>3, <2>2 DEF Ids
<1>4. ASSUME NEW x \in Ids(t) PROVE x \in Ids(s \o t)
  <2>1. PICK i \in DOMAIN t : x = t[i].id
    BY DEF Ids
  <2>2. i + Len(s) \in DOMAIN (s \o t) /\ x = (s \o t)[i + Len(s)].id
    BY <1>1, <2>1
  <2>. QED BY <1>4, <2>2 DEF Ids
<1>. QED BY <1>2, <1>3, <1>4

LEMMA AscendsConcat ==
    ASSUME NEW s \in Seq(Entries), NEW t \in Seq(Entries)
    PROVE  Ascends(s \o t) <=> Ascends(s) /\ Ascends(t) /\ Before(s, t)
<1>1. /\ DOMAIN s = 1 .. Len(s) /\ DOMAIN t = 1 .. Len(t) /\ Len(s) \in Nat /\ Len(t) \in Nat
      /\ DOMAIN (s \o t) = 1 .. Len(s) + Len(t)
      /\ \A i \in 1 .. Len(s) + Len(t) :
            (s \o t)[i] = IF i <= Len(s) THEN s[i] ELSE t[i - Len(s)]
  BY ConcatProperties
<1>2. /\ \A i \in DOMAIN s : s[i].id \in Nat
      /\ \A i \in DOMAIN t : t[i].id \in Nat
  BY Segment
<1>3. ASSUME Ascends(s \o t)
      PROVE  Ascends(s) /\ Ascends(t) /\ Before(s, t)
  <2>1. ASSUME NEW i \in DOMAIN s, NEW j \in DOMAIN s, i < j, s[i].id > 0, s[j].id > 0
        PROVE  s[i].id < s[j].id
    BY <1>1, <1>3, <2>1 DEF Ascends
  <2>2. ASSUME NEW i \in DOMAIN t, NEW j \in DOMAIN t, i < j, t[i].id > 0, t[j].id > 0
        PROVE  t[i].id < t[j].id
    <3>1. /\ i + Len(s) \in DOMAIN (s \o t) /\ j + Len(s) \in DOMAIN (s \o t)
          /\ i + Len(s) < j + Len(s)
          /\ (s \o t)[i + Len(s)] = t[i] /\ (s \o t)[j + Len(s)] = t[j]
      BY <1>1, <2>2
    <3>. QED BY <1>3, <2>2, <3>1 DEF Ascends
  <2>3. ASSUME NEW x \in Ids(s), NEW y \in Ids(t) PROVE x < y
    <3>1. PICK i \in DOMAIN s : x = s[i].id
      BY DEF Ids
    <3>2. PICK j \in DOMAIN t : y = t[j].id
      BY DEF Ids
    <3>3. x > 0 /\ y > 0
      BY Segment
    <3>4. /\ i \in DOMAIN (s \o t) /\ j + Len(s) \in DOMAIN (s \o t) /\ i < j + Len(s)
          /\ (s \o t)[i].id = x /\ (s \o t)[j + Len(s)].id = y
      BY <1>1, <3>1, <3>2
    <3>. QED BY <1>3, <3>3, <3>4 DEF Ascends
  <2>. QED BY <2>1, <2>2, <2>3 DEF Ascends, Before
<1>4. ASSUME Ascends(s), Ascends(t), Before(s, t)
      PROVE  Ascends(s \o t)
  <2>. SUFFICES ASSUME NEW i \in DOMAIN (s \o t), NEW j \in DOMAIN (s \o t), i < j,
                       (s \o t)[i].id > 0, (s \o t)[j].id > 0
                PROVE  (s \o t)[i].id < (s \o t)[j].id
    BY DEF Ascends
  <2>1. CASE j <= Len(s)
    BY <1>1, <1>4, <2>1 DEF Ascends
  <2>2. CASE i > Len(s)
    <3>1. /\ i - Len(s) \in DOMAIN t /\ j - Len(s) \in DOMAIN t /\ i - Len(s) < j - Len(s)
          /\ (s \o t)[i] = t[i - Len(s)] /\ (s \o t)[j] = t[j - Len(s)]
      BY <1>1, <2>2
    <3>. QED BY <1>4, <3>1 DEF Ascends
  <2>3. CASE i <= Len(s) /\ j > Len(s)
    <3>1. /\ i \in DOMAIN s /\ j - Len(s) \in DOMAIN t
          /\ (s \o t)[i] = s[i] /\ (s \o t)[j] = t[j - Len(s)]
      BY <1>1, <2>3
    <3>2. s[i].id \in Ids(s) /\ t[j - Len(s)].id \in Ids(t)
      BY <1>1, <1>2, <3>1 DEF Ids
    <3>. QED BY <1>4, <3>1, <3>2 DEF Before
  <2>. QED BY <1>1, <2>1, <2>2, <2>3
<1>. QED BY <1>3, <1>4

\* A segment of one entry.
LEMMA OneEntry ==
    ASSUME NEW e \in Entries
    PROVE  <<e>> \in Seq(Entries) /\ Ids(<<e>>) = {e.id} \ {0} /\ Ascends(<<e>>)
<1>1. <<e>> \in Seq(Entries) /\ DOMAIN <<e>> = {1} /\ <<e>>[1] = e
  OBVIOUS
<1>2. Ids(<<e>>) = {e.id} \ {0}
  BY <1>1 DEF Ids
<1>3. Ascends(<<e>>)
  <2>. SUFFICES ASSUME NEW i \in {1}, NEW j \in {1}, i < j PROVE FALSE
    BY <1>1 DEF Ascends
  <2>. QED OBVIOUS
<1>. QED BY <1>1, <1>2, <1>3

\* An entry appended, whose number is the highest or which has none.
LEMMA AppendInOrder ==
    ASSUME NEW s \in Seq(Entries), NEW e \in Entries, Ascends(s),
           e.id = 0 \/ \A x \in Ids(s) : x < e.id
    PROVE  /\ Append(s, e) \in Seq(Entries) /\ Len(Append(s, e)) = Len(s) + 1
           /\ Ids(Append(s, e)) = Ids(s) \cup ({e.id} \ {0})
           /\ Ascends(Append(s, e))
<1>1. /\ Append(s, e) \in Seq(Entries) /\ Len(Append(s, e)) = Len(s) + 1
      /\ Append(s, e) = s \o <<e>>
  BY AppendProperties, AppendIsConcat
<1>2. <<e>> \in Seq(Entries) /\ Ids(<<e>>) = {e.id} \ {0} /\ Ascends(<<e>>)
  BY OneEntry
<1>3. Before(s, <<e>>)
  BY <1>2 DEF Before
<1>. QED BY <1>1, <1>2, <1>3, IdsOfConcat, AscendsConcat

\* Positions in their order.
Rises(f, n) == \A k, l \in 1 .. n : k < l => f[k] < f[l]
Picks(u, s, f, n) == \A k \in 1 .. n : u[k] = s[f[k]]

\* What is left of a segment when some of its entries are taken away.
LEMMA ThinnedInOrder ==
    ASSUME NEW s \in Seq(Entries), NEW n \in Nat, NEW f \in [1 .. n -> DOMAIN s],
           NEW u \in [1 .. n -> Entries], Rises(f, n), Picks(u, s, f, n)
    PROVE  /\ u \in Seq(Entries) /\ Len(u) = n
           /\ Ids(u) \subseteq Ids(s)
           /\ Ascends(s) => Ascends(u)
<1>2. DOMAIN u = 1 .. n /\ \A k \in 1 .. n : f[k] \in DOMAIN s
  OBVIOUS
<1>3. u \in Seq(Entries) /\ Len(u) = n
  BY <1>2, LenProperties
<1>4. Ids(u) \subseteq Ids(s)
  BY <1>2 DEF Ids, Picks
<1>5. ASSUME Ascends(s), NEW k \in 1 .. n, NEW l \in 1 .. n, k < l, u[k].id > 0, u[l].id > 0
      PROVE  u[k].id < u[l].id
  BY <1>2, <1>5 DEF Ascends, Rises, Picks
<1>. QED BY <1>2, <1>3, <1>4, <1>5 DEF Ascends

\* A run of a segment.
LEMMA RunInOrder ==
    ASSUME NEW s \in Seq(Entries), NEW m \in Nat \ {0}, NEW n \in 0 .. Len(s)
    PROVE  /\ SubSeq(s, m, n) \in Seq(Entries)
           /\ Ids(SubSeq(s, m, n)) \subseteq Ids(s)
           /\ Ascends(s) => Ascends(SubSeq(s, m, n))
<1>1. DOMAIN s = 1 .. Len(s) /\ Len(s) \in Nat /\ \A i \in DOMAIN s : s[i] \in Entries
  BY Segment
<1> DEFINE u == SubSeq(s, m, n)
           N == IF m <= n THEN n - m + 1 ELSE 0
           f == [k \in 1 .. N |-> m + k - 1]
<1>2. N \in Nat
  OBVIOUS
<1>3. f \in [1 .. N -> DOMAIN s] /\ Rises(f, N)
  BY <1>1 DEF Rises
<1>4. u \in Seq(Entries) /\ Len(u) = N /\ \A k \in 1 .. n - m + 1 : u[k] = s[m + k - 1]
  <2>1. \A i \in m .. n : s[i] \in Entries
    BY <1>1
  <2>. QED BY <2>1, SubSeqProperties
<1> DEFINE w == [k \in 1 .. N |-> s[f[k]]]
<1>5. w \in [1 .. N -> Entries] /\ \A k \in 1 .. N : w[k] = s[m + k - 1]
  BY <1>1, <1>3
<1>6. Picks(w, s, f, N)
  BY DEF Picks
<1> HIDE DEF N, f, w, u
<1>7. /\ w \in Seq(Entries) /\ Len(w) = N
      /\ Ids(w) \subseteq Ids(s)
      /\ Ascends(s) => Ascends(w)
  BY <1>2, <1>3, <1>5, <1>6, ThinnedInOrder
<1>8. \A k \in 1 .. N : u[k] = w[k]
  BY <1>4, <1>5 DEF N
<1>9. u = w
  BY <1>4, <1>7, <1>8, SeqEqual
<1>. QED BY <1>7, <1>9 DEF u

LEMMA NewestInOrder ==
    ASSUME NEW s \in Seq(Entries), NEW n \in Nat
    PROVE  /\ Newest(n, s) \in Seq(Entries)
           /\ Ids(Newest(n, s)) \subseteq Ids(s)
           /\ Ascends(s) => Ascends(Newest(n, s))
<1>1. Len(s) \in Nat
  BY Segment
<1>. QED BY <1>1, RunInOrder DEF Newest

\* A level takes an entry whose number is the highest, or a note.
LEMMA PushInOrder ==
    ASSUME NEW s \in Seq(Entries), NEW e \in Entries, Ascends(s),
           e.id = 0 \/ \A x \in Ids(s) : x < e.id
    PROVE  /\ PushCapped(s, e) \in Seq(Entries)
           /\ Ids(PushCapped(s, e)) \subseteq Ids(s) \cup ({e.id} \ {0})
           /\ Ascends(PushCapped(s, e))
<1>1. /\ Append(s, e) \in Seq(Entries)
      /\ Ids(Append(s, e)) = Ids(s) \cup ({e.id} \ {0})
      /\ Ascends(Append(s, e))
  BY AppendInOrder
<1>. QED BY <1>1, NewestInOrder DEF PushCapped

\* The place of a position among those that are kept.
Rank(i, kept) == Cardinality({j \in kept : j <= i})
Kept(k, kept) == CHOOSE i \in kept : Rank(i, kept) = k

\* Each place is taken by one position, and later places by later positions.
LEMMA KeptRises ==
    ASSUME NEW n \in Nat, NEW kept \in SUBSET (1 .. n)
    PROVE  /\ IsFiniteSet(kept) /\ Cardinality(kept) \in Nat
           /\ \A k \in 1 .. Cardinality(kept) :
                 Kept(k, kept) \in kept /\ Rank(Kept(k, kept), kept) = k
           /\ \A k, l \in 1 .. Cardinality(kept) : k < l => Kept(k, kept) < Kept(l, kept)
<1> DEFINE C == Cardinality(kept)
           Below(i) == {j \in kept : j <= i}
<1>1. IsFiniteSet(kept) /\ C \in Nat
  <2>1. IsFiniteSet(1 .. n)
    BY FS_Interval
  <2>. QED BY <2>1, FS_Subset, FS_CardinalityType
<1>2. ASSUME NEW i \in kept
      PROVE  IsFiniteSet(Below(i)) /\ Rank(i, kept) = Cardinality(Below(i))
             /\ Rank(i, kept) \in 1 .. C
  <2>1. IsFiniteSet(Below(i)) /\ Cardinality(Below(i)) <= C /\ Cardinality(Below(i)) \in Nat
    <3>1. Below(i) \in SUBSET kept
      OBVIOUS
    <3>. QED BY <1>1, <3>1, FS_Subset, FS_CardinalityType
  <2>2. Below(i) # {}
    BY <1>2
  <2>3. Cardinality(Below(i)) # 0
    BY <2>1, <2>2, FS_EmptySet
  <2>. QED BY <1>1, <2>1, <2>3 DEF Rank
<1>3. ASSUME NEW i \in kept, NEW l \in kept, i < l
      PROVE  Rank(i, kept) < Rank(l, kept)
  <2>1. Below(i) \in SUBSET Below(l) /\ l \in Below(l) /\ l \notin Below(i)
    <3>1. \A j \in kept : j \in Int
      OBVIOUS
    <3>2. \A j \in kept : j <= i => j <= l
      BY <1>3, <3>1
    <3>3. l <= l /\ ~(l <= i)
      BY <1>3, <3>1
    <3>4. Below(i) \subseteq Below(l)
      BY <3>2
    <3>. QED BY <3>3, <3>4
  <2>2. /\ IsFiniteSet(Below(l)) /\ IsFiniteSet(Below(i))
        /\ Rank(i, kept) = Cardinality(Below(i)) /\ Rank(l, kept) = Cardinality(Below(l))
        /\ Rank(i, kept) \in 1 .. C /\ Rank(l, kept) \in 1 .. C
    BY <1>2
  <2> HIDE DEF Below
  <2>3. Cardinality(Below(i)) <= Cardinality(Below(l))
        /\ (Cardinality(Below(l)) = Cardinality(Below(i)) => Below(l) = Below(i))
    BY <2>1, <2>2, FS_Subset
  <2>. QED BY <1>1, <2>1, <2>2, <2>3
<1> HIDE DEF Below
<1> DEFINE r == [i \in kept |-> Rank(i, kept)]
<1>4. r \in Injection(kept, 1 .. C)
  <2>1. r \in [kept -> 1 .. C]
    BY <1>2
  <2>2. ASSUME NEW i \in kept, NEW l \in kept, i # l PROVE r[i] # r[l]
    <3>1. i \in Int /\ l \in Int
      OBVIOUS
    <3>2. Rank(i, kept) \in Int /\ Rank(l, kept) \in Int
      BY <1>1, <1>2
    <3>. QED BY <1>3, <2>2, <3>1, <3>2
  <2>. QED BY <2>1, <2>2 DEF Injection, IsInjective
<1>5. r \in Surjection(kept, 1 .. C)
  <2>1. IsFiniteSet(1 .. C) /\ Cardinality(1 .. C) = C
    BY <1>1, FS_Interval
  <2>. QED BY <1>4, <2>1, FS_Injection
<1>6. ASSUME NEW k \in 1 .. C
      PROVE  Kept(k, kept) \in kept /\ Rank(Kept(k, kept), kept) = k
  <2>1. \E i \in kept : Rank(i, kept) = k
    BY <1>5 DEF Surjection
  <2>. QED BY <2>1 DEF Kept
<1>7. ASSUME NEW k \in 1 .. C, NEW l \in 1 .. C, k < l
      PROVE  Kept(k, kept) < Kept(l, kept)
  <2> DEFINE i == Kept(k, kept)
             j == Kept(l, kept)
  <2>1. i \in kept /\ j \in kept /\ Rank(i, kept) = k /\ Rank(j, kept) = l
    BY <1>6
  <2> HIDE DEF i, j
  <2>2. i \in Int /\ j \in Int
    BY <2>1
  <2>3. ~(j < i)
    BY <1>1, <1>3, <1>7, <2>1
  <2>4. i # j
    BY <1>7, <2>1
  <2>. QED BY <2>2, <2>3, <2>4 DEF i, j
<1>. QED BY <1>1, <1>6, <1>7

\* Any lines a segment loses leave the others in order.
LEMMA OnlyInOrder ==
    ASSUME NEW s \in Seq(Entries), NEW kept \in SUBSET DOMAIN s
    PROVE  /\ Only(s, kept) \in Seq(Entries)
           /\ Ids(Only(s, kept)) \subseteq Ids(s)
           /\ Ascends(s) => Ascends(Only(s, kept))
<1> DEFINE C == Cardinality(kept)
           f == [k \in 1 .. C |-> Kept(k, kept)]
           u == Only(s, kept)
<1>1. DOMAIN s = 1 .. Len(s) /\ Len(s) \in Nat /\ \A i \in DOMAIN s : s[i] \in Entries
  BY Segment
<1>2. /\ C \in Nat
      /\ \A k \in 1 .. C : Kept(k, kept) \in kept
      /\ \A k, l \in 1 .. C : k < l => Kept(k, kept) < Kept(l, kept)
  BY <1>1, KeptRises
<1>3. f \in [1 .. C -> DOMAIN s] /\ Rises(f, C)
  BY <1>2 DEF Rises
<1>4. u = [k \in 1 .. C |-> s[Kept(k, kept)]]
  BY DEF Only, Kept, Rank
<1> HIDE DEF u
<1>5. u \in [1 .. C -> Entries] /\ Picks(u, s, f, C)
  BY <1>1, <1>2, <1>4 DEF Picks
<1> HIDE DEF C, f
<1>6. u \in Seq(Entries) /\ Ids(u) \subseteq Ids(s) /\ (Ascends(s) => Ascends(u))
  BY <1>2, <1>3, <1>5, ThinnedInOrder
<1>. QED BY <1>6 DEF u

\* The writer's and the destructor's phases.
LEMMA PhasesStep == LogInv /\ [Next]_vars => Phases'
<1> SUFFICES ASSUME LogInv, [Next]_vars PROVE Phases'
  OBVIOUS
<1>1. ASSUME NEW t \in Loggers, NEW level \in Levels, HandleMessage(t, level) PROVE Phases'
  BY <1>1 DEF LogInv, LogTyped, Phases, HandleMessage, Running, Silent, queue, page, flush, file
<1>2. ASSUME NEW t \in Loggers, AppendEntry(t) PROVE Phases'
  <2>1. ~quitting
    BY <1>2 DEF LogInv, Phases, AppendEntry, Silent
  <2>2. main # "off"
    BY <2>1 DEF LogInv, Phases
  <2>. QED BY <1>2, <2>1, <2>2 DEF LogInv, Phases, AppendEntry, page, flush, file
<1>3. ASSUME NEW t \in Loggers, CountNew(t) PROVE Phases'
  BY <1>3 DEF LogInv, LogTyped, Phases, CountNew, Running, Silent, queue, page, flush, file
<1>4. CASE Tick
  BY <1>4 DEF LogInv, LogTyped, Phases, Tick, TakeQueue, HasWork, AfterFlush, Running, Silent, queue, page, flush, file
<1>5. CASE Quit
  BY <1>5 DEF LogInv, LogTyped, Phases, Quit, TakeQueue, HasWork, AfterFlush, Running, Silent, queue, page, flush, file
<1>6. CASE WriteLines
  BY <1>6 DEF LogInv, LogTyped, Phases, WriteLines, WriteTracked, Running, Silent, queue, page, flush, file
<1>7. CASE WriteNote
  BY <1>7 DEF LogInv, LogTyped, Phases, WriteNote, WriteTracked, Running, Silent, queue, page, flush, file
<1>8. CASE Flush
  BY <1>8 DEF LogInv, LogTyped, Phases, Flush, AfterFlush, Running, Silent, queue, page, flush, file
<1>9. CASE RemoveRotated
  BY <1>9 DEF LogInv, LogTyped, Phases, RemoveRotated, Running, Silent, queue, page, flush, file
<1>10. CASE RenameLog
  BY <1>10 DEF LogInv, LogTyped, Phases, RenameLog, Running, Silent, queue, page, flush, file
<1>11. CASE ReopenLog
  BY <1>11 DEF LogInv, LogTyped, Phases, ReopenLog, AfterFlush, OpenResults, BytesAfterRotation, Running, Silent, queue, page, flush, file
<1>12. CASE NotifyNew
  BY <1>12 DEF LogInv, LogTyped, Phases, NotifyNew, Running, Silent, queue, page, flush, file
<1>13. CASE ShowBadge
  BY <1>13 DEF LogInv, LogTyped, Phases, ShowBadge, Running, Silent, queue, page, flush, file
<1>14. CASE ClearNew
  BY <1>14 DEF LogInv, LogTyped, Phases, ClearNew, NotifiedAfterRefresh, Running, Silent, queue, page, flush, file
<1>15. CASE RefreshAfterSwitch
  BY <1>15 DEF LogInv, LogTyped, Phases, RefreshAfterSwitch, TakeSnapshot, Running, Silent, queue, page, flush, file
<1>16. CASE Refresh
  BY <1>16 DEF LogInv, LogTyped, Phases, Refresh, Tap, TakeSnapshot, Running, Silent, queue, page, flush, file
<1>17. ASSUME NEW level \in Levels, SetFilterLevel(level) PROVE Phases'
  BY <1>17 DEF LogInv, LogTyped, Phases, SetFilterLevel, Tap, Running, Silent, queue, page, flush, file
<1>18. CASE Crash
  BY <1>18 DEF LogInv, LogTyped, Phases, Crash, MemoryIsGone, Running, Silent, queue, page, flush, file
<1>19. CASE Boot
  BY <1>19 DEF LogInv, LogTyped, Phases, Boot, MemoryIsGone, OpenResults, Running, Silent, queue, page, flush, file
<1>20. CASE UNCHANGED vars
  BY <1>20 DEF LogInv, LogTyped, Phases, Running, Silent, queue, page, flush, file, vars
<1>. QED BY <1>1, <1>2, <1>3, <1>4, <1>5, <1>6, <1>7, <1>8, <1>9, <1>10, <1>11, <1>12, <1>13, <1>14, <1>15, <1>16, <1>17, <1>18, <1>19, <1>20 DEF Next, Writer, Page, Driver

\* The page.
LEMMA BadgeStep == LogInv /\ [Next]_vars => BadgeFollows'
<1> SUFFICES ASSUME LogInv, [Next]_vars PROVE BadgeFollows'
  OBVIOUS
<1>1. ASSUME NEW t \in Loggers, NEW level \in Levels, HandleMessage(t, level) PROVE BadgeFollows'
  BY <1>1 DEF LogInv, LogTyped, BadgeFollows, Phases, HandleMessage, Running, Silent, queue, page, flush, file
<1>2. ASSUME NEW t \in Loggers, AppendEntry(t) PROVE BadgeFollows'
  BY <1>2 DEF LogInv, LogTyped, BadgeFollows, Phases, AppendEntry, Overflows, Running, Silent, queue, page, flush, file
<1>3. ASSUME NEW t \in Loggers, CountNew(t) PROVE BadgeFollows'
  BY <1>3 DEF LogInv, LogTyped, BadgeFollows, Phases, CountNew, Running, Silent, queue, page, flush, file
<1>4. CASE Tick
  BY <1>4 DEF LogInv, LogTyped, BadgeFollows, Phases, Tick, TakeQueue, HasWork, AfterFlush, Running, Silent, queue, page, flush, file
<1>5. CASE Quit
  BY <1>5 DEF LogInv, LogTyped, BadgeFollows, Phases, Quit, TakeQueue, HasWork, AfterFlush, Running, Silent, queue, page, flush, file
<1>6. CASE WriteLines
  BY <1>6 DEF LogInv, LogTyped, BadgeFollows, Phases, WriteLines, WriteTracked, Running, Silent, queue, page, flush, file
<1>7. CASE WriteNote
  BY <1>7 DEF LogInv, LogTyped, BadgeFollows, Phases, WriteNote, WriteTracked, Running, Silent, queue, page, flush, file
<1>8. CASE Flush
  BY <1>8 DEF LogInv, LogTyped, BadgeFollows, Phases, Flush, AfterFlush, Running, Silent, queue, page, flush, file
<1>9. CASE RemoveRotated
  BY <1>9 DEF LogInv, LogTyped, BadgeFollows, Phases, RemoveRotated, Running, Silent, queue, page, flush, file
<1>10. CASE RenameLog
  BY <1>10 DEF LogInv, LogTyped, BadgeFollows, Phases, RenameLog, Running, Silent, queue, page, flush, file
<1>11. CASE ReopenLog
  BY <1>11 DEF LogInv, LogTyped, BadgeFollows, Phases, ReopenLog, AfterFlush, OpenResults, BytesAfterRotation, Running, Silent, queue, page, flush, file
<1>12. CASE NotifyNew
  BY <1>12 DEF LogInv, LogTyped, BadgeFollows, Phases, NotifyNew, Running, Silent, queue, page, flush, file
<1>13. CASE ShowBadge
  BY <1>13 DEF LogInv, LogTyped, BadgeFollows, Phases, ShowBadge, Running, Silent, queue, page, flush, file
<1>14. CASE ClearNew
  BY <1>14 DEF LogInv, LogTyped, BadgeFollows, Phases, ClearNew, NotifiedAfterRefresh, Running, Silent, queue, page, flush, file
<1>15. CASE RefreshAfterSwitch
  BY <1>15 DEF LogInv, LogTyped, BadgeFollows, Phases, RefreshAfterSwitch, TakeSnapshot, Running, Silent, queue, page, flush, file
<1>16. CASE Refresh
  BY <1>16 DEF LogInv, LogTyped, BadgeFollows, Phases, Refresh, Tap, TakeSnapshot, Running, Silent, queue, page, flush, file
<1>17. ASSUME NEW level \in Levels, SetFilterLevel(level) PROVE BadgeFollows'
  BY <1>17 DEF LogInv, LogTyped, BadgeFollows, Phases, SetFilterLevel, Tap, Running, Silent, queue, page, flush, file
<1>18. CASE Crash
  BY <1>18 DEF LogInv, LogTyped, BadgeFollows, Phases, Crash, MemoryIsGone, Running, Silent, queue, page, flush, file
<1>19. CASE Boot
  BY <1>19 DEF LogInv, LogTyped, BadgeFollows, Phases, Boot, MemoryIsGone, OpenResults, Running, Silent, queue, page, flush, file
<1>20. CASE UNCHANGED vars
  BY <1>20 DEF LogInv, LogTyped, BadgeFollows, Phases, Running, Silent, queue, page, flush, file, vars
<1>. QED BY <1>1, <1>2, <1>3, <1>4, <1>5, <1>6, <1>7, <1>8, <1>9, <1>10, <1>11, <1>12, <1>13, <1>14, <1>15, <1>16, <1>17, <1>18, <1>19, <1>20 DEF Next, Writer, Page, Driver

\* Every message stays accounted for.
LEMMA CountedStep == LogInv /\ [Next]_vars => Counted'
<1> SUFFICES ASSUME LogInv, [Next]_vars PROVE Counted'
  OBVIOUS
<1>0. /\ Len(writes) \in Nat /\ Len(pendingWrites) \in Nat /\ Len(<<>>) = 0
  BY LenProperties, EmptySeq DEF LogInv, LogTyped
<1>1. ASSUME NEW t \in Loggers, NEW level \in Levels, HandleMessage(t, level) PROVE Counted'
  BY <1>1, <1>0 DEF LogInv, LogTyped, Counted, Phases, HandleMessage, Running, Silent, queue, page, flush, file
<1>2. ASSUME NEW t \in Loggers, AppendEntry(t) PROVE Counted'
  <2>1. calls[t].level \in Levels /\ Entry(calls[t].level) \in Entries
    BY <1>2 DEF LogInv, LogTyped, Calls, Entry, Entries
  <2>2. Len(Append(pendingWrites, Entry(calls[t].level))) = Len(pendingWrites) + 1
    BY <2>1, AppendProperties DEF LogInv, LogTyped
  <2>3. /\ messages' = messages + 1 /\ settled' = settled /\ writes' = writes /\ dropped' = dropped
        /\ \/ pendingWrites' = pendingWrites /\ droppedWrites' = droppedWrites + 1
           \/ /\ pendingWrites' = Append(pendingWrites, Entry(calls[t].level))
              /\ droppedWrites' = droppedWrites
    BY <1>2 DEF AppendEntry, flush
  <2>. QED BY <1>0, <2>2, <2>3 DEF LogInv, LogTyped, Counted
<1>3. ASSUME NEW t \in Loggers, CountNew(t) PROVE Counted'
  BY <1>3, <1>0 DEF LogInv, LogTyped, Counted, Phases, CountNew, Running, Silent, queue, page, flush, file
<1>4. CASE Tick
  BY <1>4, <1>0 DEF LogInv, LogTyped, Counted, Phases, Tick, TakeQueue, HasWork, AfterFlush, Running, Silent, queue, page, flush, file
<1>5. CASE Quit
  BY <1>5, <1>0 DEF LogInv, LogTyped, Counted, Phases, Quit, TakeQueue, HasWork, AfterFlush, Running, Silent, queue, page, flush, file
<1>6. CASE WriteLines
  BY <1>6, <1>0 DEF LogInv, LogTyped, Counted, Phases, WriteLines, WriteTracked, Running, Silent, queue, page, flush, file
<1>7. CASE WriteNote
  BY <1>7, <1>0 DEF LogInv, LogTyped, Counted, Phases, WriteNote, WriteTracked, Running, Silent, queue, page, flush, file
<1>8. CASE Flush
  BY <1>8, <1>0 DEF LogInv, LogTyped, Counted, Phases, Flush, AfterFlush, Running, Silent, queue, page, flush, file
<1>9. CASE RemoveRotated
  BY <1>9, <1>0 DEF LogInv, LogTyped, Counted, Phases, RemoveRotated, Running, Silent, queue, page, flush, file
<1>10. CASE RenameLog
  BY <1>10, <1>0 DEF LogInv, LogTyped, Counted, Phases, RenameLog, Running, Silent, queue, page, flush, file
<1>11. CASE ReopenLog
  BY <1>11, <1>0 DEF LogInv, LogTyped, Counted, Phases, ReopenLog, AfterFlush, OpenResults, BytesAfterRotation, Running, Silent, queue, page, flush, file
<1>12. CASE NotifyNew
  BY <1>12, <1>0 DEF LogInv, LogTyped, Counted, Phases, NotifyNew, Running, Silent, queue, page, flush, file
<1>13. CASE ShowBadge
  BY <1>13, <1>0 DEF LogInv, LogTyped, Counted, Phases, ShowBadge, Running, Silent, queue, page, flush, file
<1>14. CASE ClearNew
  BY <1>14, <1>0 DEF LogInv, LogTyped, Counted, Phases, ClearNew, NotifiedAfterRefresh, Running, Silent, queue, page, flush, file
<1>15. CASE RefreshAfterSwitch
  BY <1>15, <1>0 DEF LogInv, LogTyped, Counted, Phases, RefreshAfterSwitch, TakeSnapshot, Running, Silent, queue, page, flush, file
<1>16. CASE Refresh
  BY <1>16, <1>0 DEF LogInv, LogTyped, Counted, Phases, Refresh, Tap, TakeSnapshot, Running, Silent, queue, page, flush, file
<1>17. ASSUME NEW level \in Levels, SetFilterLevel(level) PROVE Counted'
  BY <1>17, <1>0 DEF LogInv, LogTyped, Counted, Phases, SetFilterLevel, Tap, Running, Silent, queue, page, flush, file
<1>18. CASE Crash
  BY <1>18, <1>0 DEF LogInv, LogTyped, Counted, Phases, Crash, MemoryIsGone, Running, Silent, queue, page, flush, file
<1>19. CASE Boot
  BY <1>19, <1>0 DEF LogInv, LogTyped, Counted, Phases, Boot, MemoryIsGone, OpenResults, Running, Silent, queue, page, flush, file
<1>20. CASE UNCHANGED vars
  BY <1>20, <1>0 DEF LogInv, LogTyped, Counted, Phases, Running, Silent, queue, page, flush, file, vars
<1>. QED BY <1>1, <1>2, <1>3, <1>4, <1>5, <1>6, <1>7, <1>8, <1>9, <1>10, <1>11, <1>12, <1>13, <1>14, <1>15, <1>16, <1>17, <1>18, <1>19, <1>20 DEF Next, Writer, Page, Driver

\* The note is a line like the others.
LEMMA NoteIsEntry == Note \in Entries /\ <<Note>> \in Seq(Entries) /\ Ids(<<Note>>) = {}
                     /\ Ascends(<<Note>>)
<1>1. Note \in Entries /\ Note.id = 0
  BY DEF Note, Entries
<1>. QED BY <1>1, OneEntry

\* What the file takes of some lines is in order.
LEMMA TakenInOrder ==
    ASSUME NEW lines \in Seq(Entries), NEW s \in Taken(lines)
    PROVE  /\ s \in Seq(Entries) /\ Ids(s) \subseteq Ids(lines)
           /\ Ascends(lines) => Ascends(s)
BY OnlyInOrder DEF Taken

\* What is rotated is a full file.
LEMMA RotatesStep == LogInv /\ [Next]_vars => RotatesFull'
<1> SUFFICES ASSUME LogInv, [Next]_vars PROVE RotatesFull'
  OBVIOUS
<1>0. /\ Len(log) \in Nat /\ Len(buffer) \in Nat /\ Len(<<>>) = 0
      /\ Len(log \o buffer) = Len(log) + Len(buffer)
  BY LenProperties, EmptySeq, ConcatProperties DEF LogInv, LogTyped
<1>1. ASSUME NEW t \in Loggers, NEW level \in Levels, HandleMessage(t, level) PROVE RotatesFull'
  BY <1>1, <1>0 DEF LogInv, LogTyped, RotatesFull, Phases, HandleMessage, Running, Silent, queue, page, flush, file
<1>2. ASSUME NEW t \in Loggers, AppendEntry(t) PROVE RotatesFull'
  BY <1>2, <1>0 DEF LogInv, LogTyped, RotatesFull, Phases, AppendEntry, Overflows, Running, Silent, queue, page, flush, file
<1>3. ASSUME NEW t \in Loggers, CountNew(t) PROVE RotatesFull'
  BY <1>3, <1>0 DEF LogInv, LogTyped, RotatesFull, Phases, CountNew, Running, Silent, queue, page, flush, file
<1>4. CASE Tick
  BY <1>4, <1>0 DEF LogInv, LogTyped, RotatesFull, Phases, Tick, TakeQueue, HasWork, AfterFlush, Running, Silent, queue, page, flush, file
<1>5. CASE Quit
  BY <1>5, <1>0 DEF LogInv, LogTyped, RotatesFull, Phases, Quit, TakeQueue, HasWork, AfterFlush, Running, Silent, queue, page, flush, file
<1>6. CASE WriteLines
  <2>1. PICK s \in Taken(writes) : buffer' = buffer \o s /\ logBytes' = logBytes + Len(s)
    BY <1>6 DEF WriteLines, WriteTracked
  <2>2. s \in Seq(Entries) /\ Len(s) \in Nat
    BY <2>1, TakenInOrder, NoteIsEntry, LenProperties DEF LogInv, LogTyped
  <2>3. Len(buffer') = Len(buffer) + Len(s)
    BY <2>1, <2>2, ConcatProperties DEF LogInv, LogTyped
  <2>4. main' \in {"note", "flush"} /\ main = "write" /\ isOpen' = isOpen /\ log' = log
    BY <1>6 DEF WriteLines
  <2>. QED BY <1>0, <2>1, <2>2, <2>3, <2>4 DEF LogInv, LogTyped, Phases, RotatesFull, Running
<1>7. CASE WriteNote
  <2>1. PICK s \in Taken(<<Note>>) : buffer' = buffer \o s /\ logBytes' = logBytes + Len(s)
    BY <1>7 DEF WriteNote, WriteTracked
  <2>2. s \in Seq(Entries) /\ Len(s) \in Nat
    BY <2>1, TakenInOrder, NoteIsEntry, LenProperties DEF LogInv, LogTyped
  <2>3. Len(buffer') = Len(buffer) + Len(s)
    BY <2>1, <2>2, ConcatProperties DEF LogInv, LogTyped
  <2>4. main' \in {"note", "flush"} /\ main = "note" /\ isOpen' = isOpen /\ log' = log
    BY <1>7 DEF WriteNote
  <2>. QED BY <1>0, <2>1, <2>2, <2>3, <2>4 DEF LogInv, LogTyped, Phases, RotatesFull, Running
<1>8. CASE Flush
  BY <1>8, <1>0 DEF LogInv, LogTyped, RotatesFull, Phases, Flush, AfterFlush, Running, Silent, queue, page, flush, file
<1>9. CASE RemoveRotated
  BY <1>9, <1>0 DEF LogInv, LogTyped, RotatesFull, Phases, RemoveRotated, Running, Silent, queue, page, flush, file
<1>10. CASE RenameLog
  BY <1>10, <1>0 DEF LogInv, LogTyped, RotatesFull, Phases, RenameLog, Running, Silent, queue, page, flush, file
<1>11. CASE ReopenLog
  BY <1>11, <1>0 DEF LogInv, LogTyped, RotatesFull, Phases, ReopenLog, AfterFlush, OpenResults, BytesAfterRotation, Running, Silent, queue, page, flush, file
<1>12. CASE NotifyNew
  BY <1>12, <1>0 DEF LogInv, LogTyped, RotatesFull, Phases, NotifyNew, Running, Silent, queue, page, flush, file
<1>13. CASE ShowBadge
  BY <1>13, <1>0 DEF LogInv, LogTyped, RotatesFull, Phases, ShowBadge, Running, Silent, queue, page, flush, file
<1>14. CASE ClearNew
  BY <1>14, <1>0 DEF LogInv, LogTyped, RotatesFull, Phases, ClearNew, NotifiedAfterRefresh, Running, Silent, queue, page, flush, file
<1>15. CASE RefreshAfterSwitch
  BY <1>15, <1>0 DEF LogInv, LogTyped, RotatesFull, Phases, RefreshAfterSwitch, TakeSnapshot, Running, Silent, queue, page, flush, file
<1>16. CASE Refresh
  BY <1>16, <1>0 DEF LogInv, LogTyped, RotatesFull, Phases, Refresh, Tap, TakeSnapshot, Running, Silent, queue, page, flush, file
<1>17. ASSUME NEW level \in Levels, SetFilterLevel(level) PROVE RotatesFull'
  BY <1>17, <1>0 DEF LogInv, LogTyped, RotatesFull, Phases, SetFilterLevel, Tap, Running, Silent, queue, page, flush, file
<1>18. CASE Crash
  BY <1>18, <1>0 DEF LogInv, LogTyped, RotatesFull, Phases, Crash, MemoryIsGone, Running, Silent, queue, page, flush, file
<1>19. CASE Boot
  BY <1>19, <1>0 DEF LogInv, LogTyped, RotatesFull, Phases, Boot, MemoryIsGone, OpenResults, Running, Silent, queue, page, flush, file
<1>20. CASE UNCHANGED vars
  BY <1>20, <1>0 DEF LogInv, LogTyped, RotatesFull, Phases, Running, Silent, queue, page, flush, file, vars
<1>. QED BY <1>1, <1>2, <1>3, <1>4, <1>5, <1>6, <1>7, <1>8, <1>9, <1>10, <1>11, <1>12, <1>13, <1>14, <1>15, <1>16, <1>17, <1>18, <1>19, <1>20 DEF Next, Writer, Page, Driver

\* A thread's message, in its level and in the queue or among the dropped.
LEMMA AppendEffect ==
    ASSUME LogInv, NEW t \in Loggers, AppendEntry(t)
    PROVE  \E level \in Levels :
              /\ Entry(level) \in Entries /\ Entry(level).id = messages + 1
              /\ messages' = messages + 1
              /\ buckets' = [buckets EXCEPT ![level] = PushCapped(@, Entry(level))]
              /\ \/ pendingWrites' = pendingWrites
                 \/ pendingWrites' = Append(pendingWrites, Entry(level))
              /\ UNCHANGED <<writes, buffer, log, rotated>>
<1>1. calls[t].level \in Levels /\ messages \in Nat
  BY DEF LogInv, LogTyped, Calls
<1>2. Entry(calls[t].level) \in Entries /\ Entry(calls[t].level).id = messages + 1
  BY <1>1 DEF Entry, Entries
<1>. QED BY <1>1, <1>2 DEF AppendEntry, flush, file

\* A level that gets the next message or a note stays in order.
LEMMA LevelInOrder ==
    ASSUME LogInv, NEW level \in Levels, NEW e \in Entries, e.id \in {0, messages + 1}
    PROVE  LET b == PushCapped(buckets[level], e)
           IN  b \in Seq(Entries) /\ Ascends(b) /\ UpTo(b, messages + 1)
<1>1. /\ buckets[level] \in Seq(Entries) /\ messages \in Nat
      /\ Ascends(buckets[level]) /\ UpTo(buckets[level], messages)
  BY DEF LogInv, LogTyped, BucketsInOrder
<1>2. \A x \in Ids(buckets[level]) : x \in Nat /\ x < messages + 1
  BY <1>1, Segment DEF UpTo
<1>3. e.id = 0 \/ \A x \in Ids(buckets[level]) : x < e.id
  BY <1>2
<1>4. /\ PushCapped(buckets[level], e) \in Seq(Entries)
      /\ Ids(PushCapped(buckets[level], e)) \subseteq Ids(buckets[level]) \cup ({e.id} \ {0})
      /\ Ascends(PushCapped(buckets[level], e))
  BY <1>1, <1>3, PushInOrder
<1>. QED BY <1>1, <1>2, <1>4 DEF UpTo

\* The files are in order.
LEMMA FilesInOrder ==
    ASSUME LogInv
    PROVE  Files \in Seq(Entries) /\ Ascends(Files) /\ UpTo(Files, messages)
<1>1. log \in Seq(Entries) /\ rotated \in Seq(Entries)
  BY DEF LogInv, LogTyped
<1>2. Ascends(rotated) /\ Ascends(log) /\ Before(rotated, log)
      /\ UpTo(rotated, messages) /\ UpTo(log, messages)
  BY DEF LogInv, InOrder
<1>3. Files \in Seq(Entries) /\ Ids(Files) = Ids(rotated) \cup Ids(log)
  BY <1>1, ConcatProperties, IdsOfConcat DEF Files
<1>. QED BY <1>1, <1>2, <1>3, AscendsConcat DEF Files, UpTo

\* What the constructor reads back is in order.
LEMMA LoadInOrder ==
    ASSUME LogInv
    PROVE  /\ LoadPersisted \in [Levels -> Seq(Entries)]
           /\ \A level \in Levels : /\ Ascends(LoadPersisted[level])
                                    /\ UpTo(LoadPersisted[level], messages)
<1>1. Files \in Seq(Entries) /\ Ascends(Files) /\ UpTo(Files, messages)
  BY FilesInOrder
<1> DEFINE kept(level) == {i \in DOMAIN Files : Files[i].level = level}
           b(level) == Newest(Capacity, Only(Files, kept(level)))
<1>2. ASSUME NEW level \in Levels
      PROVE  b(level) \in Seq(Entries) /\ Ascends(b(level)) /\ UpTo(b(level), messages)
  <2>1. kept(level) \in SUBSET DOMAIN Files
    OBVIOUS
  <2> HIDE DEF kept
  <2>2. /\ Only(Files, kept(level)) \in Seq(Entries) /\ Ascends(Only(Files, kept(level)))
        /\ Ids(Only(Files, kept(level))) \subseteq Ids(Files)
    BY <1>1, <2>1, OnlyInOrder
  <2> DEFINE o == Only(Files, kept(level))
  <2>3. o \in Seq(Entries) /\ Ascends(o) /\ Ids(o) \subseteq Ids(Files)
    BY <2>2
  <2> HIDE DEF o
  <2>4. /\ Newest(Capacity, o) \in Seq(Entries) /\ Ascends(Newest(Capacity, o))
        /\ Ids(Newest(Capacity, o)) \subseteq Ids(o)
    BY <2>3, NewestInOrder
  <2>. QED BY <1>1, <2>3, <2>4 DEF o, UpTo
<1>3. LoadPersisted = [level \in Levels |-> b(level)]
  BY DEF LoadPersisted
<1> HIDE DEF b
<1>. QED BY <1>2, <1>3

\* The entries of each level.
LEMMA BucketsStep == LogInv /\ [Next]_vars => BucketsInOrder'
<1> SUFFICES ASSUME LogInv, [Next]_vars PROVE BucketsInOrder'
  OBVIOUS
<1>0. /\ BucketsInOrder /\ messages \in Nat /\ buckets \in [Levels -> Seq(Entries)]
      /\ \A level \in Levels : Ids(buckets[level]) \subseteq Nat
  BY Segment DEF LogInv, LogTyped
<1>1. ASSUME NEW t \in Loggers, NEW level \in Levels, HandleMessage(t, level) PROVE BucketsInOrder'
  BY <1>0, <1>1 DEF HandleMessage, BucketsInOrder
<1>2. ASSUME NEW t \in Loggers, AppendEntry(t) PROVE BucketsInOrder'
  <2>1. PICK level \in Levels :
           /\ Entry(level) \in Entries /\ Entry(level).id = messages + 1
           /\ messages' = messages + 1
           /\ buckets' = [buckets EXCEPT ![level] = PushCapped(@, Entry(level))]
    BY <1>2, AppendEffect
  <2>2. LET b == PushCapped(buckets[level], Entry(level))
        IN  b \in Seq(Entries) /\ Ascends(b) /\ UpTo(b, messages + 1)
    BY <2>1, LevelInOrder
  <2>. QED BY <1>0, <2>1, <2>2 DEF BucketsInOrder, UpTo
<1>3. ASSUME NEW t \in Loggers, CountNew(t) PROVE BucketsInOrder'
  BY <1>0, <1>3 DEF CountNew, BucketsInOrder
<1>4. CASE Tick
  BY <1>0, <1>4 DEF Tick, TakeQueue, HasWork, AfterFlush, BucketsInOrder
<1>5. CASE Quit
  BY <1>0, <1>5 DEF Quit, TakeQueue, HasWork, AfterFlush, BucketsInOrder
<1>6. CASE WriteLines
  <2>1. LET b == PushCapped(buckets["warn"], Note)
        IN  b \in Seq(Entries) /\ Ascends(b) /\ UpTo(b, messages)
    <3>1. /\ Ascends(buckets["warn"]) /\ UpTo(buckets["warn"], messages)
          /\ buckets["warn"] \in Seq(Entries)
      BY <1>0 DEF BucketsInOrder
    <3>2. Note.id = 0
      BY DEF Note
    <3>. QED BY <3>1, <3>2, NoteIsEntry, PushInOrder DEF UpTo
  <2>2. /\ messages' = messages
        /\ \/ buckets' = [buckets EXCEPT !["warn"] = PushCapped(@, Note)]
           \/ buckets' = buckets
    BY <1>6 DEF WriteLines
  <2>. QED BY <1>0, <2>1, <2>2 DEF BucketsInOrder
<1>7. CASE WriteNote
  BY <1>0, <1>7 DEF WriteNote, WriteTracked, BucketsInOrder
<1>8. CASE Flush
  BY <1>0, <1>8 DEF Flush, AfterFlush, BucketsInOrder
<1>9. CASE RemoveRotated
  BY <1>0, <1>9 DEF RemoveRotated, BucketsInOrder
<1>10. CASE RenameLog
  BY <1>0, <1>10 DEF RenameLog, BucketsInOrder
<1>11. CASE ReopenLog
  BY <1>0, <1>11 DEF ReopenLog, AfterFlush, OpenResults, BytesAfterRotation, BucketsInOrder
<1>12. CASE NotifyNew
  BY <1>0, <1>12 DEF NotifyNew, BucketsInOrder
<1>13. CASE ShowBadge
  BY <1>0, <1>13 DEF ShowBadge, BucketsInOrder
<1>14. CASE ClearNew
  BY <1>0, <1>14 DEF ClearNew, NotifiedAfterRefresh, BucketsInOrder
<1>15. CASE RefreshAfterSwitch
  BY <1>0, <1>15 DEF RefreshAfterSwitch, TakeSnapshot, BucketsInOrder
<1>16. CASE Refresh
  BY <1>0, <1>16 DEF Refresh, Tap, TakeSnapshot, BucketsInOrder
<1>17. ASSUME NEW level \in Levels, SetFilterLevel(level) PROVE BucketsInOrder'
  BY <1>0, <1>17 DEF SetFilterLevel, Tap, BucketsInOrder
<1>18. CASE Crash
  BY <1>0, <1>18 DEF Crash, MemoryIsGone, BucketsInOrder
<1>19. CASE Boot
  BY <1>19, LoadInOrder DEF Boot, BucketsInOrder
<1>20. CASE UNCHANGED vars
  BY <1>0, <1>20 DEF vars, BucketsInOrder
<1>. QED BY <1>1, <1>2, <1>3, <1>4, <1>5, <1>6, <1>7, <1>8, <1>9, <1>10, <1>11, <1>12, <1>13, <1>14, <1>15, <1>16, <1>17, <1>18, <1>19, <1>20 DEF Next, Writer, Page, Driver

\* The types.
LEMMA TypedStep == LogInv /\ [Next]_vars => LogTyped'
<1> SUFFICES ASSUME LogInv, [Next]_vars PROVE LogTyped'
  OBVIOUS
<1>0. /\ "info" \in Levels /\ <<>> \in Seq(Entries) /\ Len(log) \in Nat
      /\ log \o buffer \in Seq(Entries)
  BY EmptySeq, LenProperties, ConcatProperties DEF LogInv, LogTyped
<1>1. ASSUME NEW t \in Loggers, NEW level \in Levels, HandleMessage(t, level) PROVE LogTyped'
  BY <1>0, <1>1 DEF LogInv, LogTyped, Stages, Calls, HandleMessage, Running, Silent, queue, page, flush, file
<1>2. ASSUME NEW t \in Loggers, AppendEntry(t) PROVE LogTyped'
  <2>1. PICK level \in Levels :
           /\ Entry(level) \in Entries /\ Entry(level).id = messages + 1
           /\ messages' = messages + 1
           /\ buckets' = [buckets EXCEPT ![level] = PushCapped(@, Entry(level))]
           /\ \/ pendingWrites' = pendingWrites
              \/ pendingWrites' = Append(pendingWrites, Entry(level))
    BY <1>2, AppendEffect
  <2>2. buckets' \in [Levels -> Seq(Entries)]
    BY <2>1, LevelInOrder DEF LogInv, LogTyped
  <2>3. pendingWrites' \in Seq(Entries) /\ messages' \in Nat
    <3>1. pendingWrites \in Seq(Entries) /\ messages \in Nat
      BY DEF LogInv, LogTyped
    <3>. QED BY <2>1, <3>1, AppendProperties
  <2>4. calls' \in [Loggers -> Calls]
    BY <1>2 DEF LogInv, LogTyped, AppendEntry, Calls, Silent
  <2>5. \/ droppedWrites' = droppedWrites + 1 /\ writeQueueFull' = TRUE
        \/ droppedWrites' = droppedWrites /\ writeQueueFull' = writeQueueFull
    BY <1>2 DEF AppendEntry
  <2>6. droppedWrites' \in Nat /\ writeQueueFull' \in BOOLEAN
    <3>1. droppedWrites \in Nat /\ writeQueueFull \in BOOLEAN
      BY DEF LogInv, LogTyped
    <3>2. droppedWrites' \in Nat
      BY <2>5, <3>1
    <3>3. writeQueueFull' \in BOOLEAN
      BY <2>5, <3>1, Zenon
    <3>. QED BY <3>2, <3>3
  <2>7. UNCHANGED <<filterLevel, newSinceRefresh, main, flush, page, file, settled>>
    BY <1>2 DEF AppendEntry
  <2>. QED BY <2>2, <2>3, <2>4, <2>6, <2>7 DEF LogInv, LogTyped, flush, page, file
<1>3. ASSUME NEW t \in Loggers, CountNew(t) PROVE LogTyped'
  BY <1>0, <1>3 DEF LogInv, LogTyped, Stages, Calls, CountNew, Running, Silent, queue, page, flush, file
<1>4. CASE Tick
  <2>1. CASE HasWork
    <3>1. pendingWrites' = <<>> /\ writes' = pendingWrites
      BY <1>4, <2>1 DEF Tick, TakeQueue
    <3>2. pendingWrites' \in Seq(Entries) /\ writes' \in Seq(Entries)
      BY <1>0, <3>1 DEF LogInv, LogTyped
    <3>3. droppedWrites' = 0 /\ dropped' = droppedWrites /\ writeQueueFull' = FALSE
          /\ main' = "write" /\ quitting' \in BOOLEAN
      BY <1>4, <2>1 DEF Tick, TakeQueue, LogInv, LogTyped
    <3>. QED BY <1>4, <3>2, <3>3 DEF LogInv, LogTyped, Tick, Stages, page, file
  <2>2. CASE ~HasWork
    BY <1>0, <1>4, <2>2 DEF LogInv, LogTyped, Tick, TakeQueue, AfterFlush, Stages, queue, page, file
  <2>. QED BY <2>1, <2>2
<1>5. CASE Quit
  <2>1. CASE HasWork
    <3>1. pendingWrites' = <<>> /\ writes' = pendingWrites
      BY <1>5, <2>1 DEF Quit, TakeQueue
    <3>2. pendingWrites' \in Seq(Entries) /\ writes' \in Seq(Entries)
      BY <1>0, <3>1 DEF LogInv, LogTyped
    <3>3. droppedWrites' = 0 /\ dropped' = droppedWrites /\ writeQueueFull' = FALSE
          /\ main' = "write" /\ quitting' \in BOOLEAN
      BY <1>5, <2>1 DEF Quit, TakeQueue, LogInv, LogTyped
    <3>. QED BY <1>5, <3>2, <3>3 DEF LogInv, LogTyped, Quit, Stages, page, file
  <2>2. CASE ~HasWork
    BY <1>0, <1>5, <2>2 DEF LogInv, LogTyped, Quit, TakeQueue, AfterFlush, Stages, queue, page, file
  <2>. QED BY <2>1, <2>2
<1>6. CASE WriteLines
  <2>1. PICK s \in Taken(writes) : buffer' = buffer \o s /\ logBytes' = logBytes + Len(s)
    BY <1>6 DEF WriteLines, WriteTracked
  <2>2. s \in Seq(Entries) /\ Len(s) \in Nat
    BY <2>1, TakenInOrder, NoteIsEntry, LenProperties DEF LogInv, LogTyped
  <2>3. buffer' \in Seq(Entries) /\ logBytes' \in Nat
    BY <2>1, <2>2, ConcatProperties DEF LogInv, LogTyped
  <2>4. PushCapped(buckets["warn"], Note) \in Seq(Entries)
    <3>1. Note.id = 0
      BY DEF Note
    <3>. QED BY <3>1, NoteIsEntry, LevelInOrder
  <2>5. buckets' \in [Levels -> Seq(Entries)]
    BY <1>6, <2>4 DEF LogInv, LogTyped, WriteLines
  <2>. QED BY <1>0, <1>6, <2>3, <2>5 DEF LogInv, LogTyped, WriteLines, Stages, queue, page
<1>7. CASE WriteNote
  <2>1. PICK s \in Taken(<<Note>>) : buffer' = buffer \o s /\ logBytes' = logBytes + Len(s)
    BY <1>7 DEF WriteNote, WriteTracked
  <2>2. s \in Seq(Entries) /\ Len(s) \in Nat
    BY <2>1, TakenInOrder, NoteIsEntry, LenProperties DEF LogInv, LogTyped
  <2>3. buffer' \in Seq(Entries) /\ logBytes' \in Nat
    BY <2>1, <2>2, ConcatProperties DEF LogInv, LogTyped
  <2>. QED BY <1>0, <1>7, <2>3 DEF LogInv, LogTyped, WriteNote, Stages, queue, page
<1>8. CASE Flush
  BY <1>0, <1>8 DEF LogInv, LogTyped, Stages, Calls, Flush, AfterFlush, Running, Silent, queue, page, flush, file
<1>9. CASE RemoveRotated
  BY <1>0, <1>9 DEF LogInv, LogTyped, Stages, Calls, RemoveRotated, Running, Silent, queue, page, flush, file
<1>10. CASE RenameLog
  BY <1>0, <1>10 DEF LogInv, LogTyped, Stages, Calls, RenameLog, Running, Silent, queue, page, flush, file
<1>11. CASE ReopenLog
  BY <1>0, <1>11 DEF LogInv, LogTyped, Stages, Calls, ReopenLog, AfterFlush, OpenResults, BytesAfterRotation, Running, Silent, queue, page, flush, file
<1>12. CASE NotifyNew
  BY <1>0, <1>12 DEF LogInv, LogTyped, Stages, Calls, NotifyNew, Running, Silent, queue, page, flush, file
<1>13. CASE ShowBadge
  BY <1>0, <1>13 DEF LogInv, LogTyped, Stages, Calls, ShowBadge, Running, Silent, queue, page, flush, file
<1>14. CASE ClearNew
  BY <1>0, <1>14 DEF LogInv, LogTyped, Stages, Calls, ClearNew, NotifiedAfterRefresh, Running, Silent, queue, page, flush, file
<1>15. CASE RefreshAfterSwitch
  BY <1>0, <1>15 DEF LogInv, LogTyped, Stages, Calls, RefreshAfterSwitch, TakeSnapshot, Running, Silent, queue, page, flush, file
<1>16. CASE Refresh
  BY <1>0, <1>16 DEF LogInv, LogTyped, Stages, Calls, Refresh, Tap, TakeSnapshot, Running, Silent, queue, page, flush, file
<1>17. ASSUME NEW level \in Levels, SetFilterLevel(level) PROVE LogTyped'
  BY <1>0, <1>17 DEF LogInv, LogTyped, Stages, Calls, SetFilterLevel, Tap, Running, Silent, queue, page, flush, file
<1>18. CASE Crash
  <2>1. PICK n \in 0 .. Len(buffer) : log' = log \o SubSeq(buffer, 1, n)
    BY <1>18 DEF Crash
  <2>2. log' \in Seq(Entries)
    BY <2>1, RunInOrder, ConcatProperties DEF LogInv, LogTyped
  <2>. QED BY <1>0, <1>18, <2>2 DEF LogInv, LogTyped, Crash, MemoryIsGone, Stages, Silent, Calls
<1>19. CASE Boot
  <2>1. LoadPersisted \in [Levels -> Seq(Entries)]
    BY LoadInOrder
  <2>. QED BY <1>0, <1>19, <2>1 DEF LogInv, LogTyped, Boot, MemoryIsGone, OpenResults, Stages, Silent, Calls
<1>20. CASE UNCHANGED vars
  BY <1>0, <1>20 DEF LogInv, LogTyped, Stages, Calls, Running, Silent, queue, page, flush, file, vars
<1>. QED BY <1>1, <1>2, <1>3, <1>4, <1>5, <1>6, <1>7, <1>8, <1>9, <1>10, <1>11, <1>12, <1>13, <1>14, <1>15, <1>16, <1>17, <1>18, <1>19, <1>20 DEF Next, Writer, Page, Driver

\* The segments.
LEMMA OrderStep == LogInv /\ [Next]_vars => InOrder'
<1> SUFFICES ASSUME LogInv, [Next]_vars PROVE InOrder'
  OBVIOUS
<1>0. /\ InOrder /\ messages \in Nat
      /\ pendingWrites \in Seq(Entries) /\ writes \in Seq(Entries)
      /\ buffer \in Seq(Entries) /\ log \in Seq(Entries) /\ rotated \in Seq(Entries)
      /\ Ids(pendingWrites) \subseteq Nat /\ Ids(writes) \subseteq Nat
      /\ Ids(buffer) \subseteq Nat /\ Ids(log) \subseteq Nat /\ Ids(rotated) \subseteq Nat
  BY Segment DEF LogInv, LogTyped
<1>1. ASSUME NEW t \in Loggers, NEW level \in Levels, HandleMessage(t, level) PROVE InOrder'
  BY <1>0, <1>1 DEF InOrder, HandleMessage, queue, flush, file
<1>2. ASSUME NEW t \in Loggers, AppendEntry(t) PROVE InOrder'
  <2>1. PICK level \in Levels :
           /\ Entry(level) \in Entries /\ Entry(level).id = messages + 1
           /\ messages' = messages + 1
           /\ \/ pendingWrites' = pendingWrites
              \/ pendingWrites' = Append(pendingWrites, Entry(level))
           /\ UNCHANGED <<writes, buffer, log, rotated>>
    BY <1>2, AppendEffect
  <2>2. \A x \in Ids(pendingWrites) : x < messages + 1
    BY <1>0 DEF InOrder, UpTo
  <2>3. /\ Ids(pendingWrites') \subseteq Ids(pendingWrites) \cup {messages + 1}
        /\ Ascends(pendingWrites')
    <3> DEFINE e == Entry(level)
    <3>1. e \in Entries /\ e.id = messages + 1 /\ \A x \in Ids(pendingWrites) : x < e.id
      BY <2>1, <2>2
    <3> HIDE DEF e
    <3>2. /\ Ids(Append(pendingWrites, e)) = Ids(pendingWrites) \cup ({e.id} \ {0})
          /\ Ascends(Append(pendingWrites, e))
      BY <1>0, <3>1, AppendInOrder DEF InOrder
    <3>3. pendingWrites' = pendingWrites \/ pendingWrites' = Append(pendingWrites, e)
      BY <2>1 DEF e
    <3>. QED BY <1>0, <3>1, <3>2, <3>3 DEF InOrder
  <2>4. \A s : UpTo(s, messages) /\ Ids(s) \subseteq Nat =>
           UpTo(s, messages + 1) /\ \A x \in Ids(s) : x < messages + 1
    BY <1>0 DEF UpTo
  <2>5. UpTo(pendingWrites', messages + 1)
    BY <1>0, <2>2, <2>3 DEF UpTo
  <2>6. \A s : Before(s, pendingWrites) /\ UpTo(s, messages) /\ Ids(s) \subseteq Nat =>
           Before(s, pendingWrites')
    BY <2>3, <2>4 DEF Before
  <2>. QED BY <1>0, <2>1, <2>3, <2>4, <2>5, <2>6 DEF InOrder
<1>3. ASSUME NEW t \in Loggers, CountNew(t) PROVE InOrder'
  BY <1>0, <1>3 DEF InOrder, CountNew, queue, flush, file
<1>4. CASE Tick
  <2>1. CASE HasWork
    <3>1. /\ pendingWrites' = <<>> /\ writes' = pendingWrites
          /\ UNCHANGED <<buffer, log, rotated, messages>>
      BY <1>4, <2>1 DEF Tick, TakeQueue, file
    <3>. QED BY <1>0, <3>1, NoIds DEF InOrder
  <2>2. CASE ~HasWork
    BY <1>0, <1>4, <2>2 DEF InOrder, Tick, TakeQueue, queue, file
  <2>. QED BY <2>1, <2>2
<1>5. CASE Quit
  <2>1. CASE HasWork
    <3>1. /\ pendingWrites' = <<>> /\ writes' = pendingWrites
          /\ UNCHANGED <<buffer, log, rotated, messages>>
      BY <1>5, <2>1 DEF Quit, TakeQueue, file
    <3>. QED BY <1>0, <3>1, NoIds DEF InOrder
  <2>2. CASE ~HasWork
    BY <1>0, <1>5, <2>2 DEF InOrder, Quit, TakeQueue, queue, file
  <2>. QED BY <2>1, <2>2
<1>6. CASE WriteLines
  <2>1. PICK s \in Taken(writes) : buffer' = buffer \o s
    BY <1>6 DEF WriteLines, WriteTracked
  <2>2. s \in Seq(Entries) /\ Ids(s) \subseteq Ids(writes) /\ Ascends(s)
    BY <1>0, <2>1, TakenInOrder DEF InOrder
  <2>3. Ids(buffer') = Ids(buffer) \cup Ids(s) /\ Ascends(buffer')
    <3>1. Before(buffer, s)
      BY <1>0, <2>2 DEF InOrder, Before
    <3>. QED BY <1>0, <2>1, <2>2, <3>1, IdsOfConcat, AscendsConcat DEF InOrder
  <2>4. writes' = <<>> /\ UNCHANGED <<pendingWrites, log, rotated, messages>>
    BY <1>6 DEF WriteLines, queue
  <2>5. /\ Before(rotated, buffer') /\ Before(log, buffer') /\ Before(buffer', pendingWrites)
        /\ UpTo(buffer', messages)
    BY <1>0, <2>2, <2>3 DEF InOrder, Before, UpTo
  <2>. QED BY <1>0, <2>3, <2>4, <2>5, NoIds DEF InOrder
<1>7. CASE WriteNote
  <2>1. PICK s \in Taken(<<Note>>) : buffer' = buffer \o s
    BY <1>7 DEF WriteNote, WriteTracked
  <2>2. s \in Seq(Entries) /\ Ids(s) = {} /\ Ascends(s)
    BY <2>1, NoteIsEntry, TakenInOrder
  <2>3. Ids(buffer') = Ids(buffer) /\ Ascends(buffer')
    <3>1. Before(buffer, s)
      BY <2>2 DEF Before
    <3>. QED BY <1>0, <2>1, <2>2, <3>1, IdsOfConcat, AscendsConcat DEF InOrder
  <2>4. UNCHANGED <<writes, pendingWrites, log, rotated, messages>>
    BY <1>7 DEF WriteNote, queue
  <2>5. /\ Before(rotated, buffer') /\ Before(log, buffer') /\ Before(buffer', writes)
        /\ Before(buffer', pendingWrites) /\ UpTo(buffer', messages)
    BY <1>0, <2>3 DEF InOrder, Before, UpTo
  <2>. QED BY <1>0, <2>3, <2>4, <2>5 DEF InOrder
<1>8. CASE Flush
  <2>1. log' = log \o buffer /\ buffer' = <<>>
        /\ UNCHANGED <<writes, pendingWrites, rotated, messages>>
    BY <1>8 DEF Flush, queue
  <2>2. Ids(log') = Ids(log) \cup Ids(buffer) /\ Ascends(log')
    BY <1>0, <2>1, IdsOfConcat, AscendsConcat DEF InOrder
  <2>3. /\ Before(rotated, log') /\ Before(log', writes) /\ Before(log', pendingWrites)
        /\ UpTo(log', messages)
    BY <1>0, <2>2 DEF InOrder, Before, UpTo
  <2>. QED BY <1>0, <2>1, <2>2, <2>3, NoIds DEF InOrder
<1>9. CASE RemoveRotated
  <2>1. rotated' \in {<<>>, rotated} /\ UNCHANGED <<writes, pendingWrites, buffer, log, messages>>
    BY <1>9 DEF RemoveRotated, queue, flush
  <2>. QED BY <1>0, <2>1, NoIds DEF InOrder
<1>10. CASE RenameLog
  <2>1. /\ UNCHANGED <<writes, pendingWrites, buffer, messages>>
        /\ \/ rotated' = log /\ log' = <<>>
           \/ UNCHANGED <<log, rotated>>
    BY <1>10 DEF RenameLog, queue, flush
  <2>. QED BY <1>0, <2>1, NoIds DEF InOrder
<1>11. CASE ReopenLog
  BY <1>0, <1>11 DEF InOrder, ReopenLog, queue, flush, file
<1>12. CASE NotifyNew
  BY <1>0, <1>12 DEF InOrder, NotifyNew, queue, flush, file
<1>13. CASE ShowBadge
  BY <1>0, <1>13 DEF InOrder, ShowBadge, queue, flush, file
<1>14. CASE ClearNew
  BY <1>0, <1>14 DEF InOrder, ClearNew, queue, flush, file
<1>15. CASE RefreshAfterSwitch
  BY <1>0, <1>15 DEF InOrder, RefreshAfterSwitch, TakeSnapshot, queue, flush, file
<1>16. CASE Refresh
  BY <1>0, <1>16 DEF InOrder, Refresh, TakeSnapshot, queue, flush, file
<1>17. ASSUME NEW level \in Levels, SetFilterLevel(level) PROVE InOrder'
  BY <1>0, <1>17 DEF InOrder, SetFilterLevel, queue, flush, file
<1>18. CASE Crash
  <2>0. PICK n \in 0 .. Len(buffer) : log' = log \o SubSeq(buffer, 1, n)
    BY <1>18 DEF Crash
  <2>1. /\ buffer' = <<>> /\ writes' = <<>> /\ pendingWrites' = <<>>
        /\ UNCHANGED <<rotated, messages>>
    BY <1>18 DEF Crash, MemoryIsGone
  <2>2. Ids(log') \subseteq Ids(log) \cup Ids(buffer) /\ Ascends(log')
    <3> DEFINE b == SubSeq(buffer, 1, n)
    <3>1. b \in Seq(Entries) /\ Ids(b) \subseteq Ids(buffer) /\ Ascends(b)
      BY <1>0, RunInOrder DEF InOrder
    <3> HIDE DEF b
    <3>2. Before(log, b)
      BY <1>0, <3>1 DEF InOrder, Before
    <3>3. Ids(log \o b) = Ids(log) \cup Ids(b) /\ Ascends(log \o b)
      BY <1>0, <3>1, <3>2, IdsOfConcat, AscendsConcat DEF InOrder
    <3>. QED BY <2>0, <3>1, <3>3 DEF b
  <2>3. /\ Before(rotated, log') /\ Before(log', writes) /\ Before(log', pendingWrites)
        /\ UpTo(log', messages)
    BY <1>0, <2>2 DEF InOrder, Before, UpTo
  <2>. QED BY <1>0, <2>1, <2>2, <2>3, NoIds DEF InOrder
<1>19. CASE Boot
  <2>1. /\ buffer' = <<>> /\ writes' = <<>> /\ pendingWrites' = <<>>
        /\ UNCHANGED <<log, rotated, messages>>
    BY <1>19 DEF Boot, MemoryIsGone
  <2>. QED BY <1>0, <2>1, NoIds DEF InOrder
<1>20. CASE UNCHANGED vars
  BY <1>0, <1>20 DEF InOrder, vars, queue, flush, file
<1>. QED BY <1>1, <1>2, <1>3, <1>4, <1>5, <1>6, <1>7, <1>8, <1>9, <1>10, <1>11, <1>12, <1>13, <1>14, <1>15, <1>16, <1>17, <1>18, <1>19, <1>20 DEF Next, Writer, Page, Driver

----------------------------------------------------------------------------
(* The theorems. *)

LEMMA LogInit == Init => LogInv
<1> SUFFICES ASSUME Init PROVE LogInv
  OBVIOUS
<1>1. "info" \in Levels /\ <<>> \in Seq(Entries) /\ Len(<<>>) = 0
  BY EmptySeq
<1>2. LogTyped
  BY <1>1 DEF Init, LogTyped, Calls, Silent, OpenResults, Stages
<1>3. Phases /\ Counted /\ BadgeFollows /\ RotatesFull
  BY <1>1 DEF Init, Phases, Counted, BadgeFollows, RotatesFull, Running
<1>4. InOrder /\ BucketsInOrder
  BY NoIds DEF Init, InOrder, BucketsInOrder
<1>. QED BY <1>2, <1>3, <1>4 DEF LogInv

\* The invariant, over every action: threads that log between any two steps of the
\* writer, failing writes, rotations that stop halfway, crashes and restarts.
THEOREM LogIsSound == Spec => []LogInv
<1>1. LogInv /\ [Next]_vars => LogInv'
  BY TypedStep, PhasesStep, CountedStep, BadgeStep, RotatesStep, OrderStep, BucketsStep
     DEF LogInv
<1>. QED BY <1>1, LogInit, PTL DEF Spec

\* No message is lost track of or counted twice (flushToDisk(), appendEntry()).
THEOREM LogAccounts == Spec => []AllAccountedFor
<1>1. LogInv => AllAccountedFor
  BY DEF LogInv, Counted, Phases, AllAccountedFor
<1>. QED BY <1>1, LogIsSound, PTL

\* The files, what is on its way there and each level keep the order of the messages.
THEOREM LogKeepsOrder == Spec => []OldestFirst
<1>1. ASSUME LogInv PROVE OldestFirst
  <2>1. /\ pendingWrites \in Seq(Entries) /\ writes \in Seq(Entries)
        /\ buffer \in Seq(Entries) /\ Files \in Seq(Entries) /\ Ascends(Files)
        /\ log \in Seq(Entries) /\ rotated \in Seq(Entries)
    BY <1>1, FilesInOrder DEF LogInv, LogTyped
  <2>2. Ids(Files) = Ids(rotated) \cup Ids(log)
    BY <2>1, IdsOfConcat DEF Files
  <2> DEFINE b == Files \o buffer
             w == b \o writes
  <2>3. b \in Seq(Entries) /\ Ids(b) = Ids(Files) \cup Ids(buffer) /\ Ascends(b)
    <3>1. Before(Files, buffer)
      BY <1>1, <2>2 DEF LogInv, InOrder, Before
    <3>. QED BY <1>1, <2>1, <3>1, ConcatProperties, IdsOfConcat, AscendsConcat
             DEF LogInv, InOrder
  <2> HIDE DEF b
  <2>4. w \in Seq(Entries) /\ Ids(w) = Ids(b) \cup Ids(writes) /\ Ascends(w)
    <3>1. Before(b, writes)
      BY <1>1, <2>2, <2>3 DEF LogInv, InOrder, Before
    <3>. QED BY <1>1, <2>1, <2>3, <3>1, ConcatProperties, IdsOfConcat, AscendsConcat
             DEF LogInv, InOrder
  <2> HIDE DEF w
  <2>5. Ascends(w \o pendingWrites)
    <3>1. Before(w, pendingWrites)
      BY <1>1, <2>2, <2>3, <2>4 DEF LogInv, InOrder, Before
    <3>. QED BY <1>1, <2>1, <2>4, <3>1, AscendsConcat DEF LogInv, InOrder
  <2>. QED BY <1>1, <2>5 DEF w, b, LogInv, BucketsInOrder, OldestFirst
<1>. QED BY <1>1, LogIsSound, PTL

\* When nothing is left to tell, the page shows the count (drainPending(), refresh()).
THEOREM LogBadgeCatchesUp == Spec => []BadgeCatchesUp
<1>1. LogInv => BadgeCatchesUp
  BY DEF LogInv, LogTyped, BadgeFollows, BadgeCatchesUp
<1>. QED BY <1>1, LogIsSound, PTL

\* A file that grows keeps its front, one that loses its front keeps its end.
LEMMA PrefixSuffix ==
    ASSUME NEW s \in Seq(Entries), NEW t \in Seq(Entries)
    PROVE  IsPrefix(s, s \o t) /\ IsSuffix(t, s \o t)
<1>1. /\ s \o t \in Seq(Entries) /\ Len(s \o t) = Len(s) + Len(t)
      /\ Len(s) \in Nat /\ Len(t) \in Nat
      /\ \A i \in 1 .. Len(s) + Len(t) :
            (s \o t)[i] = IF i <= Len(s) THEN s[i] ELSE t[i - Len(s)]
  BY ConcatProperties, LenProperties
<1>2. \A i \in 1 .. Len(s) : s[i] \in Entries /\ (s \o t)[i] = s[i]
  BY <1>1, Segment
<1>3. IsPrefix(s, s \o t)
  <2> DEFINE u == SubSeq(s, 1, Len(s))
             v == SubSeq(s \o t, 1, Len(s))
  <2>1. u \in Seq(Entries) /\ Len(u) = Len(s) /\ \A i \in 1 .. Len(s) : u[i] = s[i]
    BY <1>1, <1>2, SubSeqProperties
  <2>2. v \in Seq(Entries) /\ Len(v) = Len(s) /\ \A i \in 1 .. Len(s) : v[i] = s[i]
    BY <1>1, <1>2, SubSeqProperties
  <2> HIDE DEF u, v
  <2>3. u = v
    BY <2>1, <2>2, SeqEqual
  <2>. QED BY <1>1, <2>3 DEF IsPrefix, u, v
<1> DEFINE x == Reverse(t)
           y == Reverse(s \o t)
<1>4. /\ x \in Seq(Entries) /\ Len(x) = Len(t)
      /\ \A i \in 1 .. Len(t) : x[i] = t[Len(t) - i + 1]
  <2>1. x \in [1 .. Len(t) -> Entries] /\ \A i \in 1 .. Len(t) : x[i] = t[Len(t) - i + 1]
    BY <1>1, Segment DEF Reverse
  <2>. QED BY <1>1, <2>1, LenProperties
<1>5. /\ y \in Seq(Entries) /\ Len(y) = Len(s) + Len(t)
      /\ \A i \in 1 .. Len(t) : y[i] = t[Len(t) - i + 1]
  <2>1. y \in [1 .. Len(s) + Len(t) -> Entries]
    BY <1>1, Segment DEF Reverse
  <2>2. ASSUME NEW i \in 1 .. Len(t) PROVE y[i] = t[Len(t) - i + 1]
    <3>1. y[i] = (s \o t)[Len(s) + Len(t) - i + 1]
      BY <1>1 DEF Reverse
    <3>. QED BY <1>1, <3>1
  <2> DEFINE n == Len(s) + Len(t)
  <2>3. n \in Nat /\ y \in [1 .. n -> Entries]
    BY <1>1, <2>1
  <2> HIDE DEF n
  <2>4. y \in Seq(Entries) /\ Len(y) = n
    BY <2>3, LenProperties
  <2>. QED BY <2>2, <2>4 DEF n
<1> HIDE DEF x, y
<1>6. IsPrefix(x, y)
  <2> DEFINE u == SubSeq(x, 1, Len(x))
             v == SubSeq(y, 1, Len(x))
  <2>1. \A i \in 1 .. Len(t) : x[i] \in Entries /\ y[i] = x[i]
    BY <1>4, <1>5, Segment
  <2>2. u \in Seq(Entries) /\ Len(u) = Len(t) /\ \A i \in 1 .. Len(t) : u[i] = x[i]
    BY <1>1, <1>4, <2>1, SubSeqProperties
  <2>3. v \in Seq(Entries) /\ Len(v) = Len(t) /\ \A i \in 1 .. Len(t) : v[i] = x[i]
    BY <1>1, <1>4, <2>1, SubSeqProperties
  <2> HIDE DEF u, v
  <2>4. u = v
    BY <2>2, <2>3, SeqEqual
  <2>. QED BY <1>1, <1>4, <1>5, <2>4 DEF IsPrefix, u, v
<1>. QED BY <1>3, <1>6 DEF IsSuffix, x, y

\* Lines leave the files from the front only, and not before the newer file is full.
THEOREM LogKeepsRecent == Spec => KeepsRecent
<1> DEFINE Recent == Files' # Files =>
                        \/ IsPrefix(Files, Files')
                        \/ IsSuffix(Files', Files) /\ Len(Files') >= RotateAt
<1>1. ASSUME LogInv, Next PROVE Recent
  <2>0. /\ buffer \in Seq(Entries) /\ log \in Seq(Entries) /\ rotated \in Seq(Entries)
        /\ Files = rotated \o log /\ Files \in Seq(Entries) /\ Files' = rotated' \o log'
    BY <1>1, ConcatProperties DEF LogInv, LogTyped, Files
  <2>1. ASSUME NEW b \in Seq(Entries), log' = log \o b, rotated' = rotated PROVE Recent
    <3>1. Files' = Files \o b
      BY <2>0, <2>1, ConcatAssociative
    <3>. QED BY <2>0, <3>1, PrefixSuffix
  <2>2. CASE Flush
    BY <2>0, <2>1, <2>2 DEF Flush
  <2>3. CASE Crash
    <3>1. PICK n \in 0 .. Len(buffer) : log' = log \o SubSeq(buffer, 1, n)
      BY <2>3 DEF Crash
    <3>2. SubSeq(buffer, 1, n) \in Seq(Entries)
      BY <2>0, RunInOrder
    <3>. QED BY <2>1, <2>3, <3>1, <3>2 DEF Crash
  <2>4. CASE RemoveRotated
    <3>1. log' = log /\ rotated' \in {<<>>, rotated} /\ main = "remove"
      BY <2>4 DEF RemoveRotated
    <3>2. CASE rotated' = <<>>
      <4>1. Files' = log
        BY <2>0, <3>1, <3>2, ConcatEmptySeq
      <4>2. Len(log) >= RotateAt
        <5>1. Len(log) \in Nat /\ buffer = <<>> /\ Len(<<>>) = 0
          BY <1>1, <2>0, <3>1, LenProperties, EmptySeq DEF LogInv, RotatesFull
        <5>. QED BY <1>1, <3>1, <5>1 DEF LogInv, LogTyped, RotatesFull, Running
      <4>. QED BY <2>0, <4>1, <4>2, PrefixSuffix
    <3>. QED BY <2>0, <3>1, <3>2
  <2>5. CASE RenameLog
    <3>1. CASE rotated = <<>> /\ rotated' = log /\ log' = <<>>
      BY <2>0, <3>1, ConcatEmptySeq
    <3>. QED BY <2>0, <2>5, <3>1 DEF RenameLog
  <2>6. CASE UNCHANGED <<log, rotated>>
    BY <2>0, <2>6
  <2>. QED BY <1>1, <2>2, <2>3, <2>4, <2>5, <2>6
           DEF Next, Writer, Page, Driver, HandleMessage, AppendEntry, CountNew, Tick, Quit,
               WriteLines, WriteNote, ReopenLog, NotifyNew, ShowBadge, ClearNew,
               RefreshAfterSwitch, Refresh, TakeSnapshot, SetFilterLevel, Boot, file
<1>2. LogInv /\ [Next]_vars => [Recent]_vars
  BY <1>1
<1>. QED BY <1>2, LogIsSound, PTL DEF Spec, KeepsRecent

=============================================================================
