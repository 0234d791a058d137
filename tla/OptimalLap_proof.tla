--------------------------- MODULE OptimalLap_proof ---------------------------
(***************************************************************************)
(* Theorems about MCOptimalLap: the stitched lap is the best one, whatever *)
(* the number of sectors, of laps and of milliseconds.                     *)
(*                                                                         *)
(* Total is a recursive function, and the provers do no induction over it: *)
(* every fact about a sum is had from the least index where it would fail. *)
(***************************************************************************)
EXTENDS MCOptimalLap, FiniteSetTheorems, WellFoundedInduction, TLAPS

(* Sums. *)

LEMMA LeastNatural ==
    ASSUME NEW T \in SUBSET Nat, T # {}
    PROVE  \E x \in T : \A y \in T : x <= y
<1>1. \E x \in T : \A y \in T : ~(<<y, x>> \in OpToRel(<, Nat))
  BY NatLessThanWellFounded, WFMin
<1>2. PICK x \in T : \A y \in T : ~(<<y, x>> \in OpToRel(<, Nat))
  BY <1>1
<1>3. \A y \in T : ~(y < x)
  BY <1>2 DEF OpToRel
<1>. QED BY <1>3

\* Times that are the steps of w from 0 add up to where w ends.
LEMMA Telescope ==
    ASSUME NEW times, Len(times) \in Nat, NEW w \in [0..Len(times) -> Int], w[0] = 0,
           \A i \in 1..Len(times) : times[i] \in Int /\ w[i] = w[i - 1] + times[i]
    PROVE  Total(times) = w[Len(times)]
<1>. DEFINE N == Len(times)
            Sums(f) == f = [i \in 0..N |-> IF i = 0 THEN 0 ELSE f[i - 1] + times[i]]
            sum == CHOOSE f : Sums(f)
<1>1. Total(times) = sum[N]
  BY DEF Total
<1>. HIDE DEF N
<1>2. N \in Nat /\ N = Len(times)
  BY DEF N
<1>3. /\ w \in [0..N -> Int]
      /\ \A i \in 1..N : times[i] \in Int /\ w[i] = w[i - 1] + times[i]
  BY <1>2
<1>4. Sums(w)
  <2>1. \A i \in 0..N : w[i] = IF i = 0 THEN 0 ELSE w[i - 1] + times[i]
    BY <1>2, <1>3
  <2>. QED BY <1>3, <2>1
<1>5. Sums(sum)
  BY <1>4
<1>. HIDE DEF sum
<1>6. \A i \in 0..N : sum[i] = IF i = 0 THEN 0 ELSE sum[i - 1] + times[i]
  BY <1>5
<1>7. \A i \in 0..N : sum[i] = w[i]
  <2>. DEFINE Wrong == {i \in 0..N : sum[i] # w[i]}
  <2>1. SUFFICES ASSUME Wrong # {} PROVE FALSE
    OBVIOUS
  <2>2. PICK x \in Wrong : \A y \in Wrong : x <= y
    <3>1. Wrong \in SUBSET Nat
      BY <1>2
    <3>. HIDE DEF Wrong
    <3>. QED BY <2>1, <3>1, LeastNatural
  <2>3. x # 0
    BY <1>2, <1>6, <2>2
  <2>4. x - 1 \in 0..N /\ x - 1 \notin Wrong /\ x \in 1..N
    BY <1>2, <2>2, <2>3
  <2>5. sum[x - 1] = w[x - 1]
    BY <2>4
  <2>6. sum[x] = w[x]
    BY <1>2, <1>3, <1>6, <2>3, <2>4, <2>5
  <2>. QED BY <2>2, <2>6
<1>. QED BY <1>1, <1>2, <1>7

\* a's running sums up to n.
Running(w, a, n) ==
    /\ w \in [0..n -> Int] /\ w[0] = 0
    /\ \A i \in 1..n : w[i] = w[i - 1] + a[i]

LEMMA RunningExists ==
    ASSUME NEW n \in Nat, NEW a \in [1..n -> Int]
    PROVE  \E w : Running(w, a, n)
<1>. DEFINE Missing == {k \in 0..n : ~ \E w : Running(w, a, k)}
<1>0. SUFFICES ASSUME ~ \E w : Running(w, a, n) PROVE FALSE
  OBVIOUS
<1>1. Missing # {}
  <2>1. n \in 0..n
    OBVIOUS
  <2>. QED BY <1>0, <2>1
<1>2. PICK x \in Missing : \A y \in Missing : x <= y
  <2>1. Missing \in SUBSET Nat
    OBVIOUS
  <2>. HIDE DEF Missing
  <2>. QED BY <1>1, <2>1, LeastNatural
<1>3. Running([i \in 0..0 |-> 0], a, 0)
  <2>. DEFINE zero == [i \in 0..0 |-> 0]
  <2>1. zero \in [0..0 -> Int] /\ zero[0] = 0 /\ 1..0 = {}
    OBVIOUS
  <2>. QED BY <2>1 DEF Running
<1>4. x # 0
  BY <1>2, <1>3
<1>5. x - 1 \in 0..n /\ x - 1 \notin Missing /\ x \in 1..n
  BY <1>2, <1>4
<1>6. PICK w : Running(w, a, x - 1)
  BY <1>5
<1>. DEFINE longer == [i \in 0..x |-> IF i = x THEN w[x - 1] + a[x] ELSE w[i]]
<1>7. Running(longer, a, x)
  <2>1. \A i \in 0..x : longer[i] = IF i = x THEN w[x - 1] + a[x] ELSE w[i]
    OBVIOUS
  <2>2. /\ w \in [0..x - 1 -> Int] /\ w[0] = 0
        /\ \A i \in 1..x - 1 : w[i] = w[i - 1] + a[i]
    BY <1>6 DEF Running
  <2>3. longer \in [0..x -> Int]
    BY <1>5, <2>2
  <2>. HIDE DEF longer
  <2>4. longer[0] = 0
    BY <1>5, <2>1, <2>2
  <2>5. \A i \in 1..x : longer[i] = longer[i - 1] + a[i]
    <3>1. TAKE i \in 1..x
    <3>2. CASE i = x
      BY <1>5, <2>1, <3>2
    <3>3. CASE i # x
      <4>1. i \in 1..x - 1 /\ i \in 0..x /\ i - 1 \in 0..x /\ i - 1 # x
        BY <1>5, <3>3
      <4>. QED BY <2>1, <2>2, <3>3, <4>1
    <3>. QED BY <3>2, <3>3
  <2>. QED BY <2>3, <2>4, <2>5 DEF Running
<1>. QED BY <1>2, <1>7

LEMMA ListIsSeq ==
    ASSUME NEW T, NEW n \in Nat, NEW a \in [1..n -> T]
    PROVE  a \in Seq(T) /\ Len(a) = n
OBVIOUS

LEMMA TotalOfRunning ==
    ASSUME NEW n \in Nat, NEW a \in [1..n -> Int], NEW w, Running(w, a, n)
    PROVE  Total(a) = w[n] /\ Total(a) \in Int
<1>1. Len(a) = n
  BY ListIsSeq
<1>2. /\ w \in [0..n -> Int] /\ w[0] = 0
      /\ \A i \in 1..n : a[i] \in Int /\ w[i] = w[i - 1] + a[i]
  BY DEF Running
<1>3. Total(a) = w[n]
  BY <1>1, <1>2, Telescope
<1>. QED BY <1>2, <1>3

LEMMA TotalTyped ==
    ASSUME NEW n \in Nat, NEW a \in [1..n -> Int]
    PROVE  Total(a) \in Int
BY RunningExists, TotalOfRunning

\* A list of times none of which is longer has no longer a total.
LEMMA TotalMonotone ==
    ASSUME NEW n \in Nat, NEW a \in [1..n -> Int], NEW b \in [1..n -> Int],
           \A i \in 1..n : a[i] <= b[i]
    PROVE  Total(a) <= Total(b)
<1>1. PICK v : Running(v, a, n)
  BY RunningExists
<1>2. PICK w : Running(w, b, n)
  BY RunningExists
<1>3. Total(a) = v[n] /\ Total(b) = w[n]
  BY <1>1, <1>2, TotalOfRunning
<1>4. /\ v \in [0..n -> Int] /\ v[0] = 0 /\ \A i \in 1..n : v[i] = v[i - 1] + a[i]
      /\ w \in [0..n -> Int] /\ w[0] = 0 /\ \A i \in 1..n : w[i] = w[i - 1] + b[i]
  BY <1>1, <1>2 DEF Running
<1>. DEFINE Over == {i \in 0..n : ~(v[i] <= w[i])}
<1>5. SUFFICES ASSUME Over # {} PROVE FALSE
  BY <1>3
<1>6. PICK x \in Over : \A y \in Over : x <= y
  <2>1. Over \in SUBSET Nat
    OBVIOUS
  <2>. HIDE DEF Over
  <2>. QED BY <1>5, <2>1, LeastNatural
<1>7. x # 0
  BY <1>4, <1>6
<1>8. x - 1 \in 0..n /\ x - 1 \notin Over /\ x \in 1..n
  BY <1>6, <1>7
<1>9. v[x - 1] <= w[x - 1] /\ v[x] = v[x - 1] + a[x] /\ w[x] = w[x - 1] + b[x]
  BY <1>4, <1>8
<1>. QED BY <1>4, <1>6, <1>8, <1>9

----------------------------------------------------------------------------
(* The laps. *)

LapRecords == [number : Nat, ms : Int, sectors : SectorLists]

\* The session numbers its laps from 1.
LapsInv ==
    /\ DOMAIN se = {"laps", "speed", "speedDirty", "canSave", "sessions"}
    /\ se.laps \in Seq(LapRecords)
    /\ \A i \in DOMAIN se.laps : se.laps[i].number = i

LEMMA SectorListsTyped ==
    ASSUME NEW times \in SectorLists
    PROVE  times \in Seq(Nat) /\ Total(times) \in Int
<1>1. CASE times \in [1..SectorCount -> 0..MaxMs]
  <2>1. times \in [1..SectorCount -> Nat] /\ times \in [1..SectorCount -> Int]
    BY <1>1, OptimalAssumption
  <2>. QED BY <2>1, OptimalAssumption, ListIsSeq, TotalTyped
<1>2. CASE times \in {<< >>, <<1>>}
  <2>1. times \in Seq(Nat)
    <3>1. << >> \in Seq(Nat) /\ <<1>> \in Seq(Nat)
      OBVIOUS
    <3>. QED BY <1>2, <3>1
  <2>2. Len(times) \in Nat /\ times \in [1..Len(times) -> Int]
    BY <2>1
  <2>. QED BY <2>1, <2>2, TotalTyped
<1>. QED BY <1>1, <1>2 DEF SectorLists

LEMMA CanSaveKeeps ==
    ASSUME NEW r, DOMAIN r = {"laps", "speed", "speedDirty", "canSave", "sessions"}
    PROVE  UpdateCanSave(r).laps = r.laps /\ DOMAIN UpdateCanSave(r) = DOMAIN r
BY DEF UpdateCanSave

THEOREM LapsAreNumbered == Spec => []LapsInv
<1>1. Init => LapsInv
  BY DEF Init, LapsInv, SessionInit
<1>2. LapsInv /\ [Next]_vars => LapsInv'
  <2>. SUFFICES ASSUME LapsInv, [Next]_vars PROVE LapsInv'
    OBVIOUS
  <2>0. /\ DOMAIN se = {"laps", "speed", "speedDirty", "canSave", "sessions"}
        /\ se.laps \in Seq(LapRecords)
        /\ \A i \in DOMAIN se.laps : se.laps[i].number = i
    BY DEF LapsInv
  <2>1. ASSUME NEW sectors \in SectorLists, Lap(sectors) PROVE LapsInv'
    <3>. DEFINE lap == [number |-> timer', ms |-> Total(sectors) + 1, sectors |-> sectors]
                filed == [se EXCEPT !.laps = Append(@, NumberedLap(se, lap))]
    <3>1. se' = OnLapCompleted(se, lap)
      BY <2>1 DEF Lap
    <3>2. /\ NumberedLap(se, lap) \in LapRecords
          /\ NumberedLap(se, lap).number = Len(se.laps) + 1
      <4>1. Total(sectors) + 1 \in Int /\ Len(se.laps) + 1 \in Nat
        BY <2>0, SectorListsTyped
      <4>2. NumberedLap(se, lap) = [number |-> Len(se.laps) + 1, ms |-> Total(sectors) + 1,
                                    sectors |-> sectors]
        BY DEF NumberedLap
      <4>. QED BY <4>1, <4>2 DEF LapRecords
    <3>3. /\ DOMAIN filed = DOMAIN se
          /\ filed.laps = Append(se.laps, NumberedLap(se, lap))
      BY <2>0
    <3>4. \/ se' = se \/ se' = UpdateCanSave(filed) \/ se' = filed
      BY <3>1 DEF OnLapCompleted
    <3>. HIDE DEF lap, filed
    <3>5. \/ se' = se
          \/ DOMAIN se' = DOMAIN se /\ se'.laps = Append(se.laps, NumberedLap(se, lap))
      BY <2>0, <3>3, <3>4, CanSaveKeeps
    <3>6. CASE se' = se
      BY <2>0, <3>6 DEF LapsInv
    <3>7. CASE DOMAIN se' = DOMAIN se /\ se'.laps = Append(se.laps, NumberedLap(se, lap))
      <4>. DEFINE new == NumberedLap(se, lap)
      <4>1. se'.laps = Append(se.laps, new) /\ new \in LapRecords
            /\ new.number = Len(se.laps) + 1
        BY <3>2, <3>7
      <4>. HIDE DEF new
      <4>2. /\ se'.laps \in Seq(LapRecords)
            /\ \A i \in DOMAIN se'.laps : se'.laps[i].number = i
        BY <2>0, <4>1
      <4>. QED BY <2>0, <3>7, <4>2 DEF LapsInv
    <3>. QED BY <3>5, <3>6, <3>7
  <2>2. CASE TimerRestarts
    BY <2>0, <2>2 DEF TimerRestarts, LapsInv
  <2>3. CASE Save
    <3>1. DOMAIN se' = DOMAIN se /\ se'.laps = << >>
      BY <2>0, <2>3 DEF Save, SaveCurrentSession, UpdateCanSave
    <3>. QED BY <2>0, <3>1 DEF LapsInv
  <2>4. CASE UNCHANGED vars
    BY <2>0, <2>4 DEF vars, LapsInv
  <2>. QED BY <2>1, <2>2, <2>3, <2>4 DEF Next
<1>. QED BY <1>1, <1>2, PTL DEF Spec

----------------------------------------------------------------------------
(* The winners. *)

LEMMA CountTyped == LapsInv => Count \in Nat
<1>. SUFFICES ASSUME LapsInv PROVE Count \in Nat
  OBVIOUS
<1>. DEFINE split == {i \in DOMAIN se.laps : se.laps[i].sectors # << >>}
            first == CHOOSE i \in split : \A j \in split : i <= j
<1>1. Count = IF split = {} THEN 0 ELSE Len(se.laps[first].sectors)
  BY DEF Count, SessionSectorCount
<1>2. se.laps \in Seq(LapRecords)
  BY DEF LapsInv
<1>3. split \in SUBSET Nat /\ split \subseteq DOMAIN se.laps
  BY <1>2
<1>4. CASE split # {}
  <2>1. first \in split
    <3>. HIDE DEF split
    <3>1. \E i \in split : \A j \in split : i <= j
      BY <1>3, <1>4, LeastNatural
    <3>. QED BY <3>1
  <2>2. se.laps[first] \in LapRecords
    <3>1. first \in DOMAIN se.laps
      BY <1>3, <2>1
    <3>. HIDE DEF split, first
    <3>. QED BY <1>2, <3>1
  <2>. HIDE DEF split, first
  <2>3. se.laps[first].sectors \in Seq(Nat)
    BY <2>2, SectorListsTyped DEF LapRecords
  <2>4. Len(se.laps[first].sectors) \in Nat
    BY <2>3
  <2>. QED BY <1>1, <1>4, <2>4
<1>. QED BY <1>1, <1>4

LEMMA EligibleTyped ==
    LapsInv =>
        /\ Eligible \subseteq DOMAIN se.laps /\ Eligible \subseteq Nat
        /\ IsFiniteSet(DOMAIN se.laps)
        /\ IsFiniteSet(Eligible) /\ Cardinality(Eligible) \in Nat
        /\ \A i \in Eligible : se.laps[i].sectors \in [1..Count -> Nat]
<1>. SUFFICES ASSUME LapsInv
              PROVE  /\ Eligible \subseteq DOMAIN se.laps /\ Eligible \subseteq Nat
                     /\ IsFiniteSet(DOMAIN se.laps)
                     /\ IsFiniteSet(Eligible) /\ Cardinality(Eligible) \in Nat
                     /\ \A i \in Eligible : se.laps[i].sectors \in [1..Count -> Nat]
  OBVIOUS
<1>1. se.laps \in Seq(LapRecords) /\ DOMAIN se.laps = 1..Len(se.laps) /\ Len(se.laps) \in Nat
  BY DEF LapsInv
<1>2. IsFiniteSet(DOMAIN se.laps)
  BY <1>1, FS_Interval
<1>3. Eligible \subseteq DOMAIN se.laps
  BY DEF Eligible, EligibleLaps
<1>4. IsFiniteSet(Eligible) /\ Cardinality(Eligible) \in Nat
  BY <1>2, <1>3, FS_Subset, FS_CardinalityType
<1>5. ASSUME NEW i \in Eligible PROVE se.laps[i].sectors \in [1..Count -> Nat]
  <2>1. Len(se.laps[i].sectors) = Count
    BY DEF Eligible, EligibleLaps
  <2>2. se.laps[i] \in LapRecords
    BY <1>1, <1>3
  <2>3. se.laps[i].sectors \in Seq(Nat)
    BY <2>2, SectorListsTyped DEF LapRecords
  <2>. QED BY <2>1, <2>3
<1>6. Eligible \subseteq Nat
  BY <1>1, <1>3
<1>. QED BY <1>2, <1>3, <1>4, <1>5, <1>6

Winner(s) == SectorWinner(se.laps, Eligible, s)

\* std::min_element returns an eligible lap, and none was faster in the sector.
LEMMA WinnerIsFastest ==
    ASSUME LapsInv, Eligible # {}, NEW s \in 1..Count
    PROVE  /\ Winner(s) \in Eligible
           /\ \A j \in Eligible : se.laps[Winner(s)].sectors[s] <= se.laps[j].sectors[s]
<1>. DEFINE ms(i) == se.laps[i].sectors[s]
<1>1. /\ Eligible \subseteq DOMAIN se.laps /\ Eligible \subseteq Nat
      /\ \A i \in Eligible : ms(i) \in Nat
  BY EligibleTyped
<1>2. \A i \in Eligible : se.laps[i].number = i
  BY <1>1 DEF LapsInv
<1>3. \A i, j : FasterIn(s, se.laps[i], se.laps[j])
                 <=> \/ ms(i) < ms(j)
                     \/ ms(i) = ms(j) /\ se.laps[i].number < se.laps[j].number
  BY DEF FasterIn
<1>. HIDE DEF ms
<1>4. PICK m \in {ms(i) : i \in Eligible} : \A x \in {ms(i) : i \in Eligible} : m <= x
  <2>. DEFINE times == {ms(i) : i \in Eligible}
  <2>1. times \in SUBSET Nat /\ times # {}
    BY <1>1
  <2>. HIDE DEF times
  <2>2. \E m \in times : \A x \in times : m <= x
    BY <2>1, LeastNatural
  <2>. QED BY <2>2 DEF times
<1>5. PICK k \in {i \in Eligible : ms(i) = m} : \A x \in {i \in Eligible : ms(i) = m} : k <= x
  <2>. DEFINE fastest == {i \in Eligible : ms(i) = m}
  <2>1. fastest \in SUBSET Nat /\ fastest # {}
    BY <1>1, <1>4
  <2>. HIDE DEF fastest
  <2>2. \E k \in fastest : \A x \in fastest : k <= x
    BY <2>1, LeastNatural
  <2>. QED BY <2>2 DEF fastest
<1>. DEFINE Wins(i) == \A j \in Eligible : /\ ~FasterIn(s, se.laps[j], se.laps[i])
                                           /\ j < i => FasterIn(s, se.laps[i], se.laps[j])
<1>6. k \in Eligible /\ Wins(k)
  <2>1. k \in Eligible /\ ms(k) = m /\ m \in Nat
    BY <1>1, <1>5
  <2>2. \A j \in Eligible : j \in Nat /\ ms(j) \in Nat /\ m <= ms(j)
                            /\ (ms(j) = m => k <= j)
    BY <1>1, <1>4, <1>5
  <2>. QED BY <1>1, <1>2, <1>3, <2>1, <2>2
<1>7. Winner(s) = CHOOSE i \in Eligible : Wins(i)
  BY DEF Winner, SectorWinner
<1>8. Winner(s) \in Eligible /\ Wins(Winner(s))
  <2>. HIDE DEF Wins
  <2>. QED BY <1>6, <1>7
<1>9. \A j \in Eligible : ms(Winner(s)) <= ms(j)
  BY <1>1, <1>3, <1>8
<1>. QED BY <1>8, <1>9 DEF ms

Exists == Count > 0 /\ Cardinality(Eligible) > 1

\* The time of the stitched lap's sector.
Best(s) == se.laps[Winner(s)].sectors[s]

LEMMA StitchedFrom ==
    ASSUME LapsInv
    PROVE  /\ ~Exists => Computed = NoOptimalLap
           /\ Exists =>
                /\ Eligible # {}
                /\ Computed = [sectors |-> [s \in 1..Count |->
                                               [lap |-> Winner(s), ms |-> Best(s)]],
                               lapMs   |-> Total([s \in 1..Count |-> Best(s)]),
                               matches |-> IF \A s \in 1..Count : Winner(s) = Winner(1)
                                           THEN Winner(1) ELSE -1]
<1>1. Count \in Nat /\ Cardinality(Eligible) \in Nat /\ IsFiniteSet(Eligible)
  BY CountTyped, EligibleTyped
<1>. DEFINE won == [s \in 1..Count |-> se.laps[Winner(s)]]
            Lap0 == [sectors |-> [s \in 1..Count |-> [lap |-> won[s].number,
                                                      ms |-> won[s].sectors[s]]],
                     lapMs   |-> Total([s \in 1..Count |-> won[s].sectors[s]]),
                     matches |-> IF \A s \in 1..Count : won[s].number = won[1].number
                                 THEN won[1].number ELSE -1]
<1>2. Computed = IF Count <= 0 \/ Cardinality(Eligible) < 2 THEN NoOptimalLap ELSE Lap0
  BY DEF Computed, SessionRecord, Compute, Count, Eligible, Winner
<1>3. Exists <=> ~(Count <= 0 \/ Cardinality(Eligible) < 2)
  BY <1>1 DEF Exists
<1>4. Exists => Eligible # {}
  BY <1>1, FS_EmptySet DEF Exists
<1>5. ASSUME Exists
      PROVE  Lap0 = [sectors |-> [s \in 1..Count |-> [lap |-> Winner(s), ms |-> Best(s)]],
                     lapMs   |-> Total([s \in 1..Count |-> Best(s)]),
                     matches |-> IF \A s \in 1..Count : Winner(s) = Winner(1)
                                 THEN Winner(1) ELSE -1]
  <2>1. \A s \in 1..Count : won[s].number = Winner(s) /\ won[s].sectors[s] = Best(s)
    <3>1. \A s \in 1..Count : Winner(s) \in DOMAIN se.laps
      BY <1>4, <1>5, WinnerIsFastest, EligibleTyped
    <3>. QED BY <3>1 DEF LapsInv, Best
  <2>2. 1 \in 1..Count
    BY <1>1, <1>5 DEF Exists
  <2>. HIDE DEF won
  <2>3. [s \in 1..Count |-> [lap |-> won[s].number, ms |-> won[s].sectors[s]]]
          = [s \in 1..Count |-> [lap |-> Winner(s), ms |-> Best(s)]]
    BY <2>1
  <2>4. [s \in 1..Count |-> won[s].sectors[s]] = [s \in 1..Count |-> Best(s)]
    BY <2>1
  <2>5. (\A s \in 1..Count : won[s].number = won[1].number)
          <=> (\A s \in 1..Count : Winner(s) = Winner(1))
    BY <2>1, <2>2
  <2>. QED BY <2>1, <2>2, <2>3, <2>4, <2>5
<1>. QED BY <1>2, <1>3, <1>4, <1>5

\* The same, field by field.
LEMMA StitchedFields ==
    ASSUME LapsInv, Exists
    PROVE  /\ Eligible # {}
           /\ Computed.lapMs = Total([s \in 1..Count |-> Best(s)])
           /\ Computed.matches = IF \A s \in 1..Count : Winner(s) = Winner(1)
                                 THEN Winner(1) ELSE -1
           /\ DOMAIN Computed.sectors = 1..Count
           /\ \A s \in 1..Count : /\ Computed.sectors[s].lap = Winner(s)
                                  /\ Computed.sectors[s].ms = Best(s)
<1>. DEFINE credits == [s \in 1..Count |-> [lap |-> Winner(s), ms |-> Best(s)]]
            total == Total([s \in 1..Count |-> Best(s)])
            matching == IF \A s \in 1..Count : Winner(s) = Winner(1) THEN Winner(1) ELSE -1
<1>1. Computed = [sectors |-> credits, lapMs |-> total, matches |-> matching]
  BY StitchedFrom
<1>2. DOMAIN credits = 1..Count
      /\ \A s \in 1..Count : credits[s].lap = Winner(s) /\ credits[s].ms = Best(s)
  OBVIOUS
<1>3. Computed.lapMs = total /\ Computed.matches = matching /\ Computed.sectors = credits
  <2>. HIDE DEF credits, total, matching
  <2>. QED BY <1>1
<1>. HIDE DEF credits
<1>. QED BY <1>2, <1>3, StitchedFrom

----------------------------------------------------------------------------
(* The optimal lap. *)

\* The three properties, of any numbered list of laps.
LEMMA StitchIsBest == LapsInv => IsBestStitch
<1>. SUFFICES ASSUME LapsInv PROVE IsBestStitch
  OBVIOUS
<1>1. Exists = (Computed # NoOptimalLap)
  <2>1. ASSUME Exists PROVE Computed # NoOptimalLap
    <3>1. DOMAIN Computed.sectors = 1..Count
      BY <2>1, StitchedFrom
    <3>2. 1 \in 1..Count
      BY <2>1, CountTyped DEF Exists
    <3>3. DOMAIN NoOptimalLap.sectors = {}
      BY DEF NoOptimalLap
    <3>. QED BY <3>1, <3>2, <3>3
  <2>2. Exists \in BOOLEAN
    BY DEF Exists
  <2>. QED BY <2>1, <2>2, StitchedFrom
<1>2. ASSUME Exists
      PROVE  /\ \E f \in Stitches : StitchTotal(f) = Computed.lapMs
             /\ \A f \in Stitches : Computed.lapMs <= StitchTotal(f)
  <2>1. Computed.lapMs = Total([s \in 1..Count |-> Best(s)]) /\ Eligible # {}
    BY <1>2, StitchedFrom
  <2>2. Count \in Nat /\ \A i \in Eligible : se.laps[i].sectors \in [1..Count -> Nat]
    BY CountTyped, EligibleTyped
  <2>3. \A s \in 1..Count : Winner(s) \in Eligible
    BY <2>1, WinnerIsFastest
  <2>4. \E f \in Stitches : StitchTotal(f) = Computed.lapMs
    <3>. DEFINE f == [s \in 1..Count |-> Winner(s)]
    <3>1. f \in Stitches
      BY <2>3 DEF Stitches
    <3>2. \A s \in 1..Count : f[s] = Winner(s)
      OBVIOUS
    <3>. HIDE DEF f
    <3>3. [s \in 1..Count |-> se.laps[f[s]].sectors[s]] = [s \in 1..Count |-> Best(s)]
      BY <3>2 DEF Best
    <3>4. StitchTotal(f) = Computed.lapMs
      BY <2>1, <3>3 DEF StitchTotal
    <3>. QED BY <3>1, <3>4
  <2>5. ASSUME NEW f \in Stitches PROVE Computed.lapMs <= StitchTotal(f)
    <3>. DEFINE a == [s \in 1..Count |-> Best(s)]
                b == [s \in 1..Count |-> se.laps[f[s]].sectors[s]]
    <3>1. \A s \in 1..Count : f[s] \in Eligible
      BY DEF Stitches
    <3>2. \A s \in 1..Count : Best(s) \in Nat /\ se.laps[f[s]].sectors[s] \in Nat
      BY <2>2, <2>3, <3>1 DEF Best
    <3>3. a \in [1..Count -> Int] /\ b \in [1..Count -> Int]
      BY <3>2
    <3>4. \A s \in 1..Count : a[s] <= b[s]
      BY <2>1, <3>1, WinnerIsFastest DEF Best
    <3>5. Computed.lapMs = Total(a) /\ StitchTotal(f) = Total(b)
      BY <2>1 DEF StitchTotal
    <3>. HIDE DEF a, b
    <3>. QED BY <2>2, <3>3, <3>4, <3>5, TotalMonotone
  <2>. QED BY <2>4, <2>5
<1>. QED BY <1>1, <1>2 DEF IsBestStitch, Exists

LEMMA MatchNamesTheWinner == LapsInv => MatchIsTheWinner
<1>. SUFFICES ASSUME LapsInv, Computed # NoOptimalLap PROVE MatchIsTheWinner
  BY DEF MatchIsTheWinner
<1>. DEFINE winners == {Computed.sectors[s].lap : s \in 1..Count}
<1>1. /\ Exists /\ Eligible # {}
      /\ Computed.lapMs = Total([s \in 1..Count |-> Best(s)])
      /\ Computed.matches = IF \A s \in 1..Count : Winner(s) = Winner(1)
                            THEN Winner(1) ELSE -1
      /\ \A s \in 1..Count : Computed.sectors[s].lap = Winner(s)
  BY StitchedFrom, StitchedFields
<1>2. 1 \in 1..Count
  BY <1>1, CountTyped DEF Exists
<1>3. \A s \in 1..Count : Winner(s) \in Eligible
  BY <1>1, WinnerIsFastest
<1>4. /\ Eligible \subseteq DOMAIN se.laps /\ IsFiniteSet(Eligible)
      /\ \A i \in Eligible : se.laps[i].sectors \in [1..Count -> Nat]
  BY EligibleTyped
<1>5. winners \subseteq Eligible /\ Winner(1) \in winners
      /\ \A s \in 1..Count : Winner(s) \in winners
  BY <1>1, <1>2, <1>3
<1>6. IsFiniteSet(winners)
  BY <1>4, <1>5, FS_Subset
<1>7. CASE Cardinality(winners) = 1
  <2>1. PICK x : winners = {x}
    <3>. HIDE DEF winners
    <3>. QED BY <1>6, <1>7, FS_Singleton
  <2>2. \A s \in 1..Count : Winner(s) = Winner(1)
    BY <1>2, <1>5, <2>1
  <2>3. Computed.matches = Winner(1) /\ winners = {Winner(1)}
    BY <1>1, <1>5, <2>1, <2>2
  <2>4. Winner(1) \in DOMAIN se.laps /\ se.laps[Winner(1)].number = Winner(1)
    BY <1>2, <1>3, <1>4 DEF LapsInv
  <2>5. se.laps[Winner(1)].sectors = [s \in 1..Count |-> Best(s)]
    <3>1. se.laps[Winner(1)].sectors \in [1..Count -> Nat]
      BY <1>2, <1>3, <1>4
    <3>2. \A s \in 1..Count : Best(s) = se.laps[Winner(1)].sectors[s]
      BY <2>2 DEF Best
    <3>. QED BY <3>1, <3>2
  <2>. HIDE DEF winners
  <2>6. \E i \in DOMAIN se.laps : /\ winners = {se.laps[i].number, Computed.matches}
                                  /\ Total(se.laps[i].sectors) = Computed.lapMs
    <3>1. Total(se.laps[Winner(1)].sectors) = Computed.lapMs
      BY <1>1, <2>5
    <3>2. winners = {se.laps[Winner(1)].number, Computed.matches}
      BY <2>3, <2>4
    <3>. QED BY <2>4, <3>1, <3>2
  <2>. QED BY <1>7, <2>6 DEF winners, MatchIsTheWinner
<1>8. CASE Cardinality(winners) # 1
  <2>1. ~ \A s \in 1..Count : Winner(s) = Winner(1)
    <3>1. SUFFICES ASSUME \A s \in 1..Count : Winner(s) = Winner(1) PROVE FALSE
      OBVIOUS
    <3>2. winners = {Winner(1)}
      BY <1>1, <1>2, <3>1
    <3>. HIDE DEF winners
    <3>. QED BY <1>8, <3>2, FS_Singleton
  <2>2. Computed.matches = -1
    BY <1>1, <2>1
  <2>. QED BY <1>8, <2>2 DEF MatchIsTheWinner
<1>. QED BY <1>7, <1>8

LEMMA CreditIsDue == LapsInv => CreditsTheLapsThatDrove
<1>. SUFFICES ASSUME LapsInv, NEW s \in DOMAIN Computed.sectors
              PROVE  LET best == Computed.sectors[s]
                         named == {i \in DOMAIN se.laps : se.laps[i].number = best.lap}
                     IN  /\ Cardinality(named) = 1
                         /\ \A i \in named : se.laps[i].sectors[s] = best.ms
  BY DEF CreditsTheLapsThatDrove
<1>. DEFINE best == Computed.sectors[s]
            named == {i \in DOMAIN se.laps : se.laps[i].number = best.lap}
<1>1. Exists
  <2>1. DOMAIN NoOptimalLap.sectors = {}
    BY DEF NoOptimalLap
  <2>. QED BY <2>1, StitchedFrom
<1>2. Eligible # {} /\ s \in 1..Count /\ best.lap = Winner(s) /\ best.ms = Best(s)
  BY <1>1, StitchedFields
<1>3. Winner(s) \in DOMAIN se.laps
  BY <1>2, WinnerIsFastest, EligibleTyped
<1>4. named = {Winner(s)}
  <2>1. \A i \in DOMAIN se.laps : se.laps[i].number = i
    BY DEF LapsInv
  <2>2. best.lap = Winner(s)
    BY <1>2
  <2>. HIDE DEF best
  <2>. QED BY <1>3, <2>1, <2>2
<1>5. best.ms = Best(s)
  BY <1>2
<1>. HIDE DEF best, named
<1>6. Cardinality(named) = 1 /\ \A i \in named : se.laps[i].sectors[s] = best.ms
  BY <1>4, <1>5, FS_Singleton DEF Best
<1>. QED BY <1>6 DEF best, named

\* Compute() finds the least total over every way to take each sector from some
\* eligible lap, and finds a lap exactly when two laps are eligible
\* (optimallap.cpp).
THEOREM OptimalIsBest == Spec => []IsBestStitch
BY LapsAreNumbered, StitchIsBest, PTL

\* matchesLapNumber names a lap exactly when one lap won every sector, and that
\* lap drove the optimal time (optimallap.cpp).
THEOREM MatchAlwaysTheWinner == Spec => []MatchIsTheWinner
BY LapsAreNumbered, MatchNamesTheWinner, PTL

\* A sector is credited to exactly one lap of the session, the one that drove it,
\* however often the lap timer starts numbering again (sessionmodel.h).
THEOREM CreditAlwaysDue == Spec => []CreditsTheLapsThatDrove
BY LapsAreNumbered, CreditIsDue, PTL
=============================================================================
