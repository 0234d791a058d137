----------------------------- MODULE OptimalLap -----------------------------
(***************************************************************************)
(* src/race/optimallap.cpp: the lap stitched from the best time of every   *)
(* sector over a session's laps. A lap is [number, sectors], `sectors` the *)
(* sequence of its sector times or << >> when a gate was missed.           *)
(***************************************************************************)
EXTENDS Integers, SequencesExt

NoOptimalLap == [sectors |-> << >>, lapMs |-> 0, matches |-> -1]

Total(times) ==
    LET sum[i \in 0..Len(times)] == IF i = 0 THEN 0 ELSE sum[i - 1] + times[i]
    IN  sum[Len(times)]

\* The laps that carry a complete list of n positive sector times.
EligibleLaps(laps, n) ==
    {i \in DOMAIN laps : /\ Len(laps[i].sectors) = n
                         /\ \A s \in 1..n : laps[i].sectors[s] > 0}

\* std::tie(a->sectorMs[s], a->lapNumber) < std::tie(b->sectorMs[s], b->lapNumber)
FasterIn(s, a, b) ==
    \/ a.sectors[s] < b.sectors[s]
    \/ a.sectors[s] = b.sectors[s] /\ a.number < b.number

\* std::min_element: the first lap no other lap is ordered before.
SectorWinner(laps, eligible, s) ==
    CHOOSE i \in eligible :
        \A j \in eligible : /\ ~FasterIn(s, laps[j], laps[i])
                            /\ j < i => FasterIn(s, laps[i], laps[j])

\* MUTANT: one eligible lap is enough.
Compute_OneLap(laps, n) ==
    LET eligible == EligibleLaps(laps, n)
        won == [s \in 1..n |-> laps[SectorWinner(laps, eligible, s)]]
    IN  IF n <= 0 \/ eligible = {} THEN NoOptimalLap
        ELSE [sectors |-> [s \in 1..n |-> [lap |-> won[s].number,
                                           ms |-> won[s].sectors[s]]],
              lapMs   |-> Total([s \in 1..n |-> won[s].sectors[s]]),
              matches |-> IF \A s \in 1..n : won[s].number = won[1].number
                          THEN won[1].number ELSE -1]

\* MUTANT: the winner of the first sector is taken for the winner of all.
Compute_FirstWinner(laps, n) ==
    LET eligible == EligibleLaps(laps, n)
        won == [s \in 1..n |-> laps[SectorWinner(laps, eligible, s)]]
    IN  IF n <= 0 \/ Cardinality(eligible) < 2 THEN NoOptimalLap
        ELSE [sectors |-> [s \in 1..n |-> [lap |-> won[s].number,
                                           ms |-> won[s].sectors[s]]],
              lapMs   |-> Total([s \in 1..n |-> won[s].sectors[s]]),
              matches |-> won[1].number]

Compute(laps, n) ==
    LET eligible == EligibleLaps(laps, n)
        won == [s \in 1..n |-> laps[SectorWinner(laps, eligible, s)]]
    IN  IF n <= 0 \/ Cardinality(eligible) < 2
        THEN NoOptimalLap
        ELSE [sectors |-> [s \in 1..n |-> [lap |-> won[s].number,
                                           ms |-> won[s].sectors[s]]],
              lapMs   |-> Total([s \in 1..n |-> won[s].sectors[s]]),
              matches |-> IF \A s \in 1..n : won[s].number = won[1].number
                          THEN won[1].number ELSE -1]
=============================================================================
