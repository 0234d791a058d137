---------------------------- MODULE MCOptimalLap ----------------------------
(***************************************************************************)
(* The optimal lap against reference definitions, over every session of at *)
(* most MaxLaps laps the lap timer can report to SessionModel, restarting  *)
(* its own numbering wherever it likes.                                    *)
(***************************************************************************)
EXTENDS SessionModel

CONSTANTS
    SectorCount, \* sectors of the track
    MaxLaps,     \* bound: laps of a session
    MaxMs        \* bound: a sector time

ASSUME OptimalAssumption ==
    SectorCount \in Nat /\ MaxLaps \in Nat /\ MaxMs \in Nat

VARIABLES
    se,    \* SessionModel
    timer  \* the number of the lap the timer reported last

vars == <<se, timer>>

\* Lap lists of the right length, and the two ways a lap is ineligible.
SectorLists == [1..SectorCount -> 0..MaxMs] \cup {<< >>, <<1>>}

Init == se = SessionInit(<< >>) /\ timer = 0

Lap(sectors) ==
    /\ Len(se.laps) < MaxLaps
    /\ timer' = timer + 1
    /\ se' = OnLapCompleted(se, [number |-> timer', ms |-> Total(sectors) + 1,
                                 sectors |-> sectors])

\* RaceBoxModel::resetLapState()
TimerRestarts == timer # 0 /\ timer' = 0 /\ UNCHANGED se

Save ==
    /\ se.canSave
    /\ se' = [SaveCurrentSession(se, 0, 0) EXCEPT !.sessions = << >>]
    /\ timer' = 0

Next == (\E sectors \in SectorLists : Lap(sectors)) \/ TimerRestarts \/ Save

Spec == Init /\ [][Next]_vars

----------------------------------------------------------------------------
Computed == SessionRecord(se, 0, 0).optimal

\* The sector count the session is filed with.
Count == SessionSectorCount(se.laps)

Eligible == EligibleLaps(se.laps, Count)

Stitches == [1..Count -> Eligible]

StitchTotal(f) == Total([s \in 1..Count |-> se.laps[f[s]].sectors[s]])

\* The optimal lap is the least total over every way to take each sector from
\* some eligible lap, and it exists exactly when two laps are eligible.
IsBestStitch ==
    LET exists == Count > 0 /\ Cardinality(Eligible) > 1
    IN  /\ exists = (Computed # NoOptimalLap)
        /\ exists => /\ \E f \in Stitches : StitchTotal(f) = Computed.lapMs
                     /\ \A f \in Stitches : Computed.lapMs <= StitchTotal(f)

\* matchesLapNumber names a lap exactly when one lap alone won every sector,
\* and that lap then drove the optimal time.
MatchIsTheWinner ==
    Computed # NoOptimalLap =>
        LET winners == {Computed.sectors[s].lap : s \in 1..Count}
        IN  IF Cardinality(winners) = 1
            THEN \E i \in DOMAIN se.laps :
                    /\ winners = {se.laps[i].number, Computed.matches}
                    /\ Total(se.laps[i].sectors) = Computed.lapMs
            ELSE Computed.matches = -1

\* Every sector is credited to one lap of the session, the lap that drove it,
\* though the lap timer reuses its numbers (sessionmodel.h:73).
CreditsTheLapsThatDrove ==
    \A s \in DOMAIN Computed.sectors :
        LET best == Computed.sectors[s]
            named == {i \in DOMAIN se.laps : se.laps[i].number = best.lap}
        IN  /\ Cardinality(named) = 1
            /\ \A i \in named : se.laps[i].sectors[s] = best.ms
=============================================================================
