-------------------------------- MODULE MCRace --------------------------------
(***************************************************************************)
(* Race on small instances. Ticks stand for the times of the code: a lap   *)
(* of one tick is jitter, fixes more than one tick apart are not bridged.  *)
(***************************************************************************)
EXTENDS Race

CONSTANTS t1, t2, surveyed, global

\* User states: nothing but a global line, and beside it gates for t1, a list
\* longer than what this program derives.
NothingStored == [active |-> NoTrack, favorites |-> {},
                  lines |-> [s \in Slots |-> NoLine],
                  gates |-> [s \in Slots |-> NoGates]]
GlobalLineStored == [NothingStored EXCEPT !.lines[NoTrack] = global]
LongListStored ==
    [GlobalLineStored EXCEPT
        !.gates = [@ EXCEPT ![t1] = [base |-> surveyed, from |-> surveyed, dir |-> <<1, 1>>]]]

NoFix == [fix |-> FALSE, speed |-> 0, moved |-> FALSE, dt |-> 1, cross |-> 0,
          at |-> 0, sector |-> 0, sectorAt |-> 0, derived |-> << >>]
Parked == [NoFix EXCEPT !.fix = TRUE]
Driving == [Parked EXCEPT !.speed = 1, !.moved = TRUE]
Crossing(dir, at, derived) ==
    [Driving EXCEPT !.cross = dir, !.at = at, !.derived = derived]
Sector(d, dir, at) == [d EXCEPT !.sector = dir, !.sectorAt = at]

EveryGate == [s \in 1..kSectorCount - 1 |-> 1]

\* What moves lines and gates: a car that stands, one that crosses the line at
\* every fix, and one that passes sector gates between two crossings. Fixes
\* that cross no line come within a tick.
LappingSamples ==
    {[Parked EXCEPT !.dt = 0], Crossing(1, 1, EveryGate),
     [Sector(Driving, 1, 0) EXCEPT !.moved = FALSE, !.dt = 0]}

\* What writes files: a car that laps.
FilesSamples == {[Crossing(1, 1, EveryGate) EXCEPT !.moved = FALSE]}

\* The timing run: every crossing of line and gate, jitter, stalls, a lap that
\* is too short to derive gates from, a crossing at parking speed.
TimingSamples ==
    LET Moving == [Driving EXCEPT !.moved = FALSE]
        Cross(dir, at, derived) == [Crossing(dir, at, derived) EXCEPT !.moved = FALSE]
        crossings == {Cross(dir, at, EveryGate) : dir \in {-1, 1}, at \in 0..1}
                     \cup {Cross(1, 1, << >>)}
        stalled == [Cross(1, 1, EveryGate) EXCEPT !.dt = 2]
        creeping == [Cross(1, 0, EveryGate) EXCEPT !.speed = 0]
    IN  {NoFix, Parked, Moving, stalled, creeping} \cup crossings
        \cup {Sector(d, dir, at) : d \in {Moving, Cross(1, 1, << >>)},
                                   dir \in {-1, 1}, at \in 0..1}

TwoTracks == {t1, t2}
OneTrack == {t1}
\* t1 is surveyed, t2 is the driver's to learn.
Database == (t1 :> surveyed) @@ (t2 :> NoLine)
PlainTrack == t1 :> NoLine

InitialGlobal == {GlobalLineStored}
InitialLongList == {LongListStored}
InitialDamaged == {GlobalLineStored, TornFile}
NoDatabases == {}
OneDatabase == {PlainTrack}
=============================================================================
