---------------------------- MODULE RaceBoxModel ----------------------------
(***************************************************************************)
(* src/race/raceboxmodel.{h,cpp}: the lap timer fed by the GPS receiver.   *)
(*                                                                         *)
(* A Qt signal is a direct call, so one handler runs through RaceBoxModel, *)
(* TrackModel and SessionModel before it returns. Each of the three is     *)
(* therefore a record and its handlers are functions on records; module    *)
(* Race holds the records as variables and composes the calls.             *)
(*                                                                         *)
(* Geometry is abstracted to what the lap logic tells apart: a finish line *)
(* is an identity; a set of sector gates is the line that closed the trace *)
(* it was derived from (base), the line that trace began at (from), and    *)
(* the latched direction of each gate; a fix says which gates the segment  *)
(* from the previous fix crosses, which way, and how far along. Time is in *)
(* ticks, and kept as the age of the current lap at the latest fix. A      *)
(* split remembers, beside its time, the gates it was timed at, and a lap  *)
(* those of each of its splits: history that no handler reads.             *)
(***************************************************************************)
EXTENDS Integers, Sequences, FiniteSets

CONSTANTS
    NoLine,              \* no finish line: all-zero coordinates
    kSectorCount,        \* sectors a lap is split into
    kMinLapMs,           \* a crossing sooner than this is jitter
    kMaxFixGapMs,        \* fixes further apart than this are not bridged
    kStationarySpeedKmh, \* at or below this the car is parked
    Speeds,              \* speeds the receiver reports
    Samples              \* fixes the receiver sends, see Sample

ASSUME RaceBoxAssumption ==
    /\ kSectorCount \in Nat \ {0}
    /\ kMinLapMs \in Nat \ {0} /\ kMaxFixGapMs \in Nat
    /\ kStationarySpeedKmh \in Nat
    /\ Speeds \subseteq Nat /\ 0 \in Speeds

\* A crossing direction: testGateCrossing()'s dirSign, 0 for no crossing.
Directions == {-1, 0, 1}

\* RaceBoxData, as onData() tells samples apart. dt: time since the last fix;
\* moved: kHeadingAnchorM travelled since the heading anchor; cross, at: the
\* finish gate, and when; sector, sectorAt: the next sector gate; derived: the
\* directions deriveSectorGates() would latch, << >> when the lap is too short.
Sample == [fix : BOOLEAN, speed : Speeds, moved : BOOLEAN, dt : Nat,
           cross : Directions, at : Nat, sector : Directions, sectorAt : Nat,
           derived : {<< >>} \cup [1..kSectorCount - 1 -> Directions]]

ASSUME SampleAssumption ==
    \A d \in Samples : d \in Sample /\ d.at <= d.dt /\ d.sectorAt <= d.dt

NoGates == [base |-> NoLine, from |-> NoLine, dir |-> << >>]

\* Which list of gates it is, whatever directions it has latched.
GateList(gates) == [base |-> gates.base, from |-> gates.from, count |-> Len(gates.dir)]

LapTimerStates == {"Idle", "Armed", "Running", "Standby"}

NoLap == [ms |-> 0]

RaceBoxInit ==
    [connected |-> FALSE, hasFix |-> FALSE, prevFix |-> FALSE,
     anchor |-> FALSE, heading |-> "none", speed |-> 0,
     line |-> NoLine, crossDir |-> 0, gates |-> NoGates,
     running |-> FALSE, started |-> FALSE, lapNumber |-> 0, bestMs |-> 0,
     age |-> 0, from |-> NoLine, splits |-> << >>,
     dirty |-> {}, shown |-> "Idle"]

----------------------------------------------------------------------------
CanLearnFinishLine(rb) == rb.hasFix /\ rb.heading = "fresh"

LapTimerState(rb) ==
    IF rb.running THEN "Running"
    ELSE IF rb.line = NoLine \/ ~rb.hasFix THEN "Idle"
    ELSE IF rb.started THEN "Standby" ELSE "Armed"

SetFinishLine(rb, line) ==
    IF line = NoLine THEN rb
    ELSE [rb EXCEPT !.line = line, !.crossDir = 0, !.dirty = @ \cup {"other"}]

\* MUTANT: splits timed at the gates before survive.
SetSectorGates_KeepsSplits(rb, gates) == [rb EXCEPT !.gates = gates]

SetSectorGates(rb, gates) == [rb EXCEPT !.gates = gates, !.splits = << >>]

\* learnFinishLineHere() once canLearnFinishLine() holds. It announces the new
\* line, then an empty gate list.
LearnFinishLineHere(rb, line) == [SetFinishLine(rb, line) EXCEPT !.gates = NoGates]

\* MUTANT: the best lap survives.
ResetLapState_KeepsBest(rb) ==
    [rb EXCEPT !.running = FALSE, !.lapNumber = 0, !.age = 0,
               !.from = NoLine, !.splits = << >>, !.dirty = @ \cup {"other"}]

ResetLapState(rb) ==
    [rb EXCEPT !.running = FALSE, !.lapNumber = 0, !.bestMs = 0, !.age = 0,
               !.from = NoLine, !.splits = << >>, !.dirty = @ \cup {"other"}]

\* It announces the all-zero line, then an empty gate list.
ClearFinishLine(rb) ==
    [ResetLapState(rb) EXCEPT !.line = NoLine, !.started = FALSE,
                              !.crossDir = 0, !.gates = NoGates]

ResetLapCounters(rb) == ResetLapState(rb)

\* MUTANT: the last fix survives the disconnect.
OnConnectionStateChanged_KeepsFix(rb, connected) ==
    IF connected = rb.connected THEN rb
    ELSE IF connected THEN [rb EXCEPT !.connected = TRUE, !.dirty = @ \cup {"other"}]
    ELSE [rb EXCEPT !.connected = FALSE, !.hasFix = FALSE,
                    !.anchor = FALSE, !.speed = 0, !.dirty = {"fix", "other"}]

OnConnectionStateChanged(rb, connected) ==
    IF connected = rb.connected THEN rb
    ELSE IF connected THEN [rb EXCEPT !.connected = TRUE, !.dirty = @ \cup {"other"}]
    ELSE [rb EXCEPT !.connected = FALSE, !.hasFix = FALSE, !.prevFix = FALSE,
                    !.anchor = FALSE, !.speed = 0, !.dirty = {"fix", "other"}]

\* The heading goes stale by itself while the car stands (kHeadingMaxAgeMs).
HeadingAges(rb) == [rb EXCEPT !.heading = "stale"]

\* emitNotifications(): the 10 Hz tick. hasFixChanged goes out with "fix".
EmitNotifications(rb) ==
    IF rb.dirty = {} /\ ~rb.running THEN rb
    ELSE [rb EXCEPT !.dirty = {}, !.shown = LapTimerState(rb)]

----------------------------------------------------------------------------
\* updateLapTiming(): the sector gate that is due, in order and right way only.
SectorHit(rb, d) ==
    LET due == Len(rb.splits) + 1
    IN  /\ rb.running /\ due <= Len(rb.gates.dir)
        /\ d.sector # 0 /\ rb.gates.dir[due] \in {0, d.sector}

TestSector(rb, d) ==
    IF SectorHit(rb, d)
    THEN [rb EXCEPT !.gates.dir[Len(rb.splits) + 1] = d.sector,
                    !.splits = Append(@, [ms |-> rb.age + d.sectorAt,
                                          list |-> GateList(rb.gates)])]
    ELSE rb

\* deriveSectorGates(), on the first lap to finish with no gates.
DeriveSectorGates(rb, d) ==
    IF rb.gates.dir = << >> /\ d.derived # << >>
    THEN [base |-> rb.line, from |-> rb.from, dir |-> d.derived]
    ELSE rb.gates

\* When the s-th sector of a lap ends, and the times between.
SectorEnd(splits, lapMs, s) ==
    IF s = 0 THEN 0 ELSE IF s > Len(splits) THEN lapMs ELSE splits[s].ms

SectorTimesOf(splits, lapMs) ==
    [s \in 1..Len(splits) + 1 |->
        SectorEnd(splits, lapMs, s) - SectorEnd(splits, lapMs, s - 1)]

\* MUTANT: some splits will do.
SectorTimes_Partial(splits, gates, lapMs) ==
    IF gates.dir = << >> THEN << >> ELSE SectorTimesOf(splits, lapMs)

\* All splits or none.
SectorTimes(splits, gates, lapMs) ==
    IF gates.dir = << >> \/ Len(splits) # Len(gates.dir) THEN << >>
    ELSE SectorTimesOf(splits, lapMs)

\* The lap a crossing of the finish line completes: its number, its times, the
\* gates it is reported against and those its splits were timed at.
LapCompleted(rb, gates, lapMs) ==
    [number |-> rb.lapNumber, ms |-> lapMs,
     sectors |-> SectorTimes(rb.splits, gates, lapMs),
     gates |-> GateList(gates),
     timedAt |-> [s \in DOMAIN rb.splits |-> rb.splits[s].list]]

\* The lap the crossing starts. `age` is rebased to the fix before the crossing.
StartLap(rb, d) ==
    [rb EXCEPT !.lapNumber = @ + 1, !.running = TRUE, !.started = TRUE,
               !.splits = << >>, !.from = rb.line, !.age = -d.at,
               !.dirty = @ \cup {"other"}]

\* Crossings that are tested at all: a line, a moving car, no gap in the fixes.
Timed(rb, d) ==
    /\ rb.line # NoLine
    /\ d.speed > kStationarySpeedKmh
    /\ d.dt <= kMaxFixGapMs

\* The finish gate is tested after the sector gate: wrong-way crossings are
\* ignored, the first one latches the direction even if the debounce drops it.
\* The result is the new state, the lap reported and whether gates were learned.
UpdateLapTiming(rb0, d) ==
    LET rb == TestSector(rb0, d)
        latched == [rb EXCEPT !.crossDir = d.cross]
        lapMs == rb.age + d.at
        gates == DeriveSectorGates(rb, d)
        closed == [latched EXCEPT
            !.gates = gates,
            !.bestMs = IF @ = 0 \/ lapMs < @ THEN lapMs ELSE @]
    IN  IF ~Timed(rb0, d)
        THEN [rb |-> rb0, lap |-> NoLap, learned |-> FALSE]
        ELSE IF d.cross = 0 \/ rb.crossDir \notin {0, d.cross}
        THEN [rb |-> rb, lap |-> NoLap, learned |-> FALSE]
        ELSE IF rb.running /\ lapMs < kMinLapMs
        THEN [rb |-> latched, lap |-> NoLap, learned |-> FALSE]
        ELSE IF rb.running /\ rb.lapNumber > 0
        THEN [rb |-> StartLap(closed, d), lap |-> LapCompleted(rb, gates, lapMs),
              learned |-> gates # rb.gates]
        ELSE [rb |-> StartLap(latched, d), lap |-> NoLap, learned |-> FALSE]

\* MUTANT: a fix that comes or goes sets no dirty bit.
TakeStatus_NotDirty(rb, d) ==
    LET lost == rb.hasFix /\ ~d.fix
    IN  [rb EXCEPT !.hasFix = d.fix, !.speed = d.speed,
                   !.prevFix = @ /\ ~lost, !.anchor = @ /\ ~lost]

\* onData() up to setSpeedKmh().
TakeStatus(rb, d) ==
    LET lost == rb.hasFix /\ ~d.fix
    IN  [rb EXCEPT !.hasFix = d.fix, !.speed = d.speed,
                   !.prevFix = @ /\ ~lost, !.anchor = @ /\ ~lost,
                   !.dirty = IF d.fix = rb.hasFix THEN @ ELSE @ \cup {"fix"}]

\* The rest of onData(), for a sample with a fix.
TakeFix(rb, d) ==
    LET headed == [rb EXCEPT !.anchor = TRUE,
                             !.heading = IF rb.anchor /\ d.moved THEN "fresh" ELSE @]
        timed == IF rb.prevFix THEN UpdateLapTiming(headed, d)
                 ELSE [rb |-> headed, lap |-> NoLap, learned |-> FALSE]
    IN  [timed EXCEPT !.rb.prevFix = TRUE,
                      !.rb.age = IF timed.rb.running THEN @ + d.dt ELSE 0,
                      !.rb.dirty = IF timed.rb.running THEN @ \cup {"other"} ELSE @]

OnData(rb, d) ==
    LET seen == TakeStatus(rb, d)
    IN  IF d.fix THEN TakeFix(seen, d)
        ELSE [rb |-> [seen EXCEPT !.dirty = IF rb.running THEN @ \cup {"other"} ELSE @],
              lap |-> NoLap, learned |-> FALSE]
=============================================================================
