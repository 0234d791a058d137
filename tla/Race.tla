-------------------------------- MODULE Race --------------------------------
(***************************************************************************)
(* The race subsystem as main.cpp wires it: RaceBoxModel, TrackModel and   *)
(* SessionModel, the files they keep, the receiver, the driver and the     *)
(* process that may end at any time. All of it runs on the Qt main thread, *)
(* so an action is one handler with every slot its signals reach.          *)
(***************************************************************************)
EXTENDS TrackModel, SessionModel

CONSTANTS
    InitialFiles, \* tracks-user.json as earlier runs may have left it
    Starred,      \* bound: tracks the driver makes favourites
    Links,        \* bound: connection states the receiver reports
    CanSpeeds,    \* speeds the CAN model shows
    Stamps,       \* local times a session is filed under
    DiskFaults,   \* a write may fail, be cut short or be the last one
    MaxLines,     \* bound: finish lines learned
    MaxAge,       \* bound: age of a lap
    MaxLaps,      \* bound: laps of a session
    MaxSessions,  \* bound: sessions kept
    MaxRestarts   \* bound: times the process ends

ASSUME RaceAssumption ==
    /\ Starred \subseteq Tracks /\ Links \subseteq BOOLEAN
    /\ CanSpeeds \subseteq Nat /\ 0 \in CanSpeeds
    /\ Stamps \subseteq Nat
    /\ DiskFaults \in BOOLEAN
    /\ MaxLines \in Nat /\ MaxAge \in Nat /\ MaxLaps \in Nat
    /\ MaxSessions \in Nat /\ MaxRestarts \in Nat

\* What loadUserState() takes from a file persistUserState() wrote, by this
\* program or an earlier one: any track, a line or none for every slot, and no
\* gates or a list of any length, with or without their directions.
UserState(f) ==
    /\ f = Persisted(f)
    /\ f.active \in Slots /\ f.favorites \subseteq Tracks
    /\ DOMAIN f.lines = Slots /\ DOMAIN f.gates = Slots
    /\ \A s \in Slots :
          \/ f.gates[s] = NoGates
          \/ /\ DOMAIN f.gates[s] = {"base", "from", "dir"}
             /\ f.gates[s].dir \in Seq(Directions) /\ f.gates[s].dir # << >>

ASSUME InitialFilesAssumption ==
    \A f \in InitialFiles : IF f = TornFile THEN DiskFaults ELSE UserState(f)

VARIABLES
    rb,           \* RaceBoxModel
    tm,           \* TrackModel
    se,           \* SessionModel
    userFile,     \* tracks-user.json
    dbFile,       \* the downloaded track-db.json, or NoDb
    sessionsFile, \* sessions.json
    learned,      \* finish lines learned so far: line n is the n-th
    restarts,     \* process ends so far
    lost          \* history: "user", "sessions": the file's last write failed

files == <<userFile, dbFile, sessionsFile, lost>>
vars == <<rb, tm, se, files, learned, restarts>>

\* The first pass of the event loop is behind us.
Ready == tm.loaded

----------------------------------------------------------------------------
\* main(): the models constructed and wired, then applyStartupFinishLine()
\* before the database is there.
Started(user, sessions) ==
    LET fresh == TrackInit(user)
    IN  [rb |-> ApplyLine(RaceBoxInit, fresh, fresh.active),
         tm |-> LatchSlot(fresh, fresh.active),
         se |-> SessionInit(sessions)]

Init ==
    /\ userFile \in InitialFiles /\ dbFile = NoDb /\ sessionsFile = << >>
    /\ rb = Started(userFile, << >>).rb
    /\ tm = Started(userFile, << >>).tm
    /\ se = Started(userFile, << >>).se
    /\ learned = 0 /\ restarts = 0 /\ lost = {}

\* The process ends, by power cut or update, and starts again.
Restart ==
    /\ restarts < MaxRestarts /\ restarts' = restarts + 1
    /\ rb' = Started(userFile, sessionsFile).rb
    /\ tm' = Started(userFile, sessionsFile).tm
    /\ se' = Started(userFile, sessionsFile).se
    /\ lost' = {}
    /\ UNCHANGED <<userFile, dbFile, sessionsFile, learned>>

\* The zero timer of TrackModel's constructor.
DeferredLoad ==
    /\ ~Ready
    /\ tm' = LoadDatabase(tm, dbFile)
    /\ rb' = ApplyLine(rb, tm', tm'.active)
    /\ UNCHANGED <<se, files, learned, restarts>>

\* Whether the last write of a file came through.
Written(file) == lost' = lost \ {file}
WriteFailed(file) == DiskFaults /\ lost' = lost \cup {file}

\* tracks-user.json after the writes of a handler, each of the whole file and
\* truncating it first: the last one, or, when it fails, what it found or left.
UserStateWritten(writes) ==
    \/ writes = << >> /\ UNCHANGED <<userFile, lost>>
    \/ writes # << >> /\ userFile' = Last(writes) /\ Written("user")
    \/ writes # << >> /\ userFile' \in {userFile, TornFile} \cup Range(Front(writes))
       /\ WriteFailed("user")

\* The handler has returned `handled`, its writes with it.
TrackHandled(handled) ==
    /\ tm' = [handled EXCEPT !.writes = << >>]
    /\ UserStateWritten(handled.writes)

----------------------------------------------------------------------------
\* The receiver.
Data(d) ==
    LET seen == TakeStatus(rb, d)
        done == OnData(rb, d)
        noticed == IF d.speed = rb.speed THEN tm ELSE OnSpeedKmhChanged(tm, seen)
    IN  /\ Ready
        /\ rb.running /\ d.fix => rb.age + d.dt <= MaxAge
        /\ rb' = done.rb
        /\ TrackHandled(IF done.learned THEN OnSectorGatesLearned(noticed, done.rb.gates)
                        ELSE noticed)
        /\ se' = OnLapCompleted(se, done.lap)
        /\ Len(se'.laps) <= MaxLaps
        /\ UNCHANGED <<dbFile, sessionsFile, learned, restarts>>

Connection(connected) ==
    /\ Ready /\ rb.connected # connected
    /\ rb' = OnConnectionStateChanged(rb, connected)
    /\ UNCHANGED <<tm, se, files, learned, restarts>>

\* The 10 Hz tick of the lap timer.
NotifyTick ==
    /\ rb' = EmitNotifications(rb)
    /\ tm' = IF "fix" \in rb.dirty THEN OnHasFixChanged(tm, rb.hasFix) ELSE tm
    /\ UNCHANGED <<se, files, learned, restarts>>

HeadingStale ==
    /\ rb.heading = "fresh"
    /\ rb' = HeadingAges(rb)
    /\ UNCHANGED <<tm, se, files, learned, restarts>>

\* The driver, on the dashboard. The status bar offers to learn or to reset
\* the line unless it shows it locked.
LearnLine ==
    /\ ~tm.shownLocked /\ rb.line = NoLine /\ CanLearnFinishLine(rb)
    /\ learned < MaxLines /\ learned' = learned + 1
    /\ rb' = LearnFinishLineHere(rb, learned')
    /\ TrackHandled(OnSectorGatesLearned(OnFinishLineLearned(tm, learned'), NoGates))
    /\ UNCHANGED <<se, dbFile, sessionsFile, restarts>>

ResetLine ==
    /\ Ready /\ ~tm.shownLocked /\ rb.line # NoLine
    /\ rb' = ClearFinishLine(rb)
    /\ TrackHandled(OnFinishLineCleared(tm))
    /\ UNCHANGED <<se, dbFile, sessionsFile, learned, restarts>>

Accept ==
    /\ tm.suggested # NoTrack
    /\ LET active == AcceptSuggestedTrack(tm)
       IN  /\ rb' = ApplyLine(rb, active, active.active)
           /\ TrackHandled(LatchSlot(active, active.active))
    /\ UNCHANGED <<se, dbFile, sessionsFile, learned, restarts>>

Dismiss ==
    /\ tm.suggested # NoTrack
    /\ tm' = DismissSuggestedTrack(tm, rb.hasFix)
    /\ UNCHANGED <<rb, se, files, learned, restarts>>

\* The driver, in the track browser.
Select(id) ==
    /\ id \in DOMAIN tm.db
    /\ LET active == SelectTrack(tm, id)
           found == FinishLineFor(active, id) # NoLine
       IN  /\ rb' = IF found THEN ApplyLine(rb, active, id) ELSE ClearFinishLine(rb)
           /\ TrackHandled(IF found THEN LatchSlot(active, id)
                           ELSE OnFinishLineCleared(active))
    /\ UNCHANGED <<se, dbFile, sessionsFile, learned, restarts>>

Deselect ==
    /\ Ready /\ tm.active # NoTrack
    /\ TrackHandled(ClearActiveTrack(tm, rb.hasFix))
    /\ UNCHANGED <<rb, se, dbFile, sessionsFile, learned, restarts>>

Favorite(id) ==
    /\ id \in DOMAIN tm.db \cap Starred
    /\ TrackHandled(ToggleFavorite(tm, id))
    /\ UNCHANGED <<rb, se, dbFile, sessionsFile, learned, restarts>>

Refresh ==
    /\ Ready /\ ~tm.refreshing /\ Databases # {}
    /\ tm' = RefreshDatabase(tm)
    /\ UNCHANGED <<rb, se, files, learned, restarts>>

RefreshAnswered(db) ==
    /\ tm.refreshing
    /\ tm' = TakeDatabase(tm, db)
    /\ dbFile' = db \/ (DiskFaults /\ dbFile' \in {dbFile, NoDb})
    /\ UNCHANGED <<rb, se, userFile, sessionsFile, lost, learned, restarts>>

RefreshFails ==
    /\ tm.refreshing
    /\ tm' = RefreshFailed(tm)
    /\ UNCHANGED <<rb, se, files, learned, restarts>>

\* m_detectTimer; `nearest` is not dismissed and, with no fix yet, anywhere.
Scan(nearest) ==
    /\ tm.scanning
    /\ tm' = ScanNearestTrack(tm, rb.speed, nearest)
    /\ UNCHANGED <<rb, se, files, learned, restarts>>

----------------------------------------------------------------------------
\* The CAN model's speed, and its 10 Hz tick.
CanMoves(kmh) ==
    /\ Ready /\ kmh # se.speed
    /\ se' = CanSpeed(se, kmh)
    /\ UNCHANGED <<rb, tm, files, learned, restarts>>

CanTick ==
    /\ se.speedDirty
    /\ se' = OnSpeedChanged(se)
    /\ UNCHANGED <<rb, tm, files, learned, restarts>>

\* persist(); load() gives up on a file that was cut short.
SessionsSaved ==
    \/ sessionsFile' = se'.sessions /\ Written("sessions")
    \/ sessionsFile' \in {sessionsFile, << >>} /\ WriteFailed("sessions")

\* The button shows while canSave. The clock may have been set back, or left
\* summer time, since the session before: any stamp may come, or come again.
SaveSession(stamp) ==
    /\ se.canSave /\ Len(se.sessions) < MaxSessions
    /\ se' = SaveCurrentSession(se, stamp, tm.active)
    /\ SessionsSaved
    /\ rb' = ResetLapCounters(rb)
    /\ UNCHANGED <<tm, userFile, dbFile, learned, restarts>>

RemoveSession(i) ==
    /\ se' = DeleteSession(se, se.sessions[i].stamp)
    /\ SessionsSaved
    /\ UNCHANGED <<rb, tm, userFile, dbFile, learned, restarts>>

Receiver ==
    \/ \E d \in Samples : Data(d)
    \/ \E connected \in Links : Connection(connected)
    \/ HeadingStale

Timers ==
    \/ NotifyTick \/ CanTick
    \/ \E nearest \in (DOMAIN tm.db \ tm.dismissed) \cup {NoTrack} : Scan(nearest)
    \/ \E kmh \in CanSpeeds : CanMoves(kmh)

Driver ==
    \/ LearnLine \/ ResetLine \/ Accept \/ Dismiss \/ Deselect
    \/ \E id \in Tracks : Select(id) \/ Favorite(id)
    \/ \E stamp \in Stamps : SaveSession(stamp)
    \/ \E i \in DOMAIN se.sessions : RemoveSession(i)

Server ==
    \/ Refresh \/ RefreshFails
    \/ \E db \in Databases : RefreshAnswered(db)

\* Ready guards what could come before DeferredLoad: the first pass of the event
\* loop runs the zero timer, the receiver takes a Bluetooth discovery and the
\* driver a drawn frame to come after it.
Next ==
    \/ Restart \/ DeferredLoad
    \/ Receiver \/ Timers \/ Driver \/ Server

Spec == Init /\ [][Next]_vars

----------------------------------------------------------------------------
\* Sector gates are only ever live with the line they were derived against:
\* every path that replaces the line replaces or drops the gates with it, over
\* selections, borrowed global lines, resets and restarts (trackmodel.h:92). A
\* database that moves a line, or power cut between two writes, breaks it.
GatesFitLine == rb.gates # NoGates => rb.gates.base = rb.line

\* What is stored under a slot comes back as a pair: gates kept for a slot that
\* has a line were derived against that line.
StoredGatesFit ==
    \A s \in Slots : tm.gates[s] # NoGates /\ GateFor(tm, s) # NoLine
                        => tm.gates[s].base = GateFor(tm, s)

\* Nothing the driver chose or learned, and no session, is only in memory: unless
\* the last write of a file failed, a restart after any handler reads back what
\* the models hold, however many writes failed, or were cut short, before.
FilesAreCurrent ==
    /\ "user" \notin lost => LoadUserState(userFile) = Persisted(tm)
    /\ "sessions" \notin lost => sessionsFile = se.sessions

\* lapTimerStateChanged never slips past the early return of the notify tick:
\* with no dirty bit pending, listeners know the current state
\* (raceboxmodel.cpp:661).
ListenersKnowState == rb.dirty = {} => rb.shown = LapTimerState(rb)

\* No fix from before a dropout or a disconnect is bridged to one after it.
NoStaleFix == rb.prevFix \/ rb.anchor => rb.hasFix

\* A suggestion is only on screen while the car is parked with no track active
\* and none picked by hand, and the scan rests meanwhile.
SuggestionOnlyParked ==
    tm.suggested # NoTrack =>
        /\ tm.active = NoTrack /\ ~tm.manual /\ ~tm.scanning
        /\ rb.speed <= kStationarySpeedKmh

\* The scan is never lost: with a fix the listeners know of, no track active,
\* none picked and none suggested, it is running (trackmodel.cpp:79).
ScanWhenUseful ==
    /\ rb.hasFix /\ "fix" \notin rb.dirty
    /\ tm.active = NoTrack /\ ~tm.manual /\ tm.suggested = NoTrack
    => tm.scanning

\* No lap is stitched from two gate lists: each split of a reported lap was timed
\* at a gate of the very list the lap is reported against, one for each of them,
\* whatever was selected, accepted, reset or saved while the lap was driven; and
\* its times are in order and add up (raceboxmodel.cpp:195, 516).
SplitsOfOneList ==
    \A i \in DOMAIN se.laps :
        LET lap == se.laps[i]
        IN  lap.sectors # << >> =>
                /\ lap.timedAt = [s \in 1..lap.gates.count |-> lap.gates]
                /\ Len(lap.sectors) = lap.gates.count + 1
                /\ Total(lap.sectors) = lap.ms
                /\ \A s \in 1..lap.gates.count : lap.sectors[s] >= 0

\* The lap timer and the session agree on the laps since the last reset: the
\* dash never counts a lap the session lacks, and its best lap is the best of
\* those laps.
TimerFollowsSession ==
    LET count == IF rb.lapNumber = 0 THEN 0 ELSE rb.lapNumber - 1
        recent == {se.laps[i].ms : i \in Len(se.laps) - count + 1..Len(se.laps)}
    IN  /\ count <= Len(se.laps)
        /\ rb.running = (rb.lapNumber > 0)
        /\ IF count = 0 THEN rb.bestMs = 0
           ELSE rb.bestMs \in recent /\ \A ms \in recent : rb.bestMs <= ms

=============================================================================
