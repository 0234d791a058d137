# TLA+ models of race-dash

A dashboard for a race car on a Raspberry Pi: it shows CAN and GPS data, times
laps, stores sessions and tracks, updates itself, and uploads telemetry over a
marginal LTE link. This directory holds specifications of its stateful parts,
the TLC runs that check them, and TLAPS proofs about them. Paths below are
relative to the repository.

## 1. Inventory

The program is one Qt process. Everything except libmosquitto's network thread,
the log writer's callers and child processes runs on the main thread's event
loop, so each slot or event handler is atomic, and the hard behaviour comes from
the order of slots: queued callbacks, timers, child processes that end later,
links that drop, and power that is cut without warning.

| Component | State | Operations | Talks to | What makes it correct |
|---|---|---|---|---|
| `cloud/uplinkspool` | SQLite table, cached row counter, latched open failure | open, append (with eviction), peekRun, releaseThrough, clear | called by UplinkModel | FIFO; rows leave from the front; counter exact; ids never shared; bounded |
| `cloud/uplinkmodel` | shown state, session (sid, seq), drain, sampler timer | start, applyConfiguration, unpair, shutdown, lap timer and client slots, 10 Hz sample tick | spool, client, CloudConfig, RaceBoxModel, SessionModel | every accepted message reaches the broker, in order, or overflows or is discarded by unpairing; the drain never strands; the page tells the truth |
| `cloud/mosquittocloudclient` | handle, generation, connected flag, posted callbacks | connectToBroker, disconnectFromBroker, publish, three trampolines and handlers | libmosquitto thread, UplinkModel | a callback of a dead handle changes nothing; connected means connected |
| `cloud/cloudconfig` | enabled, broker, device id, credential, on disk | setters, atomic persist | settings page | a setting survives a restart; never torn |
| `main.cpp` | process phase | construction, first frame, aboutToQuit, exit | all | nothing touches card or network before the first frame; a quit closes the session |
| `race/raceboxmodel` | line, gates, running lap, traces, lap-timer state, dirty bits | onData, learn/clear/set line, 100 ms notifications | TrackModel, SessionModel, UplinkModel | laps and sectors add up; state changes are reported |
| `race/sessionmodel`, `race/optimallap` | laps of the open session, saved sessions | lapCompleted, save, delete | RaceBoxModel, TrackModel, file | a saved session holds its own laps only; peaks reset at one point |
| `race/trackmodel` | tracks, locked/suggested/active track, line and gates per track slot | select, suggest, accept, clear, learn, undo | RaceBoxModel, file | the live line is the stored line of the active slot |
| `race/raceboxprovider` | scanner, controller, BLE connection | scan, connect, disconnect, retry | RaceBoxModel | always scanning or connected |
| `can/candatamodel` and providers | gauges, warnings, time-outs | onFrame, ticks | UI | a warning appears and clears by its rule; stale data is shown as stale |
| `device/updatemodel` | update state, error, process step, install stage, password, rollback reference | check, password, install, cancel, reboot, reset | git, sudo, `install.sh`, systemctl, the version page | what the page says is installed is; the password does not outlive the install; no state waits for ever |
| `device/networkmodel` | Wi-Fi and wired status, networks, connect state, poll flag, scan tick | poll, connect, password, cancel, toggle, acquire, release | nmcli, the Wi-Fi page | calls that must not meet are kept apart; the page ends up showing what NetworkManager has |
| `device/timemodel` | busy flag, sync state, online, bootstrap flag on disk | start, set clock, sync from GPS, set zone, toggle NTP, acquire, release | timedatectl, nmcli, two look-up services, the time page | one write at a time; sync turned off stays off; the page catches up |
| `device/logbuffermodel` | ring per level, write queue, file, counter of new entries | handler on any thread, flush, rotate, refresh | file, the log page | no message disappears silently; order; rotation keeps the recent lines; the counter shown catches up |
| `device/dashconfig`, `displaymodel`, `devicestatsmodel`, `sdnotify`, `core/*` | settings; otherwise nearly stateless I/O | setters, samples | files, sysfs | round trip and migration |
| `qml/` | presentation | calls into the models | all | - |

The order of importance chosen: the uplink first. It is where a thread, a timer,
a durable store, an unreliable link and power cuts meet, and where the source's
own comments record several races already fixed. Then the race subsystem: three
models that call into each other through signals, four files' worth of state, and
a driver who may do anything in any order. Then the three settings models that run
child processes: their answers come late, out of order, or never.

## 2. Modules

| Module | Models |
|---|---|
| `UplinkSpool` | `cloud/uplinkspool.*`: the table as a set of rows with ids, `rowCount`, the open latch, each SQL statement with its failure, and the table a power cut falls back to |
| `SpoolWorkload` | the spool driven by any calls in any order, unbounded, for the proofs |
| `MosquittoCloudClient` | `cloud/mosquittocloudclient.*` and what it relies on of libmosquitto and the broker |
| `UplinkModel` | `cloud/uplinkmodel.*`, composed with the two above, the stored configuration, the lap timer as the uplink sees it, and the process |
| `DurableOutbox` | the abstract promise: a durable, capped FIFO whose rows leave delivered, overflowed or unpaired |
| `RaceBoxModel` | `race/raceboxmodel.*`: crossings, laps, sector splits, dirty bits, as functions on a record |
| `TrackModel` | `race/trackmodel.*`: database, active track, stored lines and gates per slot, suggestion, likewise |
| `SessionModel` | `race/sessionmodel.*`: laps of the session, canSave, saved sessions, likewise |
| `OptimalLap` | `race/optimallap.cpp`, a pure function |
| `Race` | the three models wired as in `main.cpp`, their files, the receiver, the CAN speed, the driver, the track server, and restarts |
| `UpdateModel` | `device/updatemodel.*`: the process chains, with the version page, the working tree, `install.sh` as far as it prints and replaces, and the power |
| `NetworkModel` | `device/networkmodel.*`: the poll chain, the switch and the attempts to join, with NetworkManager as far as nmcli shows and changes it, and the Wi-Fi page |
| `TimeModel` | `device/timemodel.*`: reads, write chains and the bootstrap, with what timedatectl and NetworkManager keep, and the time page |
| `LogBufferModel` | `device/logbuffermodel.*`: the message handler on any thread, the queue and the entries per level, the writer and its rotation, the counter of new entries, `dash.log` across crashes and quits |
| `SpoolWorkload_proof`, `UplinkModel_proof`, `Race_proof`, `OptimalLap_proof`, `UpdateModel_proof`, `NetworkModel_proof`, `TimeModel_proof`, `LogBufferModel_proof` | proofs |
| `MCUplinkModel`, `MCRace`, `MCOptimalLap` | instances for TLC; the settings and log models need no more than a `.cfg` |

How they meet the code. A Qt signal with a direct connection is a call, so an
action contains the slots it reaches: `NotifyTick` is `emitNotifications()`
followed by `onLapTimerStateChanged()`, `beginSession()`, `updateSampling()` and
`dispatch()`; `EditConfig` is a QML setter followed by `applyConfiguration()`,
`shutdownLink()` and the `onClientDisconnected()` that `disconnected()` calls.
The client's half of such a step is an operator of `MosquittoCloudClient`; the
model's half is conjoined in `UplinkModel`. The three trampolines append a
record to `hops`; the three handlers take the oldest, after `Stale`
(`isStale()`). Payloads are abstracted to topic (device and kind), session and
sequence number. The notification tick is enabled whenever its effect would
differ from nothing.

In the race subsystem one handler may run through all three models and back: a
fix that completes a lap derives gates (RaceBoxModel), stores them (TrackModel)
and files the lap (SessionModel) before it returns. So each model is a record,
each slot a function from records to records named as in the code, and an action
of `Race` composes them in the order of the calls: `Select` is `selectTrack()`,
`setActiveTrack()`, then `applyFinishLine` and `applySectorGates`, or
`clearFinishLine()` and the two signals that brings back. `ApplyLine` and
`LatchSlot` are the two halves of `emitFinishLineFor()`. A handler calls
`persistUserState()` wherever the code does, up to three times: `PersistUserState` appends to `writes`,
and `TrackHandled` turns the list into the file once the handler has returned
(`UserStateWritten`): the last write, or, with `DiskFaults`, what it found, an earlier one of the
handler, or a file cut short. `lost` remembers whose last write failed. `tm.shownLocked` is what the status bar last read of
`activeTrackFinishLineLocked`; `activeTrackChanged()` is all that makes it read again.

Geometry is abstracted to what the lap logic can tell apart. A line is an
identity; a list of gates has any length (a stored one need not be the two
`deriveSectorGates()` makes) and remembers the line it was derived against and the line
its trace began at; a split remembers the list it was timed at; a sample says which gates the segment from the last fix
crosses, in which direction and when, whether `kHeadingAnchorM` was covered, and
what `deriveSectorGates()` would make of the trace. Every combination is allowed
unless the sample sets of `MCRace` leave it out. Time is in ticks, kept as the age
of the current lap, so a state does not name the hour.

A child process is a record in the settings models, and its end an action that
contains the whole callback, `finish()` included, and the start of the next step.
`UpdateModel` keeps at most one process in `proc` (`m_proc`); when a driver leaves
the page and starts another chain, `startProcessStep()` lets go of the one that
runs and `deleteLater()` destroys it: `doomed`. A release build compiles
`Q_ASSERT` out, and the destructor of a running `QProcess` kills it and waits, so its
handler runs once more (`KillDoomed`). `sudo` runs `install.sh`; a killed `sudo` is
taken to have stopped it. The stages of the script are "earlier" (any
that leaves alone what the next boot runs), "activating", which replaces the binary and then the
unit, and "done", whose marker it prints when both are in place (`install.sh:502`). What it printed may be unread, or unterminated, when it ends
(`unread`). `head` is the checkout, `installed` the binary and the unit; `claim` is
what the error text says of them.

In `NetworkModel` and `TimeModel` the calls that run are sets of records. A read
carries what it would have found when it began, and is answered with that or with
what is found when it ends: that is all an nmcli or timedatectl call guarantees. A
write takes effect in an action of its own before its answer, or after it was
killed by its timeout never. `shown` and `ip` name the link whose name or address
the page has. `refs` counts the pages (`acquire`, `release`); the menu and the
detail page on it are two. Buttons and rows are guards: the password modal covers the
rows, a busy switch takes no tap.

`LogBufferModel` is where threads meet, so its steps are finer: one ends where the lock
is released, where an atomic is read or written, and at each call to the file system.
A thread of `Loggers` is anywhere in `handleMessage()` (`calls`); `main` says where the
main thread is between the timer's tick, the batch, the note about dropped messages, the three calls of
`rotateIfNeeded()`, and the page's read of the counter. A line is its message's number, 0
for the note. `main` is "off" after the destructor, when the threads that log are taken to have
ended, and "dead" after a kill, which keeps a front of what `QFile` had buffered.

What is external and how it is assumed: a QoS 1 message stays in its handle until
the PUBACK and goes out again after every CONNACK; a QoS 0 message lives on the
wire; the broker takes a connection's messages in order; message ids count from 1
in each handle; SQLite under WAL and `synchronous = NORMAL` loses at most the
last commit at a power cut. That last one is the source's own statement
(`uplinkspool.cpp:77`); SQLite documents a weaker guarantee (every commit since
the last checkpoint), and nothing is shown here for that.

Definitions called `X_Something` after `\* MUTANT` are faulty variants of `X`;
each stands for a plausible mistake and no specification uses it.

## 3. Runs

| Run | Instance | Question |
|---|---|---|
| `uplink` | 1 car, cap 2, batch 2, 1 session of 1 frame, 2 lost or refused connections, 1 settings change, 1 quit or power cut, fair | types, acknowledged means taken, the drain, the shown state, the sampler; a serving uplink gets and stays online, and empties its backlog |
| `uplink_sql_faults` | 2 device ids, cap 2, batch 2, 1 session of 2 frames, 1 settings change or unpairing, 1 quit or power cut; append, evict, release, peek fail; power cut undoes a commit; connecting fails | counter exact; the order of a session survives; no packet mixes cars or kinds; it implements `DurableOutbox` |
| `race_tracks` | 2 tracks (one surveyed, its stored list a gate longer than what 2 sectors make), a global line, 1 learned line, a favourite, 1 lap | which line and gates are live and stored; no lap is stitched from two gate lists |
| `race_timing` | 1 track, 1 line, 3 sectors, 2 laps of at most 2 ticks; every crossing, both ways, jitter, stalls, dropouts, disconnects, 1 restart | listeners are told; no stale fix; no split is missing or wrong; the timer agrees with the session; scan and suggestion |
| `race_files` | 1 track, a global line, 1 lap, 1 saved session, 2 CAN speeds, a refresh, 1 restart; every write able to fail or to be cut short, a damaged file at the start | nothing is only in memory after a write that came through |
| `optimal_lap` | every session of up to 3 laps, 2 sectors, times 0 to 2, the lap timer's numbers starting over anywhere | `compute()` against its definition; it credits the laps that drove |
| `update` | versions 1 and 2, 2 passwords (right or wrong), 2 requests in flight, 1 power cut, any number of visits and steps, fair | no password lingers; the success screen is true and the claim after a failure hides no half-done swap; no waiting state lasts |
| `update_claim` (violation) | 1 request in flight, 1 password, no power cut | the claim that the previous version stays installed is wrong once the script printed "Done" |
| `network` | 2 networks, one secured, known or not, its saved password good or not; 3 moves, a scan every second poll, fair | calls are kept apart; the password goes to the network tapped; an open page ends up true |
| `time` | 1 read of a kind by timer and page, more by writes and start; 3 moves, 1 power cut, fair | one write at a time; off stays off; an open page catches up |
| `log` | 2 threads, 2 levels, 4 messages, entries, queue and rotation at 2, every disk call failing, 1 tap, 1 kill or quit | every message is accounted for; order over rotations and restarts; rotation keeps the recent lines; the page does not rest on a stale count |
| `stamp_window` (violation) | callbacks during `mosquitto_loop_stop()` | a stale callback is taken for the new handle's |

The passing runs leave out what the violation runs put in: `StampWindow` is FALSE
in them, so `ConnectedIsReal` and `AckedMeansTaken` hold under the assumption that no
callback is raised between `++m_generation` and the end of
`mosquitto_loop_stop()`.

`race_tracks` has neither refreshes nor disk faults: `GatesFitLine` and
`StoredGatesFit` hold without them; section 5 says what a refresh and a power cut
break. That the two hold over restarts, and that scan and suggestion survive a
refresh, is proved and not run: the file of a restart is one that the run reaches,
and `race_tracks` starts from one file only. `race_files` lets writes fail, refreshes
and restarts. A session may be saved under any stamp of `Stamps`, whatever came before:
the clock is set back, or summer time ends.

Bounds, all CONSTANTS: `MaxDrops` connections lost or refused, `MaxMids` packets
the broker takes from one handle, `MaxSessions`, `MaxSeq` frames per session,
`MaxEdits` settings changes, `MaxRestarts` ends of the process.
They are enough for each hazard to occur: two rows and a batch of two overflow
the cap, a run of the table is broken by a session event, two lost connections
let a callback of the first be queued behind the second, and one restart leaves a
backlog that a second run must find. The capacity is `MaxRows` in every run, 500000
in the code; what depends on it is proved for every value.

In `Race`: `MaxLines` lines learned, `MaxAge` of a lap, `MaxLaps` of a session,
`MaxSessions` kept, `MaxRestarts`, and the inputs `Samples`, `Links`, `CanSpeeds`,
`Stamps`, `Starred`, `Databases` and `InitialFiles`. A lap of two ticks crosses both sector gates
and the line (a fix may cross a gate and the line); two laps tell a best lap from the last; two tracks and the
global slot give one line to hold, one to borrow and one to leave. In `race_tracks` one sector gate is
derived and two are stored, so a lap begun on the one list and ended on the other can have the right number of splits. In
`MCOptimalLap` three laps are enough for a number to be given twice by the lap timer
with two complete laps beside it.

In `LogBufferModel`: `MaxMessages`, `MaxTaps`, `MaxRestarts`; `RotateAt` counts lines, not
bytes. Four messages fill the queue and overflow it, or rotate the file twice.

`uplink_sql_faults` leaves "open", "count" and "clear" out of `SqlFaults`: section 4 says what the refinement needs
of them. The theorems of the uplink that do not name these faults hold with them.
With one session it shows that no batch mixes cars or kinds; that none mixes sessions is proved.

In the settings models: `MaxHeads` requests in flight, `MaxSubmits` passwords,
`MaxBoots` power cuts (a reboot the driver asked for is not counted), `MaxReads` reads of one kind
running when the timer or the page starts another (a write adds its own, so an old answer of an NTP
read can overtake a new one; connectivity reads meet only where more is allowed, and a page opened during the reads of
`start()` is in `OffStaysOff`, which is proved for any `MaxReads`, and not in the run), and `MaxMoves`, which the driver's taps, the links that come and go and the
calls that fail without cause share. Two submits let a wrong password be followed by a right
one, two requests let the answer of an earlier visit fall into a chain of the next;
visits and checks are not bounded. Three moves are a failed attempt, the
next, and a link that changes between them, or a failed read between two writes.
A move that failed is never free, so the liveness properties say: once NetworkManager
or timedatectl stop changing and nmcli stops failing.

Deadlock is checked in every run: the driver can always cross or clear the line
while the program runs, and a program that has ended can always be started.

### Fairness

`FairSpec` is weakly fair for what the running program does by itself: the event
loop takes posted callbacks (`TakesHop`), the 100 ms and 10 Hz timers fire, the
first frame is shown (`Start`), libmosquitto retries without end
(`mosquitto_reconnect_delay_set` and the loop thread), and the broker answers.
In the settings models a child process ends, by its timeout at the latest
(`install.sh` has none and is assumed to end), a request is answered within its
5 s, a timer of an open page fires, and an accepted reboot happens; NetworkManager
need not start, nor take effect. Nothing is assumed of the driver or of the power. Connections fail at most
`MaxDrops` times, so both uplink properties read: once the link stays up.

## 4. Proofs

TLAPS checks, for every value of the constants:

* `SpoolWorkload_proof`: `SpoolSpec => []SpoolInv`. `CountExact` alone is not
  inductive: a release lowers the counter by the rows deleted, which is right
  only if the rows are a finite set, and an append raises it by one, which is
  right only if its id is new. So `SpoolInv` adds the types (no id at or above
  `nextId`), one row per id, the same for the table a power cut restores, and
  how the two differ (`UndoIsOneCommit`). It rests on one lemma
  per operation (`OpenInv`, `AppendInv`, `ReleaseInv`, `ClearInv`, `CloseInv`,
  `LosePowerInv`), from facts about `Oldest` (`ORDER BY id LIMIT n`): it takes a
  front of the table, and at most n rows, by an injection of the rows it takes
  into `0..n-1`. The other theorems are what the invariant gives, and the action
  properties `LeaveFromTheFront` and `EvictsOnlyOverflow`.
* `UplinkModel_proof`: `Spec => SpoolSpec`. The whole uplink implements the
  specification of its spool: every action of `UplinkModel` opens, appends to,
  releases from, clears, closes or leaves the spool alone, as one step of
  `SpoolWorkload`. The invariant behind it, `HandedInv`, adds to `SpoolInv` that
  what the uplink hands over is typed: the device, session and sequence number of
  a message, and the id a drain releases through, which comes from a row. So each
  property of the spool is a theorem of the uplink (`UplinkCountExact` and its
  neighbours); `uplink_sql_faults` checks some of the same definitions.
  Also `Spec => []SamplerAgrees`, over every action; it is inductive by itself. And
  `Spec => []RowsTellSessions`: `StoryInv` adds that what a power cut may bring back
  tells its sessions in order too, and that of the open session the table holds only what
  came before this moment, so the row an append adds comes last.
  Then what the uplink makes of its client, in layers, each an invariant that
  the next assumes.
  `LinkInv`: the queued callbacks of the current handle tell the link's story in order, so that a
  link that is not up means that the main thread does not believe in it, or will
  not once it has taken what is queued (`DownAfter`). `PacketInv`: a message id names one packet of a handle,
  about one session and topic. `PageInv`: a handle exists only while the uplink is started,
  enabled and configured. Together they are `ClientInv`, which gives `ConnectedIsReal`, `StateIsTrue` and
  `EnvelopeHasOneSession`. `DrainInv` follows the batch in flight: in the handle, on the wire, or
  behind its PUBACK it carries every row the PUBACK will release (`Carried`), although newer rows
  arrive and old ones are evicted meanwhile. It gives `AckedMeansTaken` and `DrainMoves`.
  From these, `Spec => IsDurableOutbox`: each action is one step of `DurableOutbox` or a stutter,
  which one being decided by what the spool's operation in it did (`AppendEffect`, `ReleaseEffect`).
  `BacklogInv`, beside `NoStrandedBacklog`, says that a live handle has its table open, and that a
  backlog nothing drains has the loss of the link on its way. `RestTyped` has the types nothing else needed.

* `UpdateModel_proof`: `[]TypeOK`, `[]PasswordWiped`, `[]SuccessIsWhole` and
  `[]ClaimHidesNoMix`, for any set of releases and any bounds. None but the first is inductive.
  `WholeInv` adds to `SuccessIsWhole` that beside a success screen, or a reboot on its way,
  only steps run that touch nothing, the process about to be killed included, and that no
  reboot runs in the states that lead to a chain. `HonestInv` ties what is replaced to what is
  announced: something is replaced only once the script announced the activation, and "Done" is printed only with the new version
  in place, binary and unit; the newest marker is in the pipe or in the stage (`Marked`); a rollback after a replacement
  runs with the stage "activating" or, the swap being whole, "done"; and while the page was not opened anew, script and rollback run in states
  that do not reset the stage.
* `NetworkModel_proof`: `[]OneOfEach` and `[]AsksAboutTapped`, for any finite set of networks and
  any number of moves. `OneOfEach` counts, which no step preserves as it stands, so each
  third is restated as "no call, or exactly this one" (`ChainInv`, `SwitchInv`, `JoinInv`);
  the last also types the attempt and carries `AsksAboutTapped`.
* `TimeModel_proof`: `[]WritesApart` and `[]LaterOffStays`, over any number of boots and reads.
  `TimeInv` says what a running write may count on (`Grounds`): synchronisation is off from
  the moment `stop-ntp` took effect to the end of `set-time`, and a bootstrap's own write runs
  only before the driver could turn synchronisation off for good.
* `Race_proof`: `Spec => []RaceInv`, over every action of the race subsystem, with
  refreshes and disk faults. `RaceInv` says of the two records what
  the first three properties need: `Sound` of the lap timer (its fields, that no fix or
  anchor is kept without a fix, that a clean dirty set means the state shown is
  the state) and `SoundTrack` of the track model at the current speed. One lemma
  per handler says that it leaves a sound record sound and whether it changes the
  fix or the speed; an action's step composes the lemmas of its calls. The
  corollaries are `ListenersKnowState`, `NoStaleFix` and `SuggestionOnlyParked`. The rest adds
  to it what each property needs:
  - `ScanWhenUseful`: `Scans` says when the scan runs, refreshes and all. It is kept by every
    handler that may start or stop the timer.
  - `TimerFollowsSession` (`CountInv`): the numbers and the best time of the lap timer against the
    laps filed. It needs `kMinLapMs > 0`, which `RaceBoxModel` assumes of its constant:
    the session refuses a lap of no time, so the two would part.
  - `SplitsOfOneList` (`SplitsInv`): the splits of the running lap are in order, between its
    start and now, one for each gate passed, and each was timed at the list now in force: whoever replaces the
    list clears them. Stored lists have any length. That a lap's sector times add up to its time is
    telescoping; there is no induction over a list to be had, so `Telescope` takes the first index at which the
    running sums would differ (`LeastNatural`). `LapsAreTyped` carries the types along.
  - `FilesAreCurrent`, with disk faults: the theorem `FilesAlwaysCurrent` has it with `UserFileInv`, that no write is
    pending between handlers and that a file whose last write came through is read back as what the model holds. The lemmas behind it
    say of each handler that what it wrote last is what it leaves in memory (`UpToDate`), or that it changed nothing that is saved.
  - `GatesFitLine` and `StoredGatesFit` (`FitInv`). Neither is inductive. `Matching` says of
    stored gates that they were derived against the line they will be read back with, the surveyed one
    if the slot has one, and that a surveyed track keeps no line of its own. `Live` says that the
    live line is that of the slot the next gates are stored under, or that slot has none:
    without it `lapCompleted()` could file gates beside a line they do not fit. `Shown` keeps the
    status bar's lock current, which decides whether the driver can learn or clear a line. `Quiet` covers a
    start, when the database is not loaded and a surveyed track looks bare. TLC checked `FitInv` on
    instances of `race_tracks` with a second line and with a refresh before it was proved.
* `OptimalLap_proof`: the three properties of `MCOptimalLap`, for any number of sectors, laps and
  milliseconds. The invariant is `LapsInv`, the session's own numbering; the rest is about
  `Compute`. `WinnerIsFastest` shows that `std::min_element` has something to return, by the least time and
  then the least number. `TotalMonotone` (no time longer, no longer total) is had like `Telescope`, from a
  first index where it fails; it makes the stitched lap no slower than any choice of eligible laps.
* `LogBufferModel_proof`: `LogInv`, over any threads, levels and bounds, with disk calls failing, kills and
  quits. `AllAccountedFor` is a sum that holds only where the writer is between two of its steps, so
  `Phases` says what each place of `main` and each place in `handleMessage()` implies, and
  `Counted` is the sum with what is in hand. `BadgeFollows` says that a count the page has not read has a
  signal on its way. `OldestFirst` is proved segment by segment (`InOrder`: rotated file, file, buffer, batch, queue, each
  ascending and before the next), and put together by `AscendsConcat`. `KeepsRecent` rests on `RotatesFull`: a file is rotated
  only with its lines in it.

The assumptions used are the ASSUMEs of the modules (types of the constants, `kMinLapMs > 0`, and that
the files a race starts with were written by `persistUserState()`, of this program or an earlier one, or were cut
short: stored gate lists have any length, with or without directions), and others stated in the theorems that need
them. In `UplinkModel_proof`:

* `~StampWindow`, in all that rest on `ClientInv`. With it they are false: `stamp_window` shows how.
* `OutboxFaults`, in the refinement: COUNT(*), opening and clear() do not fail. After a failed count
  the eviction takes rows that do not overflow, and rows that cannot be reached or deleted
  survive UNPAIR (section 5).
* `DrainFaults`, in `BacklogNeverStranded`: COUNT(*), opening and reading do not fail. A table that
  cannot be opened or counted looks empty to `onClientConnected()`, one that cannot be read ends the
  drain, and nothing tries again before the next connect.

Appending, evicting and releasing may fail in all of them. In `Race_proof`:

* `CourseKept` in the two about gates: no write fails, every database keeps each confirmed line where the bundled one
  has it, and the files at the start were `Matching`. Refreshes, restarts, learned and reset lines, borrowed lines and suggestions
  remain. `race_tracks` satisfies it; a refresh that moves a line, or a power cut between two writes, breaks both properties (section 5).

Only model-checked is liveness, which the prover does not
do: that a serving uplink gets online, stays there and empties its backlog, that no waiting state of the
update lasts, and that an open Wi-Fi or time page ends up true.

## 5. Where code and documentation disagree

Two are violation runs; `PROJECT.json` quotes the lines. `stamp_window` is narrow:
it needs a callback in the few instructions or the join between the increment and
the end of the network thread, during a reconfiguration. `update_claim` needs `install.sh` to be
killed, or to end with an error, after its last marker: `describeRollback()` takes "Done" for a stage before the
activation and claims that the previous version stays installed, although the new one is in place, whole
(`ClaimHidesNoMix` is what does hold).

The following are behaviours of the code that the modules contain and no property
states, because each would restate the sentence it contradicts:

* Uplink. A refused publish resets the drain and only the next connect restarts it,
  so live frames may pass a backlog (`uplinkmodel.cpp:572`, against `:475`). Rows
  keep the topic of the device they were stored for, and a changed device id sends
  them on the new connection (`:569`, against `uplinkmodel.h:115`). A save followed
  by a crossing within one notification tick leaves the timer running with no
  session (`raceboxmodel.cpp:664`, against `uplinkmodel.h:24`). A session event in
  flight dies with its handle (`mosquittocloudclient.cpp:66`, against
  `uplinkmodel.cpp:24`). A failing DELETE leaves the backlog of an unpaired dash
  (`uplinkmodel.cpp:240`).
  When connecting fails at once (`mosquittocloudclient.cpp:141`) the page shows
  Offline and nothing tries again until a settings change or a restart, against
  "configured and trying" (`uplinkmodel.h:51`).
* Tracks. A refresh may move a surveyed line and leaves the gates of the old one
  stored: the next selection applies both (`trackmodel.cpp:243`, against
  `raceboxmodel.cpp:322`). Selecting or resetting during a session replaces its gates, so its
  laps are split at different places (against `raceboxmodel.h:252`). `acceptSuggestedTrack()` without a line, and `clearActiveTrack()`, leave a
  live line that is not the line of `m_gateSlotId` (`trackmodel.cpp:568`, against
  `trackmodel.h:154`). A database refresh surveys the active track without telling
  the status bar (`:690`), and its line wins over one the driver learned (`:226`,
  against `trackmodel.h:127`). A reset of a borrowed line leaves it stored where it
  was borrowed (`:602`). Power cut between the two writes of a learned line keeps
  the new line with the old gates (`:609`).
* Sessions. `timestampIso` is local time to the second and "the primary key" (`sessionmodel.cpp:148`): with
  the clock set back, on a Pi that has none of its own, or when summer time ends, two sessions may share it, and
  `deleteSession()` removes the newer whichever the driver chose (`SettingsDetail.qml:158`).
* Lap timer. A line applied during a lap does not stop it: the next crossing
  completes a lap that began at another line (`raceboxmodel.cpp:174`).

* Update. Leaving and reopening the version page while `install.sh` runs writes
  CheckingConnection over Installing, and leaving it again clears the stage: a failure then claims
  that the previous version stays installed although the activation may have begun
  (`updatemodel.cpp:449`). `HonestClaim` and `ClaimHidesNoMix` therefore speak of a page not opened
  anew while a step runs. A wrong password comes after the checkout, so the next try
  takes the target for the version to roll back to (`:223`); the next boot is not
  touched by it.
* Wi-Fi. A timer of one failure also clears the message of a later one (`networkmodel.cpp:228`).
* Log. `refresh()` takes its snapshot under the lock and resets the counter after it, as
  `appendEntry()` counts after it: a message in between is in neither (`logbuffermodel.cpp:366`, against
  `logbuffermodel.h:44`). Once `dash.log` could not be opened, this process never opens it again:
  what is queued waits until the process ends and goes with it (`logbuffermodel.cpp:187`, against "go out on a later tick",
  `logbuffermodel.h:95`; `AllAccountedFor` counts it as waiting, and from the next boot on as settled). A
  thread that saw the queue full before the writer took it drops its message though the queue is empty, and
  marks it full again (`logbuffermodel.cpp:160`, against `:158` and "advisory only", `logbuffermodel.h:130`).
* Time. A failed first read leaves `m_syncEnabled` at its false, so the bootstrap turns
  on what is on and looks the zone up again, against "a real reading by now"
  (`timemodel.cpp:349`). If `set-time` fails synchronisation stays off.

## 6. Not modelled, and why

* Lap list and top speed of the `stop` event: payload.
* The broker host: taken as set, since the settings page does not submit an empty
  one, so `Configured` leaves it out; port and TLS only change whether connecting fails.
* `CloudConfig::persist()` failing: it logs and goes on; the file is replaced
  atomically.
* `setDatabasePath()` and the `...ForTest` hooks.
* The lap trace behind the live delta, lap paths, g-force peaks, temperatures, GPS
  time, titles, the grouping of sessions and the filtered track list: presentation.
* The geometry of `testGateCrossing()` and `deriveSectorGates()`: floating point.
* The mock receiver and the mock track.
* In the settings models: the mock modes, `update.log`, the progress bar, masks,
  gateways, signal strengths, `rescan()` (nothing calls it), the autoconnect priority
  (a call whose answer is ignored), which time zone or time is set, `m_clockSynced`
  (read with `m_syncEnabled`), and error texts other than the claim.
* `raceboxprovider`: a failed connection keeps `m_ctrl` until `disconnected()`
  (`raceboxprovider.cpp:62`). Whether Qt emits that signal then decides whether the provider
  ever scans again, and it is not in this repository; a model would assume the answer.
* In `LogBufferModel`: the list the page renders and its limit, time stamps, the parsing of damaged lines,
  the chained handler, a flush that fails after the line was counted in `m_logBytes` (at most what `QFile` buffers), and
  what a power cut takes of a file that was flushed but not synced.
* `dashconfig`: setters of one key each and a migration of formats.
* `candatamodel` beyond the speed, and the CAN providers: thresholds, timers and arithmetic on values.
* `displaymodel`, `devicestatsmodel`, `sdnotify`, `core/*`: I/O with next to no state.

## 7. What could follow

1. `Race` as a refinement of a smaller promise: what is stored for a track is what is live on it.
2. `CanDataModel`: which source the speed has, stale inputs, debounced warnings.
3. The lap timer `UplinkModel` carries, replaced by the one of `Race`.
