----------------------------- MODULE TrackModel -----------------------------
(***************************************************************************)
(* src/race/trackmodel.{h,cpp}: the track database, the active track, the  *)
(* stored finish lines and sector gates, and the nearest-track suggestion. *)
(* Handlers are functions on the model's record, as in RaceBoxModel, whose *)
(* finish lines and gates they move around.                                *)
(*                                                                         *)
(* A database maps the tracks it lists to their confirmed finish line      *)
(* (NoLine when it has none). NoTrack is the empty id: "no active track",  *)
(* and the slot of the global finish line.                                 *)
(***************************************************************************)
EXTENDS RaceBoxModel

CONSTANTS
    Tracks,    \* track ids
    NoTrack,   \* the empty id
    Databases, \* track databases the server may answer with
    Bundled    \* the database built into the program

ASSUME TrackAssumption ==
    /\ NoTrack \notin Tracks
    /\ DOMAIN Bundled \subseteq Tracks
    /\ \A db \in Databases : DOMAIN db \subseteq Tracks /\ DOMAIN db # {}

Slots == Tracks \cup {NoTrack}

\* m_tracks before loadDatabase() ran, and an override file that is not there.
NoDb == << >>

\* What of the model goes into tracks-user.json.
Persisted(tm) == [active |-> tm.active, favorites |-> tm.favorites,
                  lines |-> tm.lines, gates |-> tm.gates]

\* `writes` holds what the handler has written so far; module Race turns it into
\* the file once the handler has returned.
PersistUserState(tm) == [tm EXCEPT !.writes = Append(@, Persisted(tm))]

NoUserState == [active |-> NoTrack, favorites |-> {},
                lines |-> [s \in Slots |-> NoLine],
                gates |-> [s \in Slots |-> NoGates]]

\* A file a power cut or a full disk left truncated: loadUserState() gives up.
TornFile == [torn |-> TRUE]

LoadUserState(file) == IF file = TornFile THEN NoUserState ELSE file

\* The constructor, with loadUserState().
TrackInit(file) ==
    LET user == LoadUserState(file)
    IN  [db |-> NoDb, loaded |-> FALSE, active |-> user.active, slot |-> user.active,
         favorites |-> user.favorites, lines |-> user.lines, gates |-> user.gates,
         manual |-> FALSE, suggested |-> NoTrack, dismissed |-> {},
         scanning |-> FALSE, refreshing |-> FALSE, shownLocked |-> FALSE,
         writes |-> << >>]

----------------------------------------------------------------------------
IsFinishLineLocked(tm, id) == id \in DOMAIN tm.db /\ tm.db[id] # NoLine

GateFor(tm, id) == IF IsFinishLineLocked(tm, id) THEN tm.db[id] ELSE tm.lines[id]

FinishLineFor(tm, id) ==
    IF GateFor(tm, id) # NoLine THEN GateFor(tm, id) ELSE tm.lines[NoTrack]

\* The slot FinishLineFor(tm, id) comes from.
SlotFor(tm, id) == IF GateFor(tm, id) # NoLine THEN id ELSE NoTrack

\* activeTrackChanged(): the status bar re-reads whether the line is locked.
\* Nothing else makes it.
ActiveTrackChanged(tm) ==
    [tm EXCEPT !.shownLocked = IsFinishLineLocked(tm, tm.active)]

\* MUTANT: the line is applied without the gates of its slot.
ApplyLine_NoGates(rb, tm, id) ==
    IF FinishLineFor(tm, id) = NoLine THEN rb
    ELSE SetFinishLine(rb, FinishLineFor(tm, id))

\* emitFinishLineFor(id), else emitFinishLineFor(""): what both do to the lap
\* timer and to this model. Nothing when neither slot has a line.
ApplyLine(rb, tm, id) ==
    IF FinishLineFor(tm, id) = NoLine THEN rb
    ELSE SetSectorGates(SetFinishLine(rb, FinishLineFor(tm, id)),
                        tm.gates[SlotFor(tm, id)])

LatchSlot(tm, id) ==
    IF FinishLineFor(tm, id) = NoLine THEN tm
    ELSE [tm EXCEPT !.slot = SlotFor(tm, id)]

\* rebuildFiltered() only feeds the track list and is left out here.
SetActiveTrack(tm, id) ==
    ActiveTrackChanged(PersistUserState([tm EXCEPT !.active = id, !.slot = id]))

\* Applying the line is the caller's second half: ApplyLine, LatchSlot.
SelectTrack(tm, id) ==
    SetActiveTrack([tm EXCEPT !.manual = TRUE, !.scanning = FALSE,
                              !.suggested = NoTrack], id)

\* MUTANT: nothing restarts the scan.
ClearActiveTrack_NoScan(tm, hasFix) ==
    ActiveTrackChanged(PersistUserState([tm EXCEPT !.active = NoTrack, !.manual = FALSE]))

ClearActiveTrack(tm, hasFix) ==
    ActiveTrackChanged(PersistUserState(
        [tm EXCEPT !.active = NoTrack, !.manual = FALSE, !.scanning = @ \/ hasFix]))

ToggleFavorite(tm, id) ==
    PersistUserState([tm EXCEPT !.favorites = IF id \in @ THEN @ \ {id} ELSE @ \cup {id}])

AcceptSuggestedTrack(tm) ==
    SetActiveTrack([tm EXCEPT !.suggested = NoTrack], tm.suggested)

DismissSuggestedTrack(tm, hasFix) ==
    [tm EXCEPT !.dismissed = @ \cup {tm.suggested}, !.suggested = NoTrack,
               !.scanning = @ \/ (hasFix /\ ~tm.manual)]

\* scanNearestTrack(), `nearest` being the closest track in range, if any.
ScanNearestTrack(tm, speed, nearest) ==
    IF tm.manual \/ tm.active # NoTrack THEN [tm EXCEPT !.scanning = FALSE]
    ELSE IF speed > kStationarySpeedKmh \/ nearest = NoTrack THEN tm
    ELSE [tm EXCEPT !.suggested = nearest, !.scanning = FALSE]

\* The two slots the constructor connects.
OnHasFixChanged(tm, hasFix) ==
    IF hasFix /\ ~tm.manual /\ tm.suggested = NoTrack
    THEN [tm EXCEPT !.scanning = TRUE] ELSE tm

\* MUTANT: a suggestion stays when the car pulls away.
OnSpeedKmhChanged_Lingers(tm, rb) == tm

OnSpeedKmhChanged(tm, rb) ==
    IF rb.speed > kStationarySpeedKmh /\ tm.suggested # NoTrack
    THEN [tm EXCEPT !.suggested = NoTrack,
                    !.scanning = @ \/ (rb.hasFix /\ ~tm.manual /\ tm.active = NoTrack)]
    ELSE tm

\* MUTANT: the slot the gates go to stays that of the line before.
OnFinishLineLearned_KeepsSlot(tm, line) ==
    IF IsFinishLineLocked(tm, tm.active) THEN tm
    ELSE IF line # NoLine \/ tm.lines[tm.active] # NoLine
    THEN ActiveTrackChanged(PersistUserState([tm EXCEPT !.lines[tm.active] = line]))
    ELSE tm

\* onFinishLineLearned(): NoLine is the all-zero line of clearFinishLine().
OnFinishLineLearned(tm, line) ==
    IF IsFinishLineLocked(tm, tm.active) THEN tm
    ELSE IF line # NoLine
    THEN ActiveTrackChanged(PersistUserState(
             [tm EXCEPT !.lines[tm.active] = line, !.slot = tm.active]))
    ELSE IF tm.lines[tm.active] = NoLine THEN tm
    ELSE ActiveTrackChanged(PersistUserState([tm EXCEPT !.lines[tm.active] = NoLine]))

\* MUTANT: dropping the gates of a slot is left to the next write.
OnSectorGatesLearned_DropsInMemory(tm, gates) ==
    IF gates = NoGates THEN [tm EXCEPT !.gates[tm.slot] = NoGates]
    ELSE PersistUserState([tm EXCEPT !.gates[tm.slot] = gates])

OnSectorGatesLearned(tm, gates) ==
    IF gates = NoGates /\ tm.gates[tm.slot] = NoGates THEN tm
    ELSE PersistUserState([tm EXCEPT !.gates[tm.slot] = gates])

\* clearFinishLine() as it reaches this model, after selectTrack() or a reset.
OnFinishLineCleared(tm) == OnSectorGatesLearned(OnFinishLineLearned(tm, NoLine), NoGates)

\* The deferred start: loadDatabase(), then applyStartupFinishLine() once more.
LoadDatabase(tm, override) ==
    LET loaded == [tm EXCEPT !.loaded = TRUE,
                             !.db = IF override = NoDb THEN Bundled ELSE override]
    IN  ActiveTrackChanged(LatchSlot(loaded, tm.active))

\* refreshDatabase() and its answer: neither announces nor applies anything.
RefreshDatabase(tm) == [tm EXCEPT !.refreshing = TRUE]

TakeDatabase(tm, db) == [tm EXCEPT !.refreshing = FALSE, !.db = db]

RefreshFailed(tm) == [tm EXCEPT !.refreshing = FALSE]
=============================================================================
