---------------------------- MODULE SessionModel ----------------------------
(***************************************************************************)
(* src/race/sessionmodel.{h,cpp}: the laps of the session in progress and  *)
(* the saved sessions, newest first. Handlers are functions on the model's *)
(* record. A saved session keeps the laps it was computed from, its track  *)
(* and the local time it is filed under (timestampIso).                    *)
(***************************************************************************)
EXTENDS OptimalLap

CONSTANT kSaveMaxSpeedKmh \* a session is saved at or below this speed

\* load(): the sessions of sessions.json.
SessionInit(file) ==
    [laps |-> << >>, speed |-> 0, speedDirty |-> FALSE, canSave |-> FALSE,
     sessions |-> file]

UpdateCanSave(se) ==
    [se EXCEPT !.canSave = se.laps # << >> /\ se.speed <= kSaveMaxSpeedKmh]

\* MUTANT: laps keep the lap timer's number.
NumberedLap_Timer(se, lap) == lap

\* Laps are numbered by the session, not by the lap timer.
NumberedLap(se, lap) == [lap EXCEPT !.number = Len(se.laps) + 1]

OnLapCompleted(se, lap) ==
    IF lap.ms <= 0 THEN se
    ELSE LET filed == [se EXCEPT !.laps = Append(@, NumberedLap(se, lap))]
         IN  IF se.laps = << >> THEN UpdateCanSave(filed) ELSE filed

\* CanDataModel's speed() moves at once; speedChanged() waits for its tick.
CanSpeed(se, kmh) == [se EXCEPT !.speed = kmh, !.speedDirty = TRUE]

OnSpeedChanged(se) == UpdateCanSave([se EXCEPT !.speedDirty = FALSE])

\* The sector count of the first lap that has splits.
SessionSectorCount(laps) ==
    LET split == {i \in DOMAIN laps : laps[i].sectors # << >>}
    IN  IF split = {} THEN 0
        ELSE Len(laps[CHOOSE i \in split : \A j \in split : i <= j].sectors)

SessionRecord(se, stamp, track) ==
    [stamp |-> stamp, track |-> track, laps |-> se.laps,
     optimal |-> Compute(se.laps, SessionSectorCount(se.laps))]

SaveCurrentSession(se, stamp, track) ==
    UpdateCanSave([se EXCEPT !.sessions = <<SessionRecord(se, stamp, track)>> \o @,
                             !.laps = << >>])

\* deleteSession(): the first record filed under the timestamp.
DeleteSession(se, stamp) ==
    LET filed == {i \in DOMAIN se.sessions : se.sessions[i].stamp = stamp}
        first == CHOOSE i \in filed : \A j \in filed : i <= j
    IN  IF filed = {} THEN se ELSE [se EXCEPT !.sessions = RemoveAt(@, first)]
=============================================================================
