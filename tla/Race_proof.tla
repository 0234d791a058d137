------------------------------ MODULE Race_proof ------------------------------
(***************************************************************************)
(* Theorems about Race, for every set of tracks, samples and databases,    *)
(* every bound, and with or without disk faults.                           *)
(*                                                                         *)
(* The three models are records and their handlers functions, so the       *)
(* invariant is a predicate on records and each handler has a lemma: a     *)
(* sound record stays sound.                                               *)
(***************************************************************************)
EXTENDS Race, WellFoundedInduction, TLAPS

RaceBoxFields ==
    {"connected", "hasFix", "prevFix", "anchor", "heading", "speed", "line",
     "crossDir", "gates", "running", "started", "lapNumber", "bestMs", "age",
     "from", "splits", "dirty", "shown"}

\* What the theorems need of a lap timer: no fix is kept that is not held, and
\* what listeners were last told is true or a dirty bit is set.
FixHeld(r) == (r.prevFix = TRUE \/ r.anchor = TRUE) => r.hasFix = TRUE
Told(r) == r.dirty = {} => r.shown = LapTimerState(r)
Bits(r) == r.hasFix \in BOOLEAN /\ r.running \in BOOLEAN /\ r.started \in BOOLEAN
           /\ r.prevFix \in BOOLEAN /\ r.anchor \in BOOLEAN
Sound(r) == DOMAIN r = RaceBoxFields /\ Bits(r) /\ FixHeld(r) /\ Told(r)

\* The fix and the speed are onData()'s to set, and its callees leave them be;
\* a change of fix stays announced as due until the notify tick.
SameFix(q, r) == /\ q.hasFix = r.hasFix /\ q.speed = r.speed
                 /\ "fix" \in r.dirty => "fix" \in q.dirty

LEMMA InitSound == Sound(RaceBoxInit)
BY DEF Sound, Bits, FixHeld, Told, LapTimerState, RaceBoxInit, RaceBoxFields

LEMMA SetFinishLineSound ==
    ASSUME NEW r, Sound(r), NEW l
    PROVE  Sound(SetFinishLine(r, l)) /\ SameFix(SetFinishLine(r, l), r)
BY DEF SameFix, Sound, Bits, FixHeld, Told, LapTimerState, SetFinishLine, RaceBoxFields

LEMMA SetSectorGatesSound ==
    ASSUME NEW r, Sound(r), NEW g
    PROVE  Sound(SetSectorGates(r, g)) /\ SameFix(SetSectorGates(r, g), r)
BY DEF SameFix, Sound, Bits, FixHeld, Told, LapTimerState, SetSectorGates, RaceBoxFields

LEMMA ResetSound ==
    ASSUME NEW r, Sound(r)
    PROVE  Sound(ResetLapState(r)) /\ SameFix(ResetLapState(r), r)
BY DEF SameFix, Sound, Bits, FixHeld, Told, LapTimerState, ResetLapState, RaceBoxFields

LEMMA ConnectionSound ==
    ASSUME NEW r, Sound(r), NEW c
    PROVE  Sound(OnConnectionStateChanged(r, c))
BY DEF Sound, Bits, FixHeld, Told, LapTimerState, OnConnectionStateChanged, RaceBoxFields

LEMMA NotifySound ==
    ASSUME NEW r, Sound(r)
    PROVE  /\ Sound(EmitNotifications(r))
           /\ EmitNotifications(r).hasFix = r.hasFix
           /\ EmitNotifications(r).speed = r.speed
BY DEF Sound, Bits, FixHeld, Told, LapTimerState, EmitNotifications, RaceBoxFields

\* A sector gate, hit or not, disturbs nothing that matters here.
LEMMA TestSectorSound ==
    ASSUME NEW r, Sound(r), NEW d
    PROVE  Sound(TestSector(r, d)) /\ SameFix(TestSector(r, d), r)
BY DEF SameFix, Sound, Bits, FixHeld, Told, LapTimerState, TestSector, RaceBoxFields

\* A lap that starts sets a dirty bit, whatever came before.
LEMMA StartLapSound ==
    ASSUME NEW r, DOMAIN r = RaceBoxFields, Bits(r), FixHeld(r), NEW d
    PROVE  Sound(StartLap(r, d)) /\ SameFix(StartLap(r, d), r)
BY DEF SameFix, Sound, Bits, FixHeld, Told, LapTimerState, StartLap, RaceBoxFields

\* updateLapTiming(): every return leaves the record sound.
LEMMA UpdateLapTimingSound ==
    ASSUME NEW r0, Sound(r0), NEW d
    PROVE  LET u == UpdateLapTiming(r0, d)
           IN  Sound(u.rb) /\ SameFix(u.rb, r0) /\ "rb" \in DOMAIN u
<1>. DEFINE r == TestSector(r0, d)
            latched == [r EXCEPT !.crossDir = d.cross]
            lapMs == r.age + d.at
            gates == DeriveSectorGates(r, d)
            closed == [latched EXCEPT
                !.gates = gates,
                !.bestMs = IF @ = 0 \/ lapMs < @ THEN lapMs ELSE @]
            u == UpdateLapTiming(r0, d)
<1>1. Sound(r) /\ SameFix(r, r0)
  BY TestSectorSound
<1>2. Sound(latched) /\ SameFix(latched, r)
  BY <1>1 DEF SameFix, Sound, Bits, FixHeld, Told, LapTimerState, RaceBoxFields
<1>3. /\ DOMAIN closed = RaceBoxFields /\ Bits(closed) /\ FixHeld(closed)
      /\ SameFix(closed, r)
  BY <1>1 DEF SameFix, Sound, Bits, FixHeld, RaceBoxFields
<1>4. /\ Sound(StartLap(closed, d)) /\ SameFix(StartLap(closed, d), r)
      /\ Sound(StartLap(latched, d)) /\ SameFix(StartLap(latched, d), r)
  <2>1. Sound(StartLap(closed, d)) /\ SameFix(StartLap(closed, d), closed)
    BY <1>3, StartLapSound
  <2>2. DOMAIN latched = RaceBoxFields /\ Bits(latched) /\ FixHeld(latched)
    BY <1>2 DEF Sound
  <2>3. Sound(StartLap(latched, d)) /\ SameFix(StartLap(latched, d), latched)
    BY <2>2, StartLapSound
  <2>. QED BY <1>2, <1>3, <2>1, <2>3 DEF SameFix
<1>5. u.rb \in {r0, r, latched, StartLap(closed, d), StartLap(latched, d)}
  BY DEF UpdateLapTiming
<1>6. "rb" \in DOMAIN u
  BY DEF UpdateLapTiming
<1>. QED BY <1>1, <1>2, <1>4, <1>5, <1>6 DEF SameFix

LEMMA TakeStatusSound ==
    ASSUME NEW r, Sound(r), NEW d, d.fix \in BOOLEAN
    PROVE  /\ Sound(TakeStatus(r, d)) /\ TakeStatus(r, d).hasFix = d.fix
           /\ TakeStatus(r, d).speed = d.speed
           /\ d.fix # r.hasFix \/ "fix" \in r.dirty => "fix" \in TakeStatus(r, d).dirty
BY DEF Sound, Bits, FixHeld, Told, LapTimerState, TakeStatus, RaceBoxFields

\* A sample with a fix, once its status is taken.
LEMMA TakeFixSound ==
    ASSUME NEW r, Sound(r), r.hasFix = TRUE, NEW d
    PROVE  LET t == TakeFix(r, d)
           IN  Sound(t.rb) /\ SameFix(t.rb, r)
<1>. DEFINE headed == [r EXCEPT !.anchor = TRUE,
                             !.heading = IF r.anchor /\ d.moved THEN "fresh" ELSE @]
            timed == IF r.prevFix THEN UpdateLapTiming(headed, d)
                     ELSE [rb |-> headed, lap |-> NoLap, learned |-> FALSE]
            q == [timed.rb EXCEPT
                    !.prevFix = TRUE,
                    !.age = IF timed.rb.running THEN @ + d.dt ELSE 0,
                    !.dirty = IF timed.rb.running THEN @ \cup {"other"} ELSE @]
<1>1. Sound(headed) /\ SameFix(headed, r)
  BY DEF SameFix, Sound, Bits, FixHeld, Told, LapTimerState, RaceBoxFields
<1>2. Sound(timed.rb) /\ SameFix(timed.rb, headed) /\ "rb" \in DOMAIN timed
  <2>1. CASE r.prevFix
    <3>1. timed = UpdateLapTiming(headed, d)
      BY <2>1
    <3>. HIDE DEF headed, timed
    <3>. QED BY <1>1, <3>1, UpdateLapTimingSound
  <2>2. CASE ~r.prevFix
    BY <1>1, <2>2 DEF SameFix
  <2>. QED BY <2>1, <2>2
<1>3. TakeFix(r, d).rb = q
  <2>1. TakeFix(r, d) = [timed EXCEPT
            !.rb.prevFix = TRUE,
            !.rb.age = IF timed.rb.running THEN @ + d.dt ELSE 0,
            !.rb.dirty = IF timed.rb.running THEN @ \cup {"other"} ELSE @]
    BY DEF TakeFix
  <2>. HIDE DEF timed
  <2>. QED BY <1>2, <2>1 DEF Sound, RaceBoxFields
<1>4. Sound(q) /\ SameFix(q, timed.rb)
  <2>. HIDE DEF timed, headed
  <2>1. timed.rb.hasFix = TRUE
    BY <1>1, <1>2 DEF SameFix
  <2>. QED BY <1>2, <2>1 DEF SameFix, Sound, Bits, FixHeld, Told, LapTimerState,
                             RaceBoxFields
<1>. HIDE DEF timed, headed, q
<1>. QED BY <1>1, <1>2, <1>3, <1>4 DEF SameFix

\* onData(), the whole of it.
LEMMA DataSound ==
    ASSUME NEW r, Sound(r), NEW d, d.fix \in BOOLEAN
    PROVE  LET t == OnData(r, d)
           IN  /\ Sound(t.rb) /\ t.rb.speed = d.speed /\ t.rb.hasFix = d.fix
               /\ d.fix # r.hasFix \/ "fix" \in r.dirty => "fix" \in t.rb.dirty
<1>. DEFINE seen == TakeStatus(r, d)
<1>1. /\ Sound(seen) /\ seen.hasFix = d.fix /\ seen.speed = d.speed
      /\ d.fix # r.hasFix \/ "fix" \in r.dirty => "fix" \in seen.dirty
  BY TakeStatusSound
<1>2. CASE d.fix
  <2>1. OnData(r, d) = TakeFix(seen, d)
    BY <1>2 DEF OnData
  <2>2. seen.hasFix = TRUE
    BY <1>1, <1>2
  <2>. HIDE DEF seen
  <2>3. Sound(TakeFix(seen, d).rb) /\ SameFix(TakeFix(seen, d).rb, seen)
    BY <1>1, <2>2, TakeFixSound
  <2>. QED BY <1>1, <2>1, <2>3 DEF SameFix
<1>3. CASE ~d.fix
  <2>. DEFINE q == [seen EXCEPT !.dirty = IF r.running THEN @ \cup {"other"} ELSE @]
  <2>1. OnData(r, d).rb = q
    BY <1>3 DEF OnData
  <2>2. Sound(q) /\ SameFix(q, seen)
    <3>. HIDE DEF seen
    <3>. QED BY <1>1 DEF SameFix, Sound, Bits, FixHeld, Told, LapTimerState, RaceBoxFields
  <2>. HIDE DEF seen, q
  <2>. QED BY <1>1, <2>1, <2>2 DEF SameFix
<1>. QED BY <1>2, <1>3

LEMMA ClearFinishLineSound ==
    ASSUME NEW r, Sound(r)
    PROVE  Sound(ClearFinishLine(r)) /\ SameFix(ClearFinishLine(r), r)
BY DEF SameFix, Sound, Bits, FixHeld, Told, LapTimerState, ClearFinishLine,
       ResetLapState, RaceBoxFields

LEMMA LearnFinishLineSound ==
    ASSUME NEW r, Sound(r), NEW l
    PROVE  Sound(LearnFinishLineHere(r, l)) /\ SameFix(LearnFinishLineHere(r, l), r)
<1>1. Sound(SetFinishLine(r, l)) /\ SameFix(SetFinishLine(r, l), r)
  BY SetFinishLineSound
<1>. QED BY <1>1 DEF SameFix, Sound, Bits, FixHeld, Told, LapTimerState,
                     LearnFinishLineHere, RaceBoxFields

LEMMA HeadingAgesSound ==
    ASSUME NEW r, Sound(r)
    PROVE  Sound(HeadingAges(r)) /\ SameFix(HeadingAges(r), r)
BY DEF SameFix, Sound, Bits, FixHeld, Told, LapTimerState, HeadingAges, RaceBoxFields

LEMMA ApplyLineSound ==
    ASSUME NEW r, Sound(r), NEW t, NEW id
    PROVE  Sound(ApplyLine(r, t, id)) /\ SameFix(ApplyLine(r, t, id), r)
<1>1. CASE FinishLineFor(t, id) = NoLine
  BY <1>1 DEF ApplyLine, SameFix
<1>2. CASE FinishLineFor(t, id) # NoLine
  <2>. DEFINE q == SetFinishLine(r, FinishLineFor(t, id))
              a == SetSectorGates(q, t.gates[SlotFor(t, id)])
  <2>1. Sound(q) /\ SameFix(q, r)
    BY SetFinishLineSound
  <2>2. ApplyLine(r, t, id) = a
    BY <1>2 DEF ApplyLine
  <2>. HIDE DEF q
  <2>3. Sound(a) /\ SameFix(a, q)
    BY <2>1, SetSectorGatesSound
  <2>. QED BY <2>1, <2>2, <2>3 DEF SameFix
<1>. QED BY <1>1, <1>2

----------------------------------------------------------------------------
(* The suggestion. *)

TrackFields ==
    {"db", "loaded", "active", "slot", "favorites", "lines", "gates", "manual",
     "suggested", "dismissed", "scanning", "refreshing", "shownLocked", "writes"}

\* What the model is once a handler has returned and its writes are done.
Settled(t) == [t EXCEPT !.writes = << >>]

\* A suggestion is for a car at `speed` that is parked, with no track chosen.
Fitting(t, speed) ==
    t.suggested # NoTrack =>
        /\ t.active = NoTrack /\ t.manual = FALSE /\ t.scanning = FALSE
        /\ speed <= kStationarySpeedKmh

SoundTrack(t, speed) ==
    /\ DOMAIN t = TrackFields /\ t.manual \in BOOLEAN /\ t.scanning \in BOOLEAN
    /\ Fitting(t, speed)

\* What feeds lines, gates and the status bar says nothing of the suggestion.
LEMMA LineKeepsSuggestion ==
    ASSUME NEW t, NEW v, SoundTrack(t, v), NEW id, NEW l, NEW g
    PROVE  /\ SoundTrack(ActiveTrackChanged(t), v)
           /\ SoundTrack(LatchSlot(t, id), v)
           /\ SoundTrack(OnSectorGatesLearned(t, g), v)
           /\ SoundTrack(ToggleFavorite(t, id), v)
           /\ SoundTrack(Settled(t), v)
<1>1. SoundTrack(ActiveTrackChanged(t), v)
  BY DEF SoundTrack, Fitting, ActiveTrackChanged, TrackFields
<1>2. SoundTrack(LatchSlot(t, id), v)
  BY DEF SoundTrack, Fitting, LatchSlot, TrackFields
<1>3. SoundTrack(OnSectorGatesLearned(t, g), v)
  BY DEF SoundTrack, Fitting, OnSectorGatesLearned, PersistUserState, TrackFields
<1>4. SoundTrack(ToggleFavorite(t, id), v)
  BY DEF SoundTrack, Fitting, ToggleFavorite, PersistUserState, TrackFields
<1>5. SoundTrack(Settled(t), v)
  BY DEF SoundTrack, Fitting, Settled, TrackFields
<1>. QED BY <1>1, <1>2, <1>3, <1>4, <1>5

LEMMA LearnedKeepsSuggestion ==
    ASSUME NEW t, NEW v, SoundTrack(t, v), NEW l
    PROVE  SoundTrack(OnFinishLineLearned(t, l), v)
BY DEF SoundTrack, Fitting, OnFinishLineLearned, PersistUserState,
       ActiveTrackChanged, TrackFields

\* A track made active takes the suggestion down.
LEMMA ChosenTakesSuggestion ==
    ASSUME NEW t, NEW v, SoundTrack(t, v), NEW id
    PROVE  /\ SoundTrack(SelectTrack(t, id), v)
           /\ SoundTrack(AcceptSuggestedTrack(t), v)
<1>1. SoundTrack(SelectTrack(t, id), v)
  BY DEF SoundTrack, Fitting, SelectTrack, SetActiveTrack, PersistUserState,
         ActiveTrackChanged, TrackFields
<1>2. SoundTrack(AcceptSuggestedTrack(t), v)
  BY DEF SoundTrack, Fitting, AcceptSuggestedTrack, SetActiveTrack, PersistUserState,
         ActiveTrackChanged, TrackFields
<1>. QED BY <1>1, <1>2

LEMMA ScanSuggests ==
    ASSUME NEW t, NEW v, SoundTrack(t, v), NEW nearest, v \in Nat
    PROVE  SoundTrack(ScanNearestTrack(t, v, nearest), v)
<1>1. CASE t.manual \/ t.active # NoTrack
  BY <1>1 DEF SoundTrack, Fitting, ScanNearestTrack, TrackFields
<1>2. CASE ~(t.manual \/ t.active # NoTrack) /\ (v > kStationarySpeedKmh \/ nearest = NoTrack)
  BY <1>2 DEF SoundTrack, Fitting, ScanNearestTrack, TrackFields
<1>3. CASE /\ ~(t.manual \/ t.active # NoTrack)
           /\ ~(v > kStationarySpeedKmh \/ nearest = NoTrack)
  <2>1. v <= kStationarySpeedKmh
    BY <1>3, RaceBoxAssumption DEF RaceBoxAssumption
  <2>2. ScanNearestTrack(t, v, nearest) = [t EXCEPT !.suggested = nearest, !.scanning = FALSE]
    BY <1>3 DEF ScanNearestTrack
  <2>3. t.manual = FALSE /\ t.active = NoTrack
    BY <1>3 DEF SoundTrack
  <2>. QED BY <2>1, <2>2, <2>3 DEF SoundTrack, Fitting, TrackFields
<1>. QED BY <1>1, <1>2, <1>3

LEMMA DatabaseKeepsSuggestion ==
    ASSUME NEW t, NEW v, SoundTrack(t, v), NEW db
    PROVE  /\ SoundTrack(LoadDatabase(t, db), v)
           /\ SoundTrack(RefreshDatabase(t), v)
           /\ SoundTrack(TakeDatabase(t, db), v)
           /\ SoundTrack(RefreshFailed(t), v)
<1>1. SoundTrack(LoadDatabase(t, db), v)
  <2>. DEFINE q == [t EXCEPT !.loaded = TRUE,
                             !.db = IF db = NoDb THEN Bundled ELSE db]
  <2>1. SoundTrack(q, v)
    BY DEF SoundTrack, Fitting, TrackFields
  <2>2. LoadDatabase(t, db) = ActiveTrackChanged(LatchSlot(q, t.active))
    BY DEF LoadDatabase
  <2>. HIDE DEF q
  <2>3. SoundTrack(LatchSlot(q, t.active), v)
    BY <2>1, LineKeepsSuggestion
  <2>. QED BY <2>2, <2>3, LineKeepsSuggestion
<1>2. SoundTrack(RefreshDatabase(t), v)
  BY DEF SoundTrack, Fitting, RefreshDatabase, TrackFields
<1>3. SoundTrack(TakeDatabase(t, db), v)
  BY DEF SoundTrack, Fitting, TakeDatabase, TrackFields
<1>4. SoundTrack(RefreshFailed(t), v)
  BY DEF SoundTrack, Fitting, RefreshFailed, TrackFields
<1>. QED BY <1>1, <1>2, <1>3, <1>4

\* The fix and the speed, as the two slots of the constructor see them.
LEMMA FixKeepsSuggestion ==
    ASSUME NEW t, NEW v, SoundTrack(t, v), NEW fix \in BOOLEAN
    PROVE  /\ SoundTrack(OnHasFixChanged(t, fix), v)
           /\ SoundTrack(DismissSuggestedTrack(t, fix), v)
           /\ t.active # NoTrack => SoundTrack(ClearActiveTrack(t, fix), v)
<1>1. SoundTrack(OnHasFixChanged(t, fix), v)
  BY DEF SoundTrack, Fitting, OnHasFixChanged, TrackFields
<1>2. SoundTrack(DismissSuggestedTrack(t, fix), v)
  BY DEF SoundTrack, Fitting, DismissSuggestedTrack, TrackFields
<1>3. ASSUME t.active # NoTrack PROVE SoundTrack(ClearActiveTrack(t, fix), v)
  BY <1>3 DEF SoundTrack, Fitting, ClearActiveTrack, PersistUserState,
              ActiveTrackChanged, TrackFields
<1>. QED BY <1>1, <1>2, <1>3

LEMMA SpeedWithdraws ==
    ASSUME NEW t, NEW v, SoundTrack(t, v), NEW r, r.speed \in Nat, r.hasFix \in BOOLEAN
    PROVE  SoundTrack(OnSpeedKmhChanged(t, r), r.speed)
BY RaceBoxAssumption DEF SoundTrack, Fitting, OnSpeedKmhChanged, TrackFields,
                         RaceBoxAssumption

----------------------------------------------------------------------------
(* The race subsystem. *)

SessionFields == {"laps", "speed", "speedDirty", "canSave", "sessions"}

RaceInv == Sound(rb) /\ rb.speed \in Nat /\ SoundTrack(tm, rb.speed)

\* The models as main() leaves them, at the first start and at every other.
LEMMA StartedInv ==
    ASSUME NEW user, NEW sessions
    PROVE  LET s == Started(user, sessions)
           IN  Sound(s.rb) /\ s.rb.speed \in Nat /\ SoundTrack(s.tm, s.rb.speed)
<1>. DEFINE fresh == TrackInit(user)
            q == ApplyLine(RaceBoxInit, fresh, fresh.active)
            t == LatchSlot(fresh, fresh.active)
<1>1. SoundTrack(fresh, 0)
  BY DEF SoundTrack, Fitting, TrackInit, TrackFields
<1>2. Started(user, sessions).rb = q /\ Started(user, sessions).tm = t
  BY DEF Started
<1>3. RaceBoxInit.speed = 0
  BY DEF RaceBoxInit
<1>. HIDE DEF fresh
<1>4. Sound(q) /\ q.speed = 0
  BY <1>3, InitSound, ApplyLineSound DEF SameFix
<1>5. SoundTrack(t, 0)
  BY <1>1, LineKeepsSuggestion
<1>. HIDE DEF q, t
<1>. QED BY <1>2, <1>4, <1>5

\* The receiver's steps.
LEMMA ReceiverStep ==
    ASSUME RaceInv, Receiver
    PROVE  RaceInv'
<1>1. ASSUME NEW d \in Samples, Data(d) PROVE RaceInv'
  <2>. DEFINE seen == TakeStatus(rb, d)
              done == OnData(rb, d)
              noticed == IF d.speed = rb.speed THEN tm ELSE OnSpeedKmhChanged(tm, seen)
  <2>1. d.fix \in BOOLEAN /\ d.speed \in Nat
    BY SampleAssumption, RaceBoxAssumption DEF SampleAssumption, Sample, RaceBoxAssumption
  <2>2. /\ rb' = done.rb
        /\ tm' = Settled(IF done.learned
                         THEN OnSectorGatesLearned(noticed, done.rb.gates) ELSE noticed)
    BY <1>1 DEF Data, TrackHandled, Settled
  <2>3. Sound(done.rb) /\ done.rb.speed = d.speed
    BY <2>1, DataSound DEF RaceInv
  <2>4. seen.hasFix = d.fix /\ seen.speed = d.speed
    BY <2>1, TakeStatusSound DEF RaceInv
  <2>. HIDE DEF seen, done
  <2>5. SoundTrack(noticed, d.speed)
    <3>1. CASE d.speed = rb.speed
      BY <3>1 DEF RaceInv
    <3>2. CASE d.speed # rb.speed
      <4>1. SoundTrack(OnSpeedKmhChanged(tm, seen), seen.speed)
        BY <2>1, <2>4, SpeedWithdraws DEF RaceInv
      <4>. QED BY <2>4, <3>2, <4>1
    <3>. QED BY <3>1, <3>2
  <2>. HIDE DEF noticed
  <2>6. SoundTrack(OnSectorGatesLearned(noticed, done.rb.gates), d.speed)
    BY <2>5, LineKeepsSuggestion
  <2>7. SoundTrack(tm', d.speed)
    BY <2>2, <2>5, <2>6, LineKeepsSuggestion
  <2>. QED BY <2>1, <2>2, <2>3, <2>7 DEF RaceInv
<1>2. ASSUME NEW c \in Links, Connection(c) PROVE RaceInv'
  <2>1. rb' = OnConnectionStateChanged(rb, c) /\ tm' = tm
    BY <1>2 DEF Connection
  <2>2. Sound(rb')
    BY <2>1, ConnectionSound DEF RaceInv
  <2>3. rb'.speed = rb.speed \/ rb'.speed = 0
    BY <2>1 DEF RaceInv, Sound, OnConnectionStateChanged, RaceBoxFields
  <2>4. 0 <= kStationarySpeedKmh
    BY RaceBoxAssumption DEF RaceBoxAssumption
  <2>5. SoundTrack(tm, rb'.speed)
    BY <2>3, <2>4 DEF RaceInv, SoundTrack, Fitting
  <2>6. rb'.speed \in Nat
    BY <2>3 DEF RaceInv
  <2>. QED BY <2>1, <2>2, <2>5, <2>6 DEF RaceInv
<1>3. CASE HeadingStale
  BY <1>3, HeadingAgesSound DEF HeadingStale, RaceInv, SameFix
<1>. QED BY <1>1, <1>2, <1>3 DEF Receiver

\* The timers' steps.
LEMMA TimersStep ==
    ASSUME RaceInv, Timers
    PROVE  RaceInv'
<1>1. CASE NotifyTick
  <2>1. rb' = EmitNotifications(rb)
    BY <1>1 DEF NotifyTick
  <2>2. Sound(rb') /\ rb'.speed = rb.speed
    BY <2>1, NotifySound DEF RaceInv
  <2>3. rb.hasFix \in BOOLEAN
    BY DEF RaceInv, Sound, Bits
  <2>4. SoundTrack(OnHasFixChanged(tm, rb.hasFix), rb.speed)
    BY <2>3, FixKeepsSuggestion DEF RaceInv
  <2>5. tm' = tm \/ tm' = OnHasFixChanged(tm, rb.hasFix)
    BY <1>1 DEF NotifyTick
  <2>. QED BY <2>2, <2>4, <2>5 DEF RaceInv
<1>2. CASE CanTick
  BY <1>2 DEF CanTick, RaceInv
<1>3. ASSUME NEW n, Scan(n) PROVE RaceInv'
  <2>1. tm' = ScanNearestTrack(tm, rb.speed, n) /\ rb' = rb
    BY <1>3 DEF Scan
  <2>2. SoundTrack(tm', rb.speed)
    BY <2>1, ScanSuggests DEF RaceInv
  <2>. QED BY <2>1, <2>2 DEF RaceInv
<1>4. ASSUME NEW kmh \in CanSpeeds, CanMoves(kmh) PROVE RaceInv'
  BY <1>4 DEF CanMoves, RaceInv
<1>. QED BY <1>1, <1>2, <1>3, <1>4 DEF Timers

\* The driver's steps.
LEMMA DriverStep ==
    ASSUME RaceInv, Driver
    PROVE  RaceInv'
<1>. DEFINE v == rb.speed
<1>0. Sound(rb) /\ v \in Nat /\ SoundTrack(tm, v) /\ rb.hasFix \in BOOLEAN
  BY DEF RaceInv, Sound, Bits
<1>1. CASE LearnLine
  <2>1. /\ rb' = LearnFinishLineHere(rb, learned')
        /\ tm' = Settled(OnSectorGatesLearned(OnFinishLineLearned(tm, learned'), NoGates))
    BY <1>1 DEF LearnLine, TrackHandled, Settled
  <2>2. Sound(rb') /\ rb'.speed = v
    BY <1>0, <2>1, LearnFinishLineSound DEF SameFix
  <2>3. SoundTrack(OnFinishLineLearned(tm, learned'), v)
    BY <1>0, LearnedKeepsSuggestion
  <2>4. SoundTrack(tm', v)
    BY <2>1, <2>3, LineKeepsSuggestion
  <2>. QED BY <1>0, <2>2, <2>4 DEF RaceInv
<1>2. CASE ResetLine
  <2>1. rb' = ClearFinishLine(rb) /\ tm' = Settled(OnFinishLineCleared(tm))
    BY <1>2 DEF ResetLine, TrackHandled, Settled
  <2>2. Sound(rb') /\ rb'.speed = v
    BY <1>0, <2>1, ClearFinishLineSound DEF SameFix
  <2>3. SoundTrack(OnFinishLineLearned(tm, NoLine), v)
    BY <1>0, LearnedKeepsSuggestion
  <2>4. SoundTrack(tm', v)
    BY <2>1, <2>3, LineKeepsSuggestion DEF OnFinishLineCleared
  <2>. QED BY <1>0, <2>2, <2>4 DEF RaceInv
<1>3. CASE Accept
  <2>. DEFINE active == AcceptSuggestedTrack(tm)
  <2>1. /\ rb' = ApplyLine(rb, active, active.active)
        /\ tm' = Settled(LatchSlot(active, active.active))
    BY <1>3 DEF Accept, TrackHandled, Settled
  <2>2. SoundTrack(active, v)
    BY <1>0, ChosenTakesSuggestion
  <2>. HIDE DEF active
  <2>3. Sound(rb') /\ rb'.speed = v
    BY <1>0, <2>1, ApplyLineSound DEF SameFix
  <2>4. SoundTrack(tm', v)
    BY <2>1, <2>2, LineKeepsSuggestion
  <2>. QED BY <1>0, <2>3, <2>4 DEF RaceInv
<1>4. CASE Dismiss
  <2>1. tm' = DismissSuggestedTrack(tm, rb.hasFix) /\ rb' = rb
    BY <1>4 DEF Dismiss
  <2>2. SoundTrack(tm', v)
    BY <1>0, <2>1, FixKeepsSuggestion
  <2>. QED BY <1>0, <2>1, <2>2 DEF RaceInv
<1>5. CASE Deselect
  <2>1. tm' = Settled(ClearActiveTrack(tm, rb.hasFix)) /\ rb' = rb /\ tm.active # NoTrack
    BY <1>5 DEF Deselect, TrackHandled, Settled
  <2>15. SoundTrack(ClearActiveTrack(tm, rb.hasFix), v)
    BY <1>0, <2>1, FixKeepsSuggestion
  <2>2. SoundTrack(tm', v)
    BY <2>1, <2>15, LineKeepsSuggestion
  <2>. QED BY <1>0, <2>1, <2>2 DEF RaceInv
<1>6. ASSUME NEW id \in Tracks, Select(id) PROVE RaceInv'
  <2>. DEFINE active == SelectTrack(tm, id)
  <2>1. \/ rb' = ApplyLine(rb, active, id) /\ tm' = Settled(LatchSlot(active, id))
        \/ rb' = ClearFinishLine(rb) /\ tm' = Settled(OnFinishLineCleared(active))
    BY <1>6 DEF Select, TrackHandled, Settled
  <2>2. SoundTrack(active, v)
    BY <1>0, ChosenTakesSuggestion
  <2>. HIDE DEF active
  <2>3. Sound(rb') /\ rb'.speed = v
    BY <1>0, <2>1, ApplyLineSound, ClearFinishLineSound DEF SameFix
  <2>4. SoundTrack(LatchSlot(active, id), v)
    BY <2>2, LineKeepsSuggestion
  <2>5. SoundTrack(OnFinishLineLearned(active, NoLine), v)
    BY <2>2, LearnedKeepsSuggestion
  <2>6. SoundTrack(OnFinishLineCleared(active), v)
    BY <2>5, LineKeepsSuggestion DEF OnFinishLineCleared
  <2>7. SoundTrack(tm', v)
    BY <2>1, <2>4, <2>6, LineKeepsSuggestion
  <2>. QED BY <1>0, <2>1, <2>3, <2>7 DEF RaceInv
<1>7. ASSUME NEW id \in Tracks, Favorite(id) PROVE RaceInv'
  <2>1. tm' = Settled(ToggleFavorite(tm, id)) /\ rb' = rb
    BY <1>7 DEF Favorite, TrackHandled, Settled
  <2>15. SoundTrack(ToggleFavorite(tm, id), v)
    BY <1>0, LineKeepsSuggestion
  <2>2. SoundTrack(tm', v)
    BY <2>1, <2>15, LineKeepsSuggestion
  <2>. QED BY <1>0, <2>1, <2>2 DEF RaceInv
<1>8. ASSUME NEW stamp \in Stamps, SaveSession(stamp) PROVE RaceInv'
  <2>1. rb' = ResetLapState(rb) /\ tm' = tm
    BY <1>8 DEF SaveSession, ResetLapCounters
  <2>2. Sound(rb') /\ rb'.speed = v
    BY <1>0, <2>1, ResetSound DEF SameFix
  <2>. QED BY <1>0, <2>1, <2>2 DEF RaceInv
<1>9. ASSUME NEW i, RemoveSession(i) PROVE RaceInv'
  BY <1>9 DEF RemoveSession, RaceInv
<1>. QED BY <1>1, <1>2, <1>3, <1>4, <1>5, <1>6, <1>7, <1>8, <1>9 DEF Driver

\* The process's and the server's steps.
LEMMA OtherStep ==
    ASSUME RaceInv, Restart \/ DeferredLoad \/ Server
    PROVE  RaceInv'
<1>1. CASE Restart
  BY <1>1, StartedInv DEF Restart, RaceInv
<1>2. CASE DeferredLoad
  <2>1. tm' = LoadDatabase(tm, dbFile) /\ rb' = ApplyLine(rb, tm', tm'.active)
    BY <1>2 DEF DeferredLoad
  <2>2. Sound(rb') /\ rb'.speed = rb.speed
    BY <2>1, ApplyLineSound DEF RaceInv, SameFix
  <2>3. SoundTrack(tm', rb.speed)
    BY <2>1, DatabaseKeepsSuggestion DEF RaceInv
  <2>. QED BY <2>2, <2>3 DEF RaceInv
<1>3. CASE Refresh
  BY <1>3, DatabaseKeepsSuggestion DEF Refresh, RaceInv
<1>4. CASE RefreshFails
  BY <1>4, DatabaseKeepsSuggestion DEF RefreshFails, RaceInv
<1>5. ASSUME NEW db \in Databases, RefreshAnswered(db) PROVE RaceInv'
  BY <1>5, DatabaseKeepsSuggestion DEF RefreshAnswered, RaceInv
<1>. QED BY <1>1, <1>2, <1>3, <1>4, <1>5 DEF Server

\* RaceInv is inductive.
THEOREM RaceIsSound == Spec => []RaceInv
<1>1. Init => RaceInv
  <2>. SUFFICES ASSUME Init PROVE RaceInv
    OBVIOUS
  <2>1. rb = Started(userFile, << >>).rb /\ tm = Started(userFile, << >>).tm
    BY DEF Init
  <2>. QED BY <2>1, StartedInv DEF RaceInv
<1>2. RaceInv /\ [Next]_vars => RaceInv'
  <2>. SUFFICES ASSUME RaceInv, [Next]_vars PROVE RaceInv'
    OBVIOUS
  <2>1. CASE UNCHANGED vars
    BY <2>1 DEF vars, RaceInv
  <2>2. CASE Next
    BY <2>2, ReceiverStep, TimersStep, DriverStep, OtherStep DEF Next
  <2>. QED BY <2>1, <2>2
<1>. QED BY <1>1, <1>2, PTL DEF Spec

\* lapTimerStateChanged never slips past the early return of
\* emitNotifications(): with no dirty bit set, listeners know the state.
THEOREM ListenersAlwaysKnow == Spec => []ListenersKnowState
<1>1. RaceInv => ListenersKnowState
  BY DEF RaceInv, Sound, Told, ListenersKnowState
<1>. QED BY <1>1, RaceIsSound, PTL

\* Neither the previous fix nor the heading's anchor outlives the fix
\* (onData(), onConnectionStateChanged()).
THEOREM FixNeverStale == Spec => []NoStaleFix
<1>1. RaceInv => NoStaleFix
  BY DEF RaceInv, Sound, Bits, FixHeld, NoStaleFix
<1>. QED BY <1>1, RaceIsSound, PTL

\* A suggestion is on screen only while the car is parked, no track is active
\* and none was picked, and the scan then rests (trackmodel.cpp:75).
THEOREM SuggestionsOnlyParked == Spec => []SuggestionOnlyParked
<1>1. RaceInv => SuggestionOnlyParked
  BY DEF RaceInv, SoundTrack, Fitting, SuggestionOnlyParked
<1>. QED BY <1>1, RaceIsSound, PTL

----------------------------------------------------------------------------
(* The scan. *)

\* ScanWhenUseful of two records.
Scans(r, t) ==
    /\ r.hasFix = TRUE /\ "fix" \notin r.dirty
    /\ t.active = NoTrack /\ t.manual = FALSE /\ t.suggested = NoTrack
    => t.scanning = TRUE

\* The scan's needs are the same as before, or a track was chosen.
SameScan(u, t) ==
    /\ u.active = t.active /\ u.manual = t.manual
    /\ u.suggested = t.suggested /\ u.scanning = t.scanning

\* What feeds lines, gates and the status bar says nothing of the scan either.
LEMMA LineKeepsScan ==
    ASSUME NEW t, DOMAIN t = TrackFields, NEW id, NEW l, NEW g
    PROVE  /\ SameScan(LatchSlot(t, id), t)
           /\ SameScan(OnSectorGatesLearned(t, g), t)
           /\ SameScan(OnFinishLineLearned(t, l), t)
           /\ SameScan(OnFinishLineCleared(t), t)
           /\ SameScan(ToggleFavorite(t, id), t)
           /\ SameScan(Settled(t), t)
<1>1. SameScan(LatchSlot(t, id), t)
  BY DEF SameScan, LatchSlot, TrackFields
<1>2. ASSUME NEW u, DOMAIN u = TrackFields, NEW h
      PROVE  SameScan(OnSectorGatesLearned(u, h), u)
  BY <1>2 DEF SameScan, OnSectorGatesLearned, PersistUserState, TrackFields
<1>3. ASSUME NEW h
      PROVE  /\ SameScan(OnFinishLineLearned(t, h), t)
             /\ DOMAIN OnFinishLineLearned(t, h) = TrackFields
  BY DEF SameScan, OnFinishLineLearned, PersistUserState, ActiveTrackChanged, TrackFields
<1>4. SameScan(OnFinishLineCleared(t), t)
  <2>1. OnFinishLineCleared(t) = OnSectorGatesLearned(OnFinishLineLearned(t, NoLine), NoGates)
    BY DEF OnFinishLineCleared
  <2>. QED BY <1>2, <1>3, <2>1 DEF SameScan
<1>5. SameScan(ToggleFavorite(t, id), t)
  BY DEF SameScan, ToggleFavorite, PersistUserState, TrackFields
<1>6. SameScan(Settled(t), t)
  BY DEF SameScan, Settled, TrackFields
<1>. QED BY <1>1, <1>2, <1>3, <1>4, <1>5, <1>6

\* None of these handlers adds or drops a field.
LEMMA LineKeepsFields ==
    ASSUME NEW t, DOMAIN t = TrackFields, NEW id, NEW l, NEW g
    PROVE  /\ DOMAIN LatchSlot(t, id) = TrackFields
           /\ DOMAIN OnSectorGatesLearned(t, g) = TrackFields
           /\ DOMAIN OnFinishLineLearned(t, l) = TrackFields
           /\ DOMAIN OnFinishLineCleared(t) = TrackFields
           /\ DOMAIN ToggleFavorite(t, id) = TrackFields
           /\ DOMAIN ClearActiveTrack(t, id) = TrackFields
           /\ DOMAIN Settled(t) = TrackFields
<1>1. DOMAIN LatchSlot(t, id) = TrackFields
  BY DEF LatchSlot
<1>2. ASSUME NEW u, DOMAIN u = TrackFields, NEW h
      PROVE  DOMAIN OnSectorGatesLearned(u, h) = TrackFields
  BY <1>2 DEF OnSectorGatesLearned, PersistUserState
<1>3. ASSUME NEW h PROVE DOMAIN OnFinishLineLearned(t, h) = TrackFields
  BY DEF OnFinishLineLearned, PersistUserState, ActiveTrackChanged
<1>4. DOMAIN OnFinishLineCleared(t) = TrackFields
  BY <1>2, <1>3 DEF OnFinishLineCleared
<1>5. DOMAIN ToggleFavorite(t, id) = TrackFields
  BY DEF ToggleFavorite, PersistUserState
<1>6. DOMAIN ClearActiveTrack(t, id) = TrackFields
  BY DEF ClearActiveTrack, PersistUserState, ActiveTrackChanged
<1>7. DOMAIN Settled(t) = TrackFields
  BY DEF Settled
<1>. QED BY <1>1, <1>2, <1>3, <1>4, <1>5, <1>6, <1>7

\* A track made active, or picked, needs no scan.
LEMMA ChosenNeedsNoScan ==
    ASSUME NEW t, DOMAIN t = TrackFields, NEW id
    PROVE  /\ SelectTrack(t, id).manual = TRUE
           /\ AcceptSuggestedTrack(t).active = t.suggested
           /\ DOMAIN SelectTrack(t, id) = TrackFields
           /\ DOMAIN AcceptSuggestedTrack(t) = TrackFields
<1>1. SelectTrack(t, id).manual = TRUE /\ DOMAIN SelectTrack(t, id) = TrackFields
  BY DEF SelectTrack, SetActiveTrack, PersistUserState, ActiveTrackChanged, TrackFields
<1>2. /\ AcceptSuggestedTrack(t).active = t.suggested
      /\ DOMAIN AcceptSuggestedTrack(t) = TrackFields
  BY DEF AcceptSuggestedTrack, SetActiveTrack, PersistUserState, ActiveTrackChanged,
         TrackFields
<1>. QED BY <1>1, <1>2

TrackBits(t) ==
    DOMAIN t = TrackFields /\ t.manual \in BOOLEAN /\ t.scanning \in BOOLEAN

\* The handlers that restart it: a new fix, a dismissal, a track given up.
LEMMA FixRestartsScan ==
    ASSUME NEW t, TrackBits(t), NEW fix \in BOOLEAN, NEW r, r.hasFix = fix
    PROVE  /\ Scans(r, OnHasFixChanged(t, fix)) \/ t.active # NoTrack
           /\ Scans(r, DismissSuggestedTrack(t, fix))
           /\ Scans(r, ClearActiveTrack(t, fix))
<1>1. Scans(r, OnHasFixChanged(t, fix)) \/ t.active # NoTrack
  BY DEF Scans, OnHasFixChanged, TrackBits, TrackFields
<1>2. Scans(r, DismissSuggestedTrack(t, fix))
  BY DEF Scans, DismissSuggestedTrack, TrackBits, TrackFields
<1>3. Scans(r, ClearActiveTrack(t, fix))
  BY DEF Scans, ClearActiveTrack, PersistUserState, ActiveTrackChanged, TrackBits,
         TrackFields
<1>. QED BY <1>1, <1>2, <1>3

\* A suggestion withdrawn restarts it too; one made stops it.
LEMMA SpeedRestartsScan ==
    ASSUME NEW t, TrackBits(t), NEW r, r.hasFix \in BOOLEAN, Scans(r, t)
    PROVE  Scans(r, OnSpeedKmhChanged(t, r))
BY DEF Scans, OnSpeedKmhChanged, TrackBits, TrackFields

LEMMA SuggestionEndsScan ==
    ASSUME NEW t, TrackBits(t), NEW r, NEW v, NEW nearest, Scans(r, t)
    PROVE  Scans(r, ScanNearestTrack(t, v, nearest))
BY DEF Scans, ScanNearestTrack, TrackBits, TrackFields

LEMMA DatabaseKeepsScan ==
    ASSUME NEW t, TrackBits(t), NEW r, NEW db, Scans(r, t)
    PROVE  /\ Scans(r, LoadDatabase(t, db))
           /\ Scans(r, RefreshDatabase(t))
           /\ Scans(r, TakeDatabase(t, db))
           /\ Scans(r, RefreshFailed(t))
<1>1. Scans(r, LoadDatabase(t, db))
  BY DEF Scans, LoadDatabase, LatchSlot, ActiveTrackChanged, TrackBits, TrackFields
<1>2. Scans(r, RefreshDatabase(t)) /\ Scans(r, TakeDatabase(t, db)) /\ Scans(r, RefreshFailed(t))
  BY DEF Scans, RefreshDatabase, TakeDatabase, RefreshFailed, TrackBits, TrackFields
<1>. QED BY <1>1, <1>2

\* No step loses the scan.
LEMMA ScanStep ==
    ASSUME RaceInv, Scans(rb, tm), Next
    PROVE  Scans(rb', tm')
<1>0. /\ Sound(rb) /\ rb.hasFix \in BOOLEAN
      /\ SoundTrack(tm, rb.speed) /\ TrackBits(tm) /\ DOMAIN tm = TrackFields
  BY DEF RaceInv, Sound, Bits, SoundTrack, TrackBits
<1>1. ASSUME NEW d \in Samples, Data(d) PROVE Scans(rb', tm')
  <2>. DEFINE seen == TakeStatus(rb, d)
              done == OnData(rb, d)
              noticed == IF d.speed = rb.speed THEN tm ELSE OnSpeedKmhChanged(tm, seen)
  <2>1. d.fix \in BOOLEAN
    BY SampleAssumption DEF SampleAssumption, Sample
  <2>2. /\ rb' = done.rb
        /\ tm' = Settled(IF done.learned
                         THEN OnSectorGatesLearned(noticed, done.rb.gates) ELSE noticed)
    BY <1>1 DEF Data, TrackHandled, Settled
  <2>3. /\ done.rb.hasFix = d.fix
        /\ d.fix # rb.hasFix \/ "fix" \in rb.dirty => "fix" \in done.rb.dirty
    BY <1>0, <2>1, DataSound
  <2>4. /\ seen.hasFix = d.fix
        /\ d.fix # rb.hasFix \/ "fix" \in rb.dirty => "fix" \in seen.dirty
    BY <1>0, <2>1, TakeStatusSound
  <2>45. "fix" \in seen.dirty => "fix" \in rb.dirty \/ d.fix # rb.hasFix
    BY <1>0 DEF TakeStatus, Sound, RaceBoxFields
  <2>. HIDE DEF done
  <2>5. Scans(seen, tm)
    BY <2>4 DEF Scans
  <2>. HIDE DEF seen
  <2>6. Scans(seen, noticed) /\ DOMAIN noticed = TrackFields
    <3>1. Scans(seen, OnSpeedKmhChanged(tm, seen))
      BY <1>0, <2>1, <2>4, <2>5, SpeedRestartsScan
    <3>2. DOMAIN OnSpeedKmhChanged(tm, seen) = TrackFields
      BY <1>0 DEF OnSpeedKmhChanged, TrackFields
    <3>. QED BY <1>0, <2>5, <3>1, <3>2
  <2>. HIDE DEF noticed
  <2>7. Scans(done.rb, noticed)
    BY <2>3, <2>4, <2>45, <2>6 DEF Scans
  <2>. DEFINE handled == IF done.learned THEN OnSectorGatesLearned(noticed, done.rb.gates)
                         ELSE noticed
  <2>8. SameScan(handled, noticed) /\ DOMAIN handled = TrackFields
    <3>1. /\ SameScan(OnSectorGatesLearned(noticed, done.rb.gates), noticed)
          /\ DOMAIN OnSectorGatesLearned(noticed, done.rb.gates) = TrackFields
      BY <2>6, LineKeepsScan, LineKeepsFields
    <3>. QED BY <2>6, <3>1 DEF SameScan
  <2>85. tm' = Settled(handled)
    BY <2>2
  <2>. HIDE DEF handled
  <2>9. SameScan(tm', handled)
    BY <2>8, <2>85, LineKeepsScan
  <2>. QED BY <2>2, <2>7, <2>8, <2>9 DEF Scans, SameScan
<1>2. ASSUME NEW c, Connection(c) PROVE Scans(rb', tm')
  BY <1>0, <1>2 DEF Connection, OnConnectionStateChanged, Scans, Sound, RaceBoxFields
<1>3. CASE HeadingStale
  BY <1>0, <1>3, HeadingAgesSound DEF HeadingStale, SameFix, Scans
<1>4. CASE NotifyTick
  <2>1. rb' = EmitNotifications(rb) /\ rb'.hasFix = rb.hasFix
    BY <1>0, <1>4, NotifySound DEF NotifyTick
  <2>2. CASE "fix" \in rb.dirty
    <3>1. tm' = OnHasFixChanged(tm, rb.hasFix)
      BY <1>4, <2>2 DEF NotifyTick
    <3>2. Scans(rb', tm') \/ tm.active # NoTrack
      BY <1>0, <2>1, <3>1, FixRestartsScan
    <3>3. tm'.active = tm.active
      BY <1>0, <3>1 DEF OnHasFixChanged, TrackFields
    <3>. QED BY <1>0, <2>1, <3>2, <3>3 DEF Scans
  <2>3. CASE "fix" \notin rb.dirty
    BY <1>4, <2>1, <2>3 DEF NotifyTick, Scans
  <2>. QED BY <2>2, <2>3
<1>5. CASE CanTick
  BY <1>5 DEF CanTick
<1>6. ASSUME NEW n, Scan(n) PROVE Scans(rb', tm')
  BY <1>0, <1>6, SuggestionEndsScan DEF Scan
<1>7. ASSUME NEW kmh, CanMoves(kmh) PROVE Scans(rb', tm')
  BY <1>7 DEF CanMoves
<1>8. CASE LearnLine
  <2>1. /\ rb' = LearnFinishLineHere(rb, learned')
        /\ tm' = Settled(OnSectorGatesLearned(OnFinishLineLearned(tm, learned'), NoGates))
    BY <1>8 DEF LearnLine, TrackHandled, Settled
  <2>2. SameFix(rb', rb)
    BY <1>0, <2>1, LearnFinishLineSound
  <2>3. /\ SameScan(OnFinishLineLearned(tm, learned'), tm)
        /\ DOMAIN OnFinishLineLearned(tm, learned') = TrackFields
    BY <1>0, LineKeepsScan, LearnedKeepsSuggestion DEF SoundTrack
  <2>. DEFINE gated == OnSectorGatesLearned(OnFinishLineLearned(tm, learned'), NoGates)
  <2>4. SameScan(gated, OnFinishLineLearned(tm, learned')) /\ DOMAIN gated = TrackFields
    BY <2>3, LineKeepsScan, LineKeepsFields
  <2>45. tm' = Settled(gated)
    BY <2>1
  <2>. HIDE DEF gated
  <2>5. SameScan(tm', gated)
    BY <2>4, <2>45, LineKeepsScan
  <2>. QED BY <2>2, <2>3, <2>4, <2>5 DEF SameFix, SameScan, Scans
<1>9. CASE ResetLine
  <2>. DEFINE cleared == OnFinishLineCleared(tm)
  <2>1. rb' = ClearFinishLine(rb) /\ tm' = Settled(cleared)
    BY <1>9 DEF ResetLine, TrackHandled, Settled
  <2>2. SameFix(rb', rb)
    BY <1>0, <2>1, ClearFinishLineSound
  <2>3. SameScan(cleared, tm) /\ DOMAIN cleared = TrackFields
    BY <1>0, LineKeepsScan, LineKeepsFields
  <2>. HIDE DEF cleared
  <2>4. SameScan(tm', cleared)
    BY <2>1, <2>3, LineKeepsScan
  <2>. QED BY <2>2, <2>3, <2>4 DEF SameFix, SameScan, Scans
<1>10. CASE Accept
  <2>. DEFINE active == AcceptSuggestedTrack(tm)
              latched == LatchSlot(active, active.active)
  <2>1. tm' = Settled(latched) /\ tm.suggested # NoTrack
    BY <1>10 DEF Accept, TrackHandled, Settled
  <2>2. active.active # NoTrack /\ DOMAIN active = TrackFields
    BY <1>0, <2>1, ChosenNeedsNoScan
  <2>. HIDE DEF active
  <2>3. SameScan(latched, active) /\ DOMAIN latched = TrackFields
    BY <2>2, LineKeepsScan, LineKeepsFields
  <2>. HIDE DEF latched
  <2>4. SameScan(tm', latched)
    BY <2>1, <2>3, LineKeepsScan
  <2>. QED BY <2>2, <2>3, <2>4 DEF SameScan, Scans
<1>11. CASE Dismiss
  <2>1. tm' = DismissSuggestedTrack(tm, rb.hasFix) /\ rb' = rb
    BY <1>11 DEF Dismiss
  <2>2. Scans(rb, DismissSuggestedTrack(tm, rb.hasFix))
    BY <1>0, FixRestartsScan
  <2>. QED BY <2>1, <2>2
<1>12. CASE Deselect
  <2>. DEFINE left == ClearActiveTrack(tm, rb.hasFix)
  <2>1. tm' = Settled(left) /\ rb' = rb
    BY <1>12 DEF Deselect, TrackHandled, Settled
  <2>2. Scans(rb, left)
    BY <1>0, FixRestartsScan
  <2>3. DOMAIN left = TrackFields
    BY <1>0, LineKeepsFields
  <2>. HIDE DEF left
  <2>4. SameScan(tm', left)
    BY <2>1, <2>3, LineKeepsScan
  <2>. QED BY <2>1, <2>2, <2>4 DEF SameScan, Scans
<1>13. ASSUME NEW id, Select(id) PROVE Scans(rb', tm')
  <2>. DEFINE active == SelectTrack(tm, id)
  <2>1. \/ tm' = Settled(LatchSlot(active, id))
        \/ tm' = Settled(OnFinishLineCleared(active))
    BY <1>13 DEF Select, TrackHandled, Settled
  <2>2. active.manual = TRUE /\ DOMAIN active = TrackFields
    BY <1>0, ChosenNeedsNoScan
  <2>. HIDE DEF active
  <2>3. PICK h : /\ tm' = Settled(h) /\ SameScan(h, active) /\ DOMAIN h = TrackFields
    BY <2>1, <2>2, LineKeepsScan, LineKeepsFields
  <2>4. SameScan(tm', h)
    BY <2>3, LineKeepsScan
  <2>. QED BY <2>2, <2>3, <2>4 DEF SameScan, Scans
<1>14. ASSUME NEW id, Favorite(id) PROVE Scans(rb', tm')
  <2>. DEFINE toggled == ToggleFavorite(tm, id)
  <2>1. tm' = Settled(toggled) /\ rb' = rb
    BY <1>14 DEF Favorite, TrackHandled, Settled
  <2>2. SameScan(toggled, tm) /\ DOMAIN toggled = TrackFields
    BY <1>0, LineKeepsScan, LineKeepsFields
  <2>. HIDE DEF toggled
  <2>3. SameScan(tm', toggled)
    BY <2>1, <2>2, LineKeepsScan
  <2>. QED BY <2>1, <2>2, <2>3 DEF SameScan, Scans
<1>15. ASSUME NEW stamp, SaveSession(stamp) PROVE Scans(rb', tm')
  <2>1. rb' = ResetLapState(rb) /\ tm' = tm
    BY <1>15 DEF SaveSession, ResetLapCounters
  <2>2. SameFix(rb', rb)
    BY <1>0, <2>1, ResetSound
  <2>. QED BY <2>1, <2>2 DEF SameFix, Scans
<1>16. ASSUME NEW i, RemoveSession(i) PROVE Scans(rb', tm')
  BY <1>16 DEF RemoveSession
<1>17. CASE Restart
  <2>1. rb' = Started(userFile, sessionsFile).rb
    BY <1>17 DEF Restart
  <2>2. rb'.hasFix = FALSE
    BY <2>1, InitSound, ApplyLineSound DEF Started, SameFix, RaceBoxInit
  <2>. QED BY <2>2 DEF Scans
<1>18. CASE DeferredLoad
  <2>1. tm' = LoadDatabase(tm, dbFile) /\ rb' = ApplyLine(rb, tm', tm'.active)
    BY <1>18 DEF DeferredLoad
  <2>2. SameFix(rb', rb)
    BY <1>0, <2>1, ApplyLineSound
  <2>3. Scans(rb, tm')
    BY <1>0, <2>1, DatabaseKeepsScan
  <2>. QED BY <2>2, <2>3 DEF SameFix, Scans
<1>19. CASE Server
  BY <1>0, <1>19, DatabaseKeepsScan DEF Server, Refresh, RefreshFails, RefreshAnswered
<1>. HIDE DEF Next
<1>. QED BY <1>1, <1>2, <1>3, <1>4, <1>5, <1>6, <1>7, <1>8, <1>9, <1>10, <1>11, <1>12,
            <1>13, <1>14, <1>15, <1>16, <1>17, <1>18, <1>19
         DEF Next, Receiver, Timers, Driver

\* The scan is never lost: with a fix the listeners know of, no track active,
\* none picked and none suggested, it runs (trackmodel.cpp:79).
THEOREM ScanNeverLost == Spec => []ScanWhenUseful
<1>1. Init => Scans(rb, tm)
  <2>. SUFFICES ASSUME Init PROVE Scans(rb, tm)
    OBVIOUS
  <2>1. rb = Started(userFile, << >>).rb
    BY DEF Init
  <2>2. rb.hasFix = FALSE
    BY <2>1, InitSound, ApplyLineSound DEF Started, SameFix, RaceBoxInit
  <2>. QED BY <2>2 DEF Scans
<1>2. RaceInv /\ Scans(rb, tm) /\ [Next]_vars => Scans(rb, tm)'
  BY ScanStep DEF vars
<1>3. RaceInv /\ Scans(rb, tm) => ScanWhenUseful
  BY DEF RaceInv, Sound, Bits, SoundTrack, Scans, ScanWhenUseful
<1>. QED BY <1>1, <1>2, <1>3, RaceIsSound, PTL DEF Spec

----------------------------------------------------------------------------
(* The laps the timer counts, and those the session has. *)

\* A lap runs exactly when one is counted.
Counts(r) ==
    /\ DOMAIN r = RaceBoxFields /\ r.running \in BOOLEAN
    /\ r.lapNumber \in Nat /\ r.bestMs \in Nat /\ r.age \in Int
    /\ (r.running = TRUE) <=> (r.lapNumber > 0)

SameLaps(q, r) ==
    q.running = r.running /\ q.lapNumber = r.lapNumber /\ q.bestMs = r.bestMs

\* What a sample does to the count: nothing, start it, or complete a lap of
\* more than no time, which may be the best.
LapEffect(q, r, lap) ==
    \/ lap.ms = 0 /\ SameLaps(q, r)
    \/ /\ lap.ms = 0 /\ r.running = FALSE
       /\ q.lapNumber = r.lapNumber + 1 /\ q.bestMs = r.bestMs
    \/ /\ r.running = TRUE /\ q.lapNumber = r.lapNumber + 1
       /\ {"number", "ms"} \subseteq DOMAIN lap /\ lap.ms \in Nat \ {0}
       /\ q.bestMs = IF r.bestMs = 0 \/ lap.ms < r.bestMs THEN lap.ms ELSE r.bestMs

\* Handlers that leave the count alone, or take it back to nothing.
LEMMA LineKeepsCount ==
    ASSUME NEW r, Counts(r), NEW l, NEW g, NEW t, NEW id
    PROVE  /\ Counts(SetFinishLine(r, l)) /\ SameLaps(SetFinishLine(r, l), r)
           /\ Counts(LearnFinishLineHere(r, l)) /\ SameLaps(LearnFinishLineHere(r, l), r)
           /\ Counts(ApplyLine(r, t, id)) /\ SameLaps(ApplyLine(r, t, id), r)
<1>1. Counts(SetFinishLine(r, l)) /\ SameLaps(SetFinishLine(r, l), r)
  BY DEF Counts, SameLaps, SetFinishLine, RaceBoxFields
<1>2. Counts(LearnFinishLineHere(r, l)) /\ SameLaps(LearnFinishLineHere(r, l), r)
  BY DEF Counts, SameLaps, LearnFinishLineHere, SetFinishLine, RaceBoxFields
<1>3. Counts(ApplyLine(r, t, id)) /\ SameLaps(ApplyLine(r, t, id), r)
  <2>. DEFINE f == FinishLineFor(t, id)
              s == t.gates[SlotFor(t, id)]
  <2>1. ApplyLine(r, t, id) \in {r, SetSectorGates(SetFinishLine(r, f), s)}
    BY DEF ApplyLine
  <2>. HIDE DEF f, s
  <2>. QED BY <2>1 DEF Counts, SameLaps, SetFinishLine, SetSectorGates, RaceBoxFields
<1>. QED BY <1>1, <1>2, <1>3

LEMMA OthersKeepCount ==
    ASSUME NEW r, Counts(r), NEW c
    PROVE  /\ Counts(OnConnectionStateChanged(r, c))
           /\ SameLaps(OnConnectionStateChanged(r, c), r)
           /\ Counts(EmitNotifications(r)) /\ SameLaps(EmitNotifications(r), r)
           /\ Counts(HeadingAges(r)) /\ SameLaps(HeadingAges(r), r)
<1>1. /\ Counts(OnConnectionStateChanged(r, c))
      /\ SameLaps(OnConnectionStateChanged(r, c), r)
  BY DEF Counts, SameLaps, OnConnectionStateChanged, RaceBoxFields
<1>2. Counts(EmitNotifications(r)) /\ SameLaps(EmitNotifications(r), r)
  BY DEF Counts, SameLaps, EmitNotifications, RaceBoxFields
<1>3. Counts(HeadingAges(r)) /\ SameLaps(HeadingAges(r), r)
  BY DEF Counts, SameLaps, HeadingAges, RaceBoxFields
<1>. QED BY <1>1, <1>2, <1>3

LEMMA ResetEndsCount ==
    ASSUME NEW r, Counts(r)
    PROVE  /\ Counts(ResetLapState(r)) /\ Counts(ClearFinishLine(r))
           /\ ResetLapState(r).lapNumber = 0 /\ ClearFinishLine(r).lapNumber = 0
           /\ ResetLapState(r).bestMs = 0 /\ ClearFinishLine(r).bestMs = 0
<1>1. Counts(ResetLapState(r)) /\ ResetLapState(r).lapNumber = 0 /\ ResetLapState(r).bestMs = 0
  BY DEF Counts, ResetLapState, RaceBoxFields
<1>2. /\ Counts(ClearFinishLine(r)) /\ ClearFinishLine(r).lapNumber = 0
      /\ ClearFinishLine(r).bestMs = 0
  <2>1. ResetLapState(r).running = FALSE
    BY DEF Counts, ResetLapState, RaceBoxFields
  <2>. QED BY <1>1, <2>1 DEF Counts, ClearFinishLine, RaceBoxFields
<1>. QED BY <1>1, <1>2

\* updateLapTiming(), every return of it.
LEMMA UpdateCounts ==
    ASSUME NEW r0, Counts(r0), NEW d, d.at \in Nat, d.sectorAt \in Nat
    PROVE  LET u == UpdateLapTiming(r0, d)
           IN  /\ Counts(u.rb) /\ LapEffect(u.rb, r0, u.lap)
               /\ DOMAIN u = {"rb", "lap", "learned"}
<1>. DEFINE r == TestSector(r0, d)
            latched == [r EXCEPT !.crossDir = d.cross]
            lapMs == r.age + d.at
            gates == DeriveSectorGates(r, d)
            closed == [latched EXCEPT
                !.gates = gates,
                !.bestMs = IF @ = 0 \/ lapMs < @ THEN lapMs ELSE @]
            u == UpdateLapTiming(r0, d)
            lap == LapCompleted(r, gates, lapMs)
<1>1. Counts(r) /\ SameLaps(r, r0)
  BY DEF Counts, SameLaps, TestSector, RaceBoxFields
<1>2. /\ lap.ms = lapMs /\ {"number", "ms"} \subseteq DOMAIN lap
      /\ NoLap.ms = 0
  BY DEF LapCompleted, NoLap
<1>10. \/ u = [rb |-> r0, lap |-> NoLap, learned |-> FALSE]
       \/ u = [rb |-> r, lap |-> NoLap, learned |-> FALSE]
       \/ u = [rb |-> latched, lap |-> NoLap, learned |-> FALSE]
       \/ /\ r.running = TRUE /\ ~(lapMs < kMinLapMs)
          /\ u = [rb |-> StartLap(closed, d), lap |-> lap, learned |-> gates # r.gates]
       \/ /\ r.running = FALSE
          /\ u = [rb |-> StartLap(latched, d), lap |-> NoLap, learned |-> FALSE]
  <2>. HIDE DEF r, gates, lap
  <2>. QED BY <1>1 DEF UpdateLapTiming, Counts, r, gates, lap
<1>. SUFFICES Counts(u.rb) /\ LapEffect(u.rb, r0, u.lap) /\ DOMAIN u = {"rb", "lap", "learned"}
  OBVIOUS
<1>. HIDE DEF r, gates, lap, u
<1>3. lapMs \in Int
  BY <1>1 DEF Counts
<1>4. Counts(latched) /\ SameLaps(latched, r)
  BY <1>1 DEF Counts, SameLaps, RaceBoxFields
<1>5. CASE u = [rb |-> r0, lap |-> NoLap, learned |-> FALSE]
  BY <1>2, <1>5 DEF LapEffect, SameLaps
<1>6. CASE u = [rb |-> r, lap |-> NoLap, learned |-> FALSE]
  BY <1>1, <1>2, <1>6 DEF LapEffect, SameLaps
<1>7. CASE u = [rb |-> latched, lap |-> NoLap, learned |-> FALSE]
  <2>1. Counts(latched) /\ SameLaps(latched, r0)
    BY <1>1, <1>4 DEF SameLaps
  <2>. HIDE DEF latched
  <2>. QED BY <1>2, <1>7, <2>1 DEF LapEffect
<1>8. CASE /\ r.running = TRUE /\ ~(lapMs < kMinLapMs)
           /\ u = [rb |-> StartLap(closed, d), lap |-> lap, learned |-> gates # r.gates]
  <2>. DEFINE q == StartLap(closed, d)
  <2>1. lapMs \in Nat \ {0}
    BY <1>3, <1>8, RaceBoxAssumption DEF RaceBoxAssumption
  <2>. HIDE DEF lapMs
  <2>2. /\ DOMAIN q = RaceBoxFields /\ q.running = TRUE /\ q.age = -d.at
        /\ q.lapNumber = r.lapNumber + 1
        /\ q.bestMs = IF r.bestMs = 0 \/ lapMs < r.bestMs THEN lapMs ELSE r.bestMs
    BY <1>1 DEF Counts, StartLap, RaceBoxFields
  <2>. HIDE DEF q
  <2>3. Counts(q)
    <3>1. q.lapNumber \in Nat /\ q.lapNumber > 0
      BY <1>1, <2>2 DEF Counts
    <3>2. q.bestMs \in Nat
      BY <1>1, <2>1, <2>2 DEF Counts
    <3>3. q.age \in Int
      BY <2>2
    <3>. QED BY <2>2, <3>1, <3>2, <3>3 DEF Counts
  <2>4. LapEffect(q, r0, lap)
    BY <1>1, <1>2, <1>8, <2>1, <2>2 DEF LapEffect, SameLaps
  <2>. QED BY <1>8, <2>3, <2>4 DEF q
<1>9. CASE /\ r.running = FALSE
           /\ u = [rb |-> StartLap(latched, d), lap |-> NoLap, learned |-> FALSE]
  <2>. DEFINE q == StartLap(latched, d)
  <2>1. /\ DOMAIN q = RaceBoxFields /\ q.running = TRUE /\ q.age = -d.at
        /\ q.lapNumber = r.lapNumber + 1 /\ q.bestMs = r.bestMs
    BY <1>1 DEF Counts, StartLap, RaceBoxFields
  <2>. HIDE DEF q
  <2>2. Counts(q)
    <3>1. q.lapNumber \in Nat /\ q.lapNumber > 0 /\ q.bestMs \in Nat
      BY <1>1, <2>1 DEF Counts
    <3>2. q.age \in Int
      BY <2>1
    <3>. QED BY <2>1, <3>1, <3>2 DEF Counts
  <2>3. LapEffect(q, r0, NoLap)
    BY <1>1, <1>2, <1>9, <2>1 DEF LapEffect, SameLaps
  <2>. QED BY <1>9, <2>2, <2>3 DEF q
<1>. QED BY <1>5, <1>6, <1>7, <1>8, <1>9, <1>10

\* onData(), the whole of it.
LEMMA DataCounts ==
    ASSUME NEW r, Counts(r), NEW d, d.fix \in BOOLEAN, d.dt \in Nat, d.at \in Nat,
           d.sectorAt \in Nat
    PROVE  LET t == OnData(r, d) IN Counts(t.rb) /\ LapEffect(t.rb, r, t.lap)
<1>. DEFINE seen == TakeStatus(r, d)
<1>1. Counts(seen) /\ SameLaps(seen, r)
  BY DEF Counts, SameLaps, TakeStatus, RaceBoxFields
<1>. HIDE DEF seen
<1>2. CASE d.fix
  <2>. DEFINE headed == [seen EXCEPT !.anchor = TRUE,
                             !.heading = IF seen.anchor /\ d.moved THEN "fresh" ELSE @]
              timed == IF seen.prevFix THEN UpdateLapTiming(headed, d)
                       ELSE [rb |-> headed, lap |-> NoLap, learned |-> FALSE]
              q == [timed.rb EXCEPT
                      !.prevFix = TRUE,
                      !.age = IF timed.rb.running THEN @ + d.dt ELSE 0,
                      !.dirty = IF timed.rb.running THEN @ \cup {"other"} ELSE @]
              t == TakeFix(seen, d)
  <2>1. OnData(r, d) = t
    BY <1>2 DEF OnData, seen
  <2>2. Counts(headed) /\ SameLaps(headed, seen)
    BY <1>1 DEF Counts, SameLaps, RaceBoxFields
  <2>. HIDE DEF headed
  <2>3. /\ Counts(timed.rb) /\ LapEffect(timed.rb, headed, timed.lap)
        /\ DOMAIN timed = {"rb", "lap", "learned"}
    <3>1. CASE seen.prevFix
      <4>1. timed = UpdateLapTiming(headed, d)
        BY <3>1
      <4>. HIDE DEF timed
      <4>. QED BY <2>2, <4>1, UpdateCounts
    <3>2. CASE ~seen.prevFix
      <4>1. timed = [rb |-> headed, lap |-> NoLap, learned |-> FALSE]
        BY <3>2
      <4>. HIDE DEF timed
      <4>. QED BY <2>2, <4>1 DEF LapEffect, SameLaps, NoLap
    <3>. QED BY <3>1, <3>2
  <2>4. t = [timed EXCEPT !.rb.prevFix = TRUE,
                 !.rb.age = IF timed.rb.running THEN @ + d.dt ELSE 0,
                 !.rb.dirty = IF timed.rb.running THEN @ \cup {"other"} ELSE @]
    BY DEF TakeFix, headed
  <2>. HIDE DEF timed, t
  <2>5. t.rb = q /\ t.lap = timed.lap
    BY <2>3, <2>4 DEF Counts, RaceBoxFields
  <2>6. Counts(q) /\ SameLaps(q, timed.rb)
    BY <2>3 DEF Counts, SameLaps, RaceBoxFields
  <2>. HIDE DEF q
  <2>7. LapEffect(q, r, timed.lap)
    BY <1>1, <2>2, <2>3, <2>6 DEF LapEffect, SameLaps
  <2>. QED BY <2>1, <2>5, <2>6, <2>7
<1>3. CASE ~d.fix
  <2>. DEFINE q == [seen EXCEPT !.dirty = IF r.running THEN @ \cup {"other"} ELSE @]
  <2>1. OnData(r, d).rb = q /\ OnData(r, d).lap.ms = 0
    BY <1>3 DEF OnData, seen, NoLap
  <2>2. Counts(q) /\ SameLaps(q, r)
    BY <1>1 DEF Counts, SameLaps, RaceBoxFields
  <2>. HIDE DEF q
  <2>. QED BY <2>1, <2>2 DEF LapEffect
<1>. QED BY <1>2, <1>3

\* The laps of the session since the last reset, and the best of them.
Recent(r) == IF r.lapNumber = 0 THEN 0 ELSE r.lapNumber - 1

Agree(r, laps) ==
    /\ \E T : laps \in Seq(T)
    /\ \A i \in DOMAIN laps : laps[i].ms \in Nat \ {0}
    /\ Recent(r) <= Len(laps)
    /\ Recent(r) = 0 => r.bestMs = 0
    /\ Recent(r) > 0 =>
         /\ \E i \in Len(laps) - Recent(r) + 1..Len(laps) : r.bestMs = laps[i].ms
         /\ \A i \in Len(laps) - Recent(r) + 1..Len(laps) : r.bestMs <= laps[i].ms

LEMMA AgreeKept ==
    ASSUME NEW r, NEW laps, Agree(r, laps), NEW q, SameLaps(q, r)
    PROVE  Agree(q, laps)
BY DEF Agree, SameLaps, Recent

\* A lap the timer completes is the session's last.
LEMMA LapKeepsAgreement ==
    ASSUME NEW r, Counts(r), NEW s, DOMAIN s = SessionFields, Agree(r, s.laps),
           NEW q, NEW lap, LapEffect(q, r, lap)
    PROVE  /\ DOMAIN OnLapCompleted(s, lap) = SessionFields
           /\ Agree(q, OnLapCompleted(s, lap).laps)
<1>1. DOMAIN OnLapCompleted(s, lap) = SessionFields
  BY DEF OnLapCompleted, UpdateCanSave, SessionFields
<1>2. CASE lap.ms = 0
  <2>1. OnLapCompleted(s, lap) = s
    BY <1>2 DEF OnLapCompleted
  <2>2. CASE SameLaps(q, r)
    BY <1>1, <2>1, <2>2, AgreeKept
  <2>3. CASE r.running = FALSE /\ q.lapNumber = r.lapNumber + 1 /\ q.bestMs = r.bestMs
    <3>1. r.lapNumber = 0 /\ Recent(q) = 0 /\ Recent(r) = 0
      BY <2>3 DEF Counts, Recent
    <3>. QED BY <1>1, <2>1, <2>3, <3>1 DEF Agree
  <2>. QED BY <1>2, <2>2, <2>3 DEF LapEffect
<1>3. CASE lap.ms # 0
  <2>. DEFINE n == NumberedLap(s, lap)
              laps == s.laps
              longer == Append(laps, n)
  <2>1. /\ r.running = TRUE /\ q.lapNumber = r.lapNumber + 1
        /\ {"number", "ms"} \subseteq DOMAIN lap /\ lap.ms \in Nat \ {0}
        /\ q.bestMs = IF r.bestMs = 0 \/ lap.ms < r.bestMs THEN lap.ms ELSE r.bestMs
    BY <1>3 DEF LapEffect
  <2>2. n.ms = lap.ms
    BY <2>1 DEF NumberedLap
  <2>3. OnLapCompleted(s, lap).laps = longer
    BY <2>1 DEF OnLapCompleted, UpdateCanSave, SessionFields
  <2>. HIDE DEF n, laps
  <2>4. PICK T : laps \in Seq(T)
    BY DEF Agree, laps
  <2>5. /\ longer \in Seq(T \cup {n}) /\ Len(longer) = Len(laps) + 1
        /\ longer[Len(laps) + 1] = n
        /\ \A i \in 1..Len(laps) : longer[i] = laps[i]
        /\ DOMAIN longer = 1..Len(laps) + 1 /\ DOMAIN laps = 1..Len(laps)
        /\ Len(laps) \in Nat
    <3>1. laps \in Seq(T \cup {n}) /\ n \in T \cup {n}
      BY <2>4
    <3>. QED BY <3>1
  <2>. HIDE DEF longer
  <2>6. Recent(r) \in Nat /\ Recent(q) = Recent(r) + 1 /\ Recent(r) <= Len(laps)
    <3>1. r.lapNumber \in Nat /\ r.lapNumber > 0
      BY <2>1 DEF Counts
    <3>2. Recent(r) = r.lapNumber - 1 /\ Recent(q) = r.lapNumber
      BY <2>1, <3>1 DEF Recent
    <3>3. Recent(r) <= Len(laps)
      BY DEF Agree, laps
    <3>. QED BY <3>1, <3>2, <3>3
  <2>7. \A i \in DOMAIN longer : longer[i].ms \in Nat \ {0}
    <3>1. \A i \in DOMAIN laps : laps[i].ms \in Nat \ {0}
      BY DEF Agree, laps
    <3>. QED BY <2>1, <2>2, <2>5, <3>1
  <2>. DEFINE first == Len(laps) - Recent(r) + 1
              best == q.bestMs
  <2>8. Len(longer) - Recent(q) + 1 = first
    BY <2>5, <2>6
  <2>9. CASE Recent(r) = 0
    <3>1. r.bestMs = 0 /\ best = lap.ms
      BY <2>1, <2>9 DEF Agree
    <3>2. first..Len(longer) = {Len(laps) + 1}
      BY <2>5, <2>9
    <3>3. /\ \E i \in first..Len(longer) : best = longer[i].ms
          /\ \A i \in first..Len(longer) : best <= longer[i].ms
      BY <2>1, <2>2, <2>5, <3>1, <3>2
    <3>. QED BY <1>1, <2>3, <2>5, <2>6, <2>7, <2>8, <3>3 DEF Agree
  <2>10. CASE Recent(r) > 0
    <3>1. PICK i \in first..Len(laps) : r.bestMs = laps[i].ms
      BY <2>10 DEF Agree, laps
    <3>2. \A j \in first..Len(laps) : r.bestMs <= laps[j].ms
      BY <2>10 DEF Agree, laps
    <3>3. first \in 1..Len(laps)
      BY <2>5, <2>6, <2>10
    <3>4. ASSUME NEW j \in first..Len(longer)
          PROVE  \/ j = Len(laps) + 1 /\ longer[j] = n
                 \/ j \in first..Len(laps) /\ longer[j] = laps[j]
      <4>1. j = Len(laps) + 1 \/ (j \in first..Len(laps) /\ j \in 1..Len(laps))
        BY <2>5, <2>6, <3>3
      <4>. QED BY <2>5, <4>1
    <3>5. \A j \in first..Len(longer) : best <= longer[j].ms
      BY <2>1, <2>2, <2>7, <2>5, <3>1, <3>2, <3>3, <3>4
    <3>6. \E j \in first..Len(longer) : best = longer[j].ms
      <4>1. best = lap.ms \/ best = r.bestMs
        BY <2>1
      <4>2. i \in first..Len(longer) /\ longer[i].ms = r.bestMs
        BY <2>5, <3>1, <3>3
      <4>3. Len(laps) + 1 \in first..Len(longer) /\ longer[Len(laps) + 1].ms = lap.ms
        BY <2>2, <2>5, <3>3
      <4>. QED BY <4>1, <4>2, <4>3
    <3>. QED BY <1>1, <2>3, <2>5, <2>6, <2>7, <2>8, <3>5, <3>6 DEF Agree
  <2>. QED BY <2>6, <2>9, <2>10
<1>. QED BY <1>2, <1>3

\* Both sides start over together.
LEMMA AgreeAtZero ==
    ASSUME NEW r, r.lapNumber = 0, r.bestMs = 0, NEW laps, \E T : laps \in Seq(T),
           \A i \in DOMAIN laps : laps[i].ms \in Nat \ {0}
    PROVE  Agree(r, laps)
BY DEF Agree, Recent

CountInv == Counts(rb) /\ DOMAIN se = SessionFields /\ Agree(rb, se.laps)

LEMMA StartedCounts ==
    ASSUME NEW user, NEW sessions
    PROVE  LET s == Started(user, sessions)
           IN  Counts(s.rb) /\ DOMAIN s.se = SessionFields /\ Agree(s.rb, s.se.laps)
<1>. DEFINE fresh == TrackInit(user)
            q == ApplyLine(RaceBoxInit, fresh, fresh.active)
            s == Started(user, sessions)
<1>1. Counts(RaceBoxInit) /\ RaceBoxInit.lapNumber = 0 /\ RaceBoxInit.bestMs = 0
  BY DEF RaceBoxInit, Counts, RaceBoxFields
<1>2. s.rb = q /\ s.se = SessionInit(sessions)
  BY DEF Started
<1>. HIDE DEF fresh, s
<1>3. Counts(q) /\ q.lapNumber = 0 /\ q.bestMs = 0
  BY <1>1, LineKeepsCount DEF SameLaps
<1>. HIDE DEF q
<1>4. s.se.laps = << >> /\ DOMAIN s.se = SessionFields
  BY <1>2 DEF SessionInit, SessionFields
<1>5. << >> \in Seq({}) /\ DOMAIN << >> = {}
  OBVIOUS
<1>6. Agree(q, << >>)
  BY <1>3, <1>5, AgreeAtZero
<1>7. Counts(s.rb) /\ DOMAIN s.se = SessionFields /\ Agree(s.rb, s.se.laps)
  BY <1>2, <1>3, <1>4, <1>6
<1>. QED BY <1>7 DEF s

LEMMA CountStep ==
    ASSUME CountInv, Next
    PROVE  CountInv'
<1>0. Counts(rb) /\ DOMAIN se = SessionFields /\ Agree(rb, se.laps)
  BY DEF CountInv
<1>1. ASSUME NEW d \in Samples, Data(d) PROVE CountInv'
  <2>. DEFINE done == OnData(rb, d)
  <2>1. rb' = done.rb /\ se' = OnLapCompleted(se, done.lap)
    BY <1>1 DEF Data
  <2>2. d.fix \in BOOLEAN /\ d.dt \in Nat /\ d.at \in Nat /\ d.sectorAt \in Nat
    BY SampleAssumption DEF SampleAssumption, Sample
  <2>3. Counts(done.rb) /\ LapEffect(done.rb, rb, done.lap)
    BY <1>0, <2>2, DataCounts
  <2>. HIDE DEF done
  <2>4. DOMAIN se' = SessionFields /\ Agree(rb', se'.laps)
    BY <1>0, <2>1, <2>3, LapKeepsAgreement
  <2>. QED BY <2>1, <2>3, <2>4 DEF CountInv
<1>2. ASSUME Counts(rb'), SameLaps(rb', rb), DOMAIN se' = SessionFields, se'.laps = se.laps
      PROVE  CountInv'
  BY <1>0, <1>2, AgreeKept DEF CountInv
<1>3. ASSUME Counts(rb'), rb'.lapNumber = 0, rb'.bestMs = 0,
             DOMAIN se' = SessionFields, se'.laps = se.laps \/ se'.laps = << >>
      PROVE  CountInv'
  <2>1. << >> \in Seq({}) /\ DOMAIN << >> = {}
    OBVIOUS
  <2>2. /\ \E T : se'.laps \in Seq(T)
        /\ \A i \in DOMAIN se'.laps : se'.laps[i].ms \in Nat \ {0}
    BY <1>0, <1>3, <2>1 DEF Agree
  <2>. QED BY <1>3, <2>2, AgreeAtZero DEF CountInv
<1>4. ASSUME NEW c, Connection(c) PROVE CountInv'
  BY <1>0, <1>2, <1>4, OthersKeepCount DEF Connection
<1>5. CASE NotifyTick \/ HeadingStale
  BY <1>0, <1>2, <1>5, OthersKeepCount DEF NotifyTick, HeadingStale
<1>6. CASE CanTick
  BY <1>0, <1>2, <1>6 DEF CanTick, OnSpeedChanged, UpdateCanSave, SessionFields, SameLaps
<1>7. ASSUME NEW kmh, CanMoves(kmh) PROVE CountInv'
  BY <1>0, <1>2, <1>7 DEF CanMoves, CanSpeed, SessionFields, SameLaps
<1>8. CASE LearnLine
  BY <1>0, <1>2, <1>8, LineKeepsCount DEF LearnLine
<1>9. CASE ResetLine
  BY <1>0, <1>3, <1>9, ResetEndsCount DEF ResetLine
<1>10. CASE Accept
  <2>1. PICK t : rb' = ApplyLine(rb, t, t.active) /\ se' = se
    BY <1>10 DEF Accept
  <2>. QED BY <1>0, <1>2, <2>1, LineKeepsCount
<1>11. ASSUME NEW id, Select(id) PROVE CountInv'
  <2>1. se' = se /\ (rb' = ClearFinishLine(rb) \/ \E t : rb' = ApplyLine(rb, t, id))
    BY <1>11 DEF Select
  <2>. QED BY <1>0, <1>2, <1>3, <2>1, LineKeepsCount, ResetEndsCount
<1>12. ASSUME NEW stamp, SaveSession(stamp) PROVE CountInv'
  <2>1. /\ rb' = ResetLapState(rb)
        /\ se' = SaveCurrentSession(se, stamp, tm.active)
    BY <1>12 DEF SaveSession, ResetLapCounters
  <2>2. DOMAIN se' = SessionFields /\ se'.laps = << >>
    BY <1>0, <2>1 DEF SaveCurrentSession, UpdateCanSave, SessionFields
  <2>. QED BY <1>0, <1>3, <2>1, <2>2, ResetEndsCount
<1>13. ASSUME NEW i, RemoveSession(i) PROVE CountInv'
  <2>1. rb' = rb /\ se' = DeleteSession(se, se.sessions[i].stamp)
    BY <1>13 DEF RemoveSession
  <2>2. DOMAIN se' = SessionFields /\ se'.laps = se.laps
    BY <1>0, <2>1 DEF DeleteSession, SessionFields
  <2>. QED BY <1>0, <1>2, <2>1, <2>2 DEF SameLaps
<1>14. CASE Restart
  BY <1>14, StartedCounts DEF Restart, CountInv
<1>15. CASE DeferredLoad
  BY <1>0, <1>2, <1>15, LineKeepsCount DEF DeferredLoad
<1>16. CASE UNCHANGED <<rb, se>>
  BY <1>16 DEF CountInv
<1>17. \/ \E d \in Samples : Data(d)
       \/ \E c \in Links : Connection(c)
       \/ NotifyTick \/ HeadingStale \/ CanTick \/ LearnLine \/ ResetLine \/ Accept
       \/ \E kmh \in CanSpeeds : CanMoves(kmh)
       \/ \E id \in Tracks : Select(id)
       \/ \E stamp \in Stamps : SaveSession(stamp)
       \/ \E i \in DOMAIN se.sessions : RemoveSession(i)
       \/ Restart \/ DeferredLoad
       \/ UNCHANGED <<rb, se>>
  BY DEF Next, Receiver, Timers, Driver, Server, Scan, Dismiss, Deselect, Favorite, Refresh,
         RefreshFails, RefreshAnswered
<1>. QED BY <1>1, <1>4, <1>5, <1>6, <1>7, <1>8, <1>9, <1>10, <1>11, <1>12, <1>13, <1>14,
            <1>15, <1>16, <1>17

\* The dash never counts a lap that the session lacks, and its best lap is the
\* best of the laps since the last reset (updateLapTiming() and resetLapState()
\* against onLapCompleted() and saveCurrentSession()).
THEOREM TimerAlwaysAgrees == Spec => []TimerFollowsSession
<1>1. Init => CountInv
  BY StartedCounts DEF Init, CountInv
<1>2. CountInv /\ [Next]_vars => CountInv'
  BY CountStep DEF vars, CountInv
<1>3. CountInv => TimerFollowsSession
  <2>. SUFFICES ASSUME CountInv PROVE TimerFollowsSession
    OBVIOUS
  <2>. DEFINE count == IF rb.lapNumber = 0 THEN 0 ELSE rb.lapNumber - 1
              recent == {se.laps[i].ms : i \in Len(se.laps) - count + 1..Len(se.laps)}
  <2>1. count = Recent(rb) /\ count \in Nat
    BY DEF Recent, CountInv, Counts
  <2>. HIDE DEF count
  <2>2. count <= Len(se.laps)
    BY <2>1 DEF CountInv, Agree
  <2>3. rb.running = (rb.lapNumber > 0)
    BY DEF CountInv, Counts
  <2>4. IF count = 0 THEN rb.bestMs = 0
        ELSE rb.bestMs \in recent /\ \A ms \in recent : rb.bestMs <= ms
    BY <2>1 DEF CountInv, Agree
  <2>. QED BY <2>2, <2>3, <2>4 DEF TimerFollowsSession, count
<1>. QED BY <1>1, <1>2, <1>3, PTL DEF Spec

----------------------------------------------------------------------------
(* The files. *)

\* What is saved of the track model is the same in two records.
SameSaved(u, t) == Persisted(u) = Persisted(t)

\* And so is what the handler has written so far.
SameWritten(u, t) == SameSaved(u, t) /\ u.writes = t.writes /\ DOMAIN u = TrackFields

LEMMA NotSaved ==
    ASSUME NEW t, DOMAIN t = TrackFields, NEW id, NEW fix, NEW db
    PROVE  /\ SameWritten(ActiveTrackChanged(t), t)
           /\ SameWritten(LatchSlot(t, id), t)
           /\ SameWritten(OnHasFixChanged(t, fix), t)
           /\ SameWritten(DismissSuggestedTrack(t, fix), t)
           /\ SameWritten(RefreshDatabase(t), t)
           /\ SameWritten(TakeDatabase(t, db), t)
           /\ SameWritten(RefreshFailed(t), t)
<1>1. SameWritten(ActiveTrackChanged(t), t)
  BY DEF SameWritten, SameSaved, Persisted, ActiveTrackChanged, TrackFields
<1>2. SameWritten(LatchSlot(t, id), t)
  BY DEF SameWritten, SameSaved, Persisted, LatchSlot, TrackFields
<1>3. SameWritten(OnHasFixChanged(t, fix), t)
  BY DEF SameWritten, SameSaved, Persisted, OnHasFixChanged, TrackFields
<1>4. SameWritten(DismissSuggestedTrack(t, fix), t)
  BY DEF SameWritten, SameSaved, Persisted, DismissSuggestedTrack, TrackFields
<1>5. /\ SameWritten(RefreshDatabase(t), t) /\ SameWritten(TakeDatabase(t, db), t)
      /\ SameWritten(RefreshFailed(t), t)
  BY DEF SameWritten, SameSaved, Persisted, RefreshDatabase, TakeDatabase, RefreshFailed,
         TrackFields
<1>. QED BY <1>1, <1>2, <1>3, <1>4, <1>5

LEMMA DatabaseNotSaved ==
    ASSUME NEW t, DOMAIN t = TrackFields, NEW db
    PROVE  SameWritten(LoadDatabase(t, db), t)
<1>. DEFINE q == [t EXCEPT !.loaded = TRUE, !.db = IF db = NoDb THEN Bundled ELSE db]
<1>1. SameWritten(q, t)
  BY DEF SameWritten, SameSaved, Persisted, TrackFields
<1>2. LoadDatabase(t, db) = ActiveTrackChanged(LatchSlot(q, t.active))
  BY DEF LoadDatabase
<1>. HIDE DEF q
<1>3. SameWritten(LatchSlot(q, t.active), q)
  BY <1>1, NotSaved DEF SameWritten
<1>4. SameWritten(ActiveTrackChanged(LatchSlot(q, t.active)), LatchSlot(q, t.active))
  BY <1>3, NotSaved DEF SameWritten
<1>. QED BY <1>1, <1>2, <1>3, <1>4 DEF SameWritten, SameSaved

LEMMA SuggestionNotSaved ==
    ASSUME NEW t, DOMAIN t = TrackFields, NEW v, NEW nearest, NEW r
    PROVE  /\ SameWritten(ScanNearestTrack(t, v, nearest), t)
           /\ SameWritten(OnSpeedKmhChanged(t, r), t)
<1>1. SameWritten(ScanNearestTrack(t, v, nearest), t)
  BY DEF SameWritten, SameSaved, Persisted, ScanNearestTrack, TrackFields
<1>2. SameWritten(OnSpeedKmhChanged(t, r), t)
  BY DEF SameWritten, SameSaved, Persisted, OnSpeedKmhChanged, TrackFields
<1>. QED BY <1>1, <1>2

\* Halfway through a handler that found `found` saved: what is to be saved is
\* what the handler wrote last, or was there before it wrote anything.
UpToDate(t, found) ==
    /\ DOMAIN t = TrackFields /\ \E T : t.writes \in Seq(T)
    /\ t.writes = << >> => Persisted(t) = found
    /\ t.writes # << >> => Last(t.writes) = Persisted(t)

LEMMA UnsavedUpToDate ==
    ASSUME NEW t, NEW found, UpToDate(t, found), NEW u, SameWritten(u, t)
    PROVE  UpToDate(u, found)
BY DEF UpToDate, SameWritten, SameSaved

LEMMA WiderSeq ==
    ASSUME NEW T, NEW x \in Seq(T), NEW U, T \subseteq U
    PROVE  x \in Seq(U)
<1>1. Len(x) \in Nat /\ DOMAIN x = 1..Len(x) /\ \A i \in DOMAIN x : x[i] \in U
  OBVIOUS
<1>2. x = [i \in 1..Len(x) |-> x[i]]
  OBVIOUS
<1>3. [i \in 1..Len(x) |-> x[i]] \in Seq(U)
  BY <1>1
<1>. QED BY <1>2, <1>3

\* persistUserState() brings any record up to date.
LEMMA PersistUpToDate ==
    ASSUME NEW t, DOMAIN t = TrackFields, \E T : t.writes \in Seq(T), NEW found
    PROVE  UpToDate(PersistUserState(t), found)
<1>. DEFINE u == PersistUserState(t)
            w == Append(t.writes, Persisted(t))
<1>1. DOMAIN u = TrackFields /\ u.writes = w /\ Persisted(u) = Persisted(t)
  BY DEF PersistUserState, Persisted, TrackFields
<1>2. PICK T : t.writes \in Seq(T)
  OBVIOUS
<1>3. t.writes \in Seq(T \cup {Persisted(t)})
  BY <1>2, WiderSeq
<1>4. w \in Seq(T \cup {Persisted(t)}) /\ w # << >> /\ w[Len(w)] = Persisted(t)
  <2>. DEFINE x == t.writes
              e == Persisted(t)
  <2>1. x \in Seq(T \cup {e}) /\ e \in T \cup {e}
    BY <1>3
  <2>. HIDE DEF x, e
  <2>2. /\ Append(x, e) \in Seq(T \cup {e}) /\ Append(x, e) # << >>
        /\ Append(x, e)[Len(Append(x, e))] = e
    BY <2>1
  <2>. QED BY <2>2 DEF x, e
<1>. HIDE DEF u, w
<1>5. \E V : u.writes \in Seq(V)
  BY <1>1, <1>4
<1>6. u.writes # << >> /\ Last(u.writes) = Persisted(u)
  BY <1>1, <1>4 DEF Last
<1>7. UpToDate(u, found)
  BY <1>1, <1>5, <1>6 DEF UpToDate
<1>. QED BY <1>7 DEF u

LEMMA ChosenUpToDate ==
    ASSUME NEW t, NEW found, UpToDate(t, found), NEW id, NEW fix
    PROVE  /\ UpToDate(SelectTrack(t, id), found)
           /\ UpToDate(AcceptSuggestedTrack(t), found)
           /\ UpToDate(ClearActiveTrack(t, fix), found)
           /\ UpToDate(ToggleFavorite(t, id), found)
<1>. DEFINE Same(u) == DOMAIN u = TrackFields /\ u.writes = t.writes
<1>1. ASSUME NEW u, Same(u) PROVE UpToDate(ActiveTrackChanged(PersistUserState(u)), found)
  <2>1. UpToDate(PersistUserState(u), found)
    BY <1>1, PersistUpToDate DEF UpToDate
  <2>. QED BY <2>1, NotSaved, UnsavedUpToDate DEF UpToDate
<1>2. UpToDate(SelectTrack(t, id), found)
  <2>1. Same([[t EXCEPT !.manual = TRUE, !.scanning = FALSE, !.suggested = NoTrack]
              EXCEPT !.active = id, !.slot = id])
    BY DEF UpToDate, TrackFields
  <2>. QED BY <1>1, <2>1 DEF SelectTrack, SetActiveTrack
<1>3. UpToDate(AcceptSuggestedTrack(t), found)
  <2>1. Same([[t EXCEPT !.suggested = NoTrack]
              EXCEPT !.active = t.suggested, !.slot = t.suggested])
    BY DEF UpToDate, TrackFields
  <2>. QED BY <1>1, <2>1 DEF AcceptSuggestedTrack, SetActiveTrack
<1>4. UpToDate(ClearActiveTrack(t, fix), found)
  <2>1. Same([t EXCEPT !.active = NoTrack, !.manual = FALSE, !.scanning = @ \/ fix])
    BY DEF UpToDate, TrackFields
  <2>. QED BY <1>1, <2>1 DEF ClearActiveTrack
<1>5. UpToDate(ToggleFavorite(t, id), found)
  <2>. DEFINE u == [t EXCEPT !.favorites = IF id \in @ THEN @ \ {id} ELSE @ \cup {id}]
  <2>1. DOMAIN u = TrackFields /\ u.writes = t.writes
    BY DEF UpToDate, TrackFields
  <2>2. ToggleFavorite(t, id) = PersistUserState(u)
    BY DEF ToggleFavorite
  <2>. HIDE DEF u
  <2>. QED BY <2>1, <2>2, PersistUpToDate DEF UpToDate
<1>. QED BY <1>2, <1>3, <1>4, <1>5

\* Lines and gates learned or cleared: written wherever something changed.
LEMMA LearnedUpToDate ==
    ASSUME NEW t, NEW found, UpToDate(t, found), NEW l
    PROVE  UpToDate(OnFinishLineLearned(t, l), found)
<1>1. ASSUME NEW u, DOMAIN u = TrackFields, u.writes = t.writes
      PROVE  UpToDate(ActiveTrackChanged(PersistUserState(u)), found)
  <2>1. UpToDate(PersistUserState(u), found)
    BY <1>1, PersistUpToDate DEF UpToDate
  <2>. QED BY <2>1, NotSaved, UnsavedUpToDate DEF UpToDate
<1>. DEFINE learned0 == [t EXCEPT !.lines[t.active] = l, !.slot = t.active]
            cleared == [t EXCEPT !.lines[t.active] = NoLine]
<1>2. /\ DOMAIN learned0 = TrackFields /\ learned0.writes = t.writes
      /\ DOMAIN cleared = TrackFields /\ cleared.writes = t.writes
  BY DEF UpToDate, TrackFields
<1>3. \/ OnFinishLineLearned(t, l) = t
      \/ OnFinishLineLearned(t, l) = ActiveTrackChanged(PersistUserState(learned0))
      \/ OnFinishLineLearned(t, l) = ActiveTrackChanged(PersistUserState(cleared))
  BY DEF OnFinishLineLearned
<1>. HIDE DEF learned0, cleared
<1>4. /\ UpToDate(ActiveTrackChanged(PersistUserState(learned0)), found)
      /\ UpToDate(ActiveTrackChanged(PersistUserState(cleared)), found)
  BY <1>1, <1>2
<1>. QED BY <1>3, <1>4

LEMMA GatesUpToDate ==
    ASSUME NEW t, NEW found, UpToDate(t, found), NEW g
    PROVE  UpToDate(OnSectorGatesLearned(t, g), found)
<1>. DEFINE u == [t EXCEPT !.gates[t.slot] = g]
<1>1. DOMAIN u = TrackFields /\ u.writes = t.writes
  BY DEF UpToDate, TrackFields
<1>2. OnSectorGatesLearned(t, g) = t \/ OnSectorGatesLearned(t, g) = PersistUserState(u)
  BY DEF OnSectorGatesLearned
<1>. HIDE DEF u
<1>3. UpToDate(PersistUserState(u), found)
  BY <1>1, PersistUpToDate DEF UpToDate
<1>. QED BY <1>2, <1>3

LEMMA ClearedUpToDate ==
    ASSUME NEW t, NEW found, UpToDate(t, found)
    PROVE  UpToDate(OnFinishLineCleared(t), found)
BY LearnedUpToDate, GatesUpToDate DEF OnFinishLineCleared

LEMMA LatchUpToDate ==
    ASSUME NEW t, NEW found, UpToDate(t, found), NEW id
    PROVE  UpToDate(LatchSlot(t, id), found)
BY NotSaved, UnsavedUpToDate DEF UpToDate

----------------------------------------------------------------------------
\* A file written by the program is read back as it was, and no file is torn
\* that it wrote whole.
LEMMA ReadBack ==
    ASSUME NEW f, f = TornFile \/ f = Persisted(f)
    PROVE  /\ Persisted(TrackInit(f)) = LoadUserState(f)
           /\ f = Persisted(f) => LoadUserState(f) = f
<1>1. ASSUME NEW g PROVE Persisted(g) # TornFile
  <2>1. DOMAIN Persisted(g) = {"active", "favorites", "lines", "gates"}
        /\ DOMAIN TornFile = {"torn"}
    BY DEF Persisted, TornFile
  <2>. QED BY <2>1
<1>2. CASE f = TornFile
  BY <1>1, <1>2 DEF LoadUserState, TrackInit, Persisted, NoUserState
<1>3. CASE f = Persisted(f)
  <2>1. f # TornFile
    BY <1>1, <1>3
  <2>2. f = [active |-> f.active, favorites |-> f.favorites, lines |-> f.lines,
             gates |-> f.gates]
    BY <1>3 DEF Persisted
  <2>3. LoadUserState(f) = f
    BY <2>1 DEF LoadUserState
  <2>. QED BY <2>2, <2>3 DEF Persisted, TrackInit
<1>. QED BY <1>2, <1>3

LEMMA PersistedReadBack ==
    ASSUME NEW t
    PROVE  LoadUserState(Persisted(t)) = Persisted(t)
<1>1. Persisted(t) = Persisted(Persisted(t))
  BY DEF Persisted
<1>. QED BY <1>1, ReadBack

UserFileInv == tm.writes = << >> /\ ("user" \notin lost => LoadUserState(userFile) = Persisted(tm))

\* A handler that returns up to date leaves the file up to date, unless its last
\* write fails.
LEMMA HandledUpToDate ==
    ASSUME UserFileInv, NEW h, UpToDate(h, Persisted(tm)), TrackHandled(h)
    PROVE  UserFileInv'
<1>1. tm' = Settled(h) /\ UserStateWritten(h.writes)
  BY DEF TrackHandled, Settled
<1>2. tm'.writes = << >> /\ Persisted(tm') = Persisted(h)
  BY <1>1 DEF UpToDate, Settled, Persisted, TrackFields
<1>3. CASE h.writes = << >> /\ UNCHANGED <<userFile, lost>>
  BY <1>2, <1>3 DEF UserFileInv, UpToDate
<1>4. CASE h.writes # << >> /\ userFile' = Last(h.writes)
  BY <1>2, <1>4, PersistedReadBack DEF UserFileInv, UpToDate
<1>5. CASE "user" \in lost'
  BY <1>2, <1>5 DEF UserFileInv
<1>. QED BY <1>1, <1>3, <1>4, <1>5 DEF UserStateWritten, WriteFailed

\* Handlers that write nothing.
LEMMA UnwrittenUpToDate ==
    ASSUME UserFileInv, SameWritten(tm', tm), UNCHANGED userFile, "user" \in lost => "user" \in lost'
    PROVE  UserFileInv'
BY DEF UserFileInv, SameWritten, SameSaved

LEMMA UserFileStep ==
    ASSUME RaceInv, UserFileInv, userFile = TornFile \/ UserState(userFile), Next
    PROVE  UserFileInv'
<1>0. DOMAIN tm = TrackFields /\ UpToDate(tm, Persisted(tm))
  <2>1. DOMAIN tm = TrackFields /\ tm.writes = << >>
    BY DEF RaceInv, SoundTrack, UserFileInv
  <2>2. << >> \in Seq({})
    OBVIOUS
  <2>. QED BY <2>1, <2>2 DEF UpToDate
<1>1. ASSUME NEW d, Data(d) PROVE UserFileInv'
  <2>. DEFINE noticed == IF d.speed = rb.speed THEN tm
                         ELSE OnSpeedKmhChanged(tm, TakeStatus(rb, d))
              done == OnData(rb, d)
              h == IF done.learned THEN OnSectorGatesLearned(noticed, done.rb.gates)
                   ELSE noticed
  <2>1. TrackHandled(h)
    BY <1>1 DEF Data
  <2>2. UpToDate(noticed, Persisted(tm))
    BY <1>0, SuggestionNotSaved, UnsavedUpToDate
  <2>. HIDE DEF noticed, done
  <2>3. UpToDate(h, Persisted(tm))
    BY <2>2, GatesUpToDate
  <2>. QED BY <2>1, <2>3, HandledUpToDate
<1>2. CASE LearnLine
  <2>1. TrackHandled(OnSectorGatesLearned(OnFinishLineLearned(tm, learned'), NoGates))
    BY <1>2 DEF LearnLine
  <2>2. UpToDate(OnFinishLineLearned(tm, learned'), Persisted(tm))
    BY <1>0, LearnedUpToDate
  <2>. QED BY <2>1, <2>2, GatesUpToDate, HandledUpToDate
<1>3. CASE ResetLine
  <2>1. TrackHandled(OnFinishLineCleared(tm))
    BY <1>3 DEF ResetLine
  <2>. QED BY <1>0, <2>1, ClearedUpToDate, HandledUpToDate
<1>4. CASE Accept
  <2>. DEFINE active == AcceptSuggestedTrack(tm)
  <2>1. TrackHandled(LatchSlot(active, active.active))
    BY <1>4 DEF Accept
  <2>2. UpToDate(active, Persisted(tm))
    BY <1>0, ChosenUpToDate
  <2>. HIDE DEF active
  <2>. QED BY <2>1, <2>2, LatchUpToDate, HandledUpToDate
<1>5. ASSUME NEW id, Select(id) PROVE UserFileInv'
  <2>. DEFINE active == SelectTrack(tm, id)
  <2>1. TrackHandled(LatchSlot(active, id)) \/ TrackHandled(OnFinishLineCleared(active))
    BY <1>5 DEF Select
  <2>2. UpToDate(active, Persisted(tm))
    BY <1>0, ChosenUpToDate
  <2>. HIDE DEF active
  <2>. QED BY <2>1, <2>2, LatchUpToDate, ClearedUpToDate, HandledUpToDate
<1>6. CASE Deselect
  <2>1. TrackHandled(ClearActiveTrack(tm, rb.hasFix))
    BY <1>6 DEF Deselect
  <2>. QED BY <1>0, <2>1, ChosenUpToDate, HandledUpToDate
<1>7. ASSUME NEW id, Favorite(id) PROVE UserFileInv'
  <2>1. TrackHandled(ToggleFavorite(tm, id))
    BY <1>7 DEF Favorite
  <2>. QED BY <1>0, <2>1, ChosenUpToDate, HandledUpToDate
<1>8. CASE NotifyTick
  <2>1. /\ UNCHANGED <<userFile, lost>>
        /\ tm' = tm \/ tm' = OnHasFixChanged(tm, rb.hasFix)
    BY <1>8 DEF NotifyTick, files
  <2>2. SameWritten(tm', tm)
    BY <1>0, <2>1, NotSaved DEF SameWritten, SameSaved
  <2>. QED BY <2>1, <2>2, UnwrittenUpToDate
<1>9. CASE Dismiss
  <2>1. UNCHANGED <<userFile, lost>> /\ tm' = DismissSuggestedTrack(tm, rb.hasFix)
    BY <1>9 DEF Dismiss, files
  <2>2. SameWritten(tm', tm)
    BY <1>0, <2>1, NotSaved
  <2>. QED BY <2>1, <2>2, UnwrittenUpToDate
<1>10. ASSUME NEW n, Scan(n) PROVE UserFileInv'
  <2>1. UNCHANGED <<userFile, lost>> /\ tm' = ScanNearestTrack(tm, rb.speed, n)
    BY <1>10 DEF Scan, files
  <2>2. SameWritten(tm', tm)
    BY <1>0, <2>1, SuggestionNotSaved
  <2>. QED BY <2>1, <2>2, UnwrittenUpToDate
<1>11. CASE DeferredLoad
  <2>1. UNCHANGED <<userFile, lost>> /\ tm' = LoadDatabase(tm, dbFile)
    BY <1>11 DEF DeferredLoad, files
  <2>2. SameWritten(tm', tm)
    BY <1>0, <2>1, DatabaseNotSaved
  <2>. QED BY <2>1, <2>2, UnwrittenUpToDate
<1>12. CASE Server
  <2>1. /\ UNCHANGED <<userFile, lost>>
        /\ \/ tm' = RefreshDatabase(tm) \/ tm' = RefreshFailed(tm)
           \/ \E db : tm' = TakeDatabase(tm, db)
    BY <1>12 DEF Server, Refresh, RefreshFails, RefreshAnswered, files
  <2>2. SameWritten(tm', tm)
    BY <1>0, <2>1, NotSaved
  <2>. QED BY <2>1, <2>2, UnwrittenUpToDate
<1>13. CASE Restart
  <2>. DEFINE fresh == TrackInit(userFile)
  <2>1. userFile' = userFile /\ tm' = LatchSlot(fresh, fresh.active)
    BY <1>13 DEF Restart, Started
  <2>2. DOMAIN fresh = TrackFields /\ fresh.writes = << >>
    BY DEF TrackInit, TrackFields
  <2>3. Persisted(fresh) = LoadUserState(userFile)
    BY ReadBack DEF UserState
  <2>. HIDE DEF fresh
  <2>4. SameWritten(tm', fresh)
    BY <2>1, <2>2, NotSaved
  <2>. QED BY <2>1, <2>2, <2>3, <2>4 DEF SameWritten, SameSaved, UserFileInv
<1>14. ASSUME NEW stamp, SaveSession(stamp) PROVE UserFileInv'
  <2>1. UNCHANGED <<tm, userFile>> /\ ("user" \in lost => "user" \in lost')
    BY <1>14 DEF SaveSession, SessionsSaved, Written, WriteFailed
  <2>. QED BY <1>0, <2>1, UnwrittenUpToDate DEF SameWritten, SameSaved
<1>15. ASSUME NEW i, RemoveSession(i) PROVE UserFileInv'
  <2>1. UNCHANGED <<tm, userFile>> /\ ("user" \in lost => "user" \in lost')
    BY <1>15 DEF RemoveSession, SessionsSaved, Written, WriteFailed
  <2>. QED BY <1>0, <2>1, UnwrittenUpToDate DEF SameWritten, SameSaved
<1>16. CASE UNCHANGED <<tm, userFile, lost>>
  BY <1>0, <1>16, UnwrittenUpToDate DEF SameWritten, SameSaved
<1>17. \/ \E d \in Samples : Data(d)
       \/ \E id \in Tracks : Select(id) \/ Favorite(id)
       \/ \E n : Scan(n)
       \/ \E stamp \in Stamps : SaveSession(stamp)
       \/ \E i \in DOMAIN se.sessions : RemoveSession(i)
       \/ LearnLine \/ ResetLine \/ Accept \/ Deselect \/ NotifyTick \/ Dismiss
       \/ DeferredLoad \/ Server \/ Restart \/ UNCHANGED <<tm, userFile, lost>>
  BY DEF Next, Receiver, Timers, Driver, Connection, HeadingStale, CanTick, CanMoves, files
<1>. QED BY <1>1, <1>2, <1>3, <1>4, <1>5, <1>6, <1>7, <1>8, <1>9, <1>10, <1>11, <1>12,
            <1>13, <1>14, <1>15, <1>16, <1>17

SessionsFileInv == "sessions" \notin lost => sessionsFile = se.sessions

LEMMA SessionsFileStep ==
    ASSUME CountInv, SessionsFileInv, Next
    PROVE  SessionsFileInv'
<1>0. DOMAIN se = SessionFields
  BY DEF CountInv
<1>1. ASSUME se'.sessions = se.sessions, UNCHANGED sessionsFile,
             "sessions" \in lost => "sessions" \in lost'
      PROVE  SessionsFileInv'
  BY <1>1 DEF SessionsFileInv
<1>2. ASSUME NEW w, UserStateWritten(w) PROVE "sessions" \in lost => "sessions" \in lost'
  BY <1>2 DEF UserStateWritten, Written, WriteFailed
<1>3. ASSUME NEW d, Data(d) PROVE SessionsFileInv'
  <2>1. /\ se' = OnLapCompleted(se, OnData(rb, d).lap) /\ sessionsFile' = sessionsFile
        /\ \E w : UserStateWritten(w)
    BY <1>3 DEF Data, TrackHandled
  <2>2. se'.sessions = se.sessions
    BY <1>0, <2>1 DEF OnLapCompleted, UpdateCanSave, SessionFields
  <2>. QED BY <1>1, <1>2, <2>1, <2>2
<1>4. CASE CanTick
  <2>1. se'.sessions = se.sessions /\ UNCHANGED <<sessionsFile, lost>>
    BY <1>0, <1>4 DEF CanTick, OnSpeedChanged, UpdateCanSave, SessionFields, files
  <2>. QED BY <1>1, <2>1
<1>5. ASSUME NEW kmh, CanMoves(kmh) PROVE SessionsFileInv'
  <2>1. se'.sessions = se.sessions /\ UNCHANGED <<sessionsFile, lost>>
    BY <1>0, <1>5 DEF CanMoves, CanSpeed, SessionFields, files
  <2>. QED BY <1>1, <2>1
<1>6. ASSUME SessionsSaved PROVE SessionsFileInv'
  BY <1>6 DEF SessionsSaved, WriteFailed, SessionsFileInv
<1>7. CASE Restart
  BY <1>7 DEF Restart, Started, SessionInit, SessionsFileInv
<1>8. CASE UNCHANGED <<se, sessionsFile>> /\ \E w : UserStateWritten(w)
  BY <1>1, <1>2, <1>8
<1>9. CASE UNCHANGED <<se, sessionsFile, lost>>
  BY <1>9 DEF SessionsFileInv
<1>10. (\E id \in Tracks : Select(id) \/ Favorite(id))
       \/ LearnLine \/ ResetLine \/ Accept \/ Deselect
       => UNCHANGED <<se, sessionsFile>> /\ \E w : UserStateWritten(w)
  BY DEF LearnLine, ResetLine, Accept, Deselect, Select, Favorite, TrackHandled
<1>11. \/ \E d \in Samples : Data(d)
       \/ \E kmh \in CanSpeeds : CanMoves(kmh)
       \/ SessionsSaved \/ CanTick \/ Restart
       \/ (\E id \in Tracks : Select(id) \/ Favorite(id))
          \/ LearnLine \/ ResetLine \/ Accept \/ Deselect
       \/ UNCHANGED <<se, sessionsFile, lost>>
  BY DEF Next, Receiver, Timers, Driver, Server, Connection, HeadingStale, NotifyTick, Scan,
         Dismiss, Refresh, RefreshFails, RefreshAnswered, DeferredLoad, SaveSession,
         RemoveSession, files
<1>. QED BY <1>3, <1>4, <1>5, <1>6, <1>7, <1>8, <1>9, <1>10, <1>11

----------------------------------------------------------------------------
(* The splits. *)

LEMMA LeastNatural ==
    ASSUME NEW T \in SUBSET Nat, T # {}
    PROVE  \E x \in T : \A y \in T : x <= y
<1>1. \E x \in T : \A y \in T : ~(<<y, x>> \in OpToRel(<, Nat))
  BY NatLessThanWellFounded, WFMin
<1>2. PICK x \in T : \A y \in T : ~(<<y, x>> \in OpToRel(<, Nat))
  BY <1>1
<1>3. \A y \in T : ~(y < x)
  BY <1>2 DEF OpToRel
<1>. QED BY <1>3

\* Times that are the steps of w from 0 add up to where w ends.
LEMMA Telescope ==
    ASSUME NEW times, Len(times) \in Nat, NEW w \in [0..Len(times) -> Int], w[0] = 0,
           \A i \in 1..Len(times) : times[i] \in Int /\ w[i] = w[i - 1] + times[i]
    PROVE  Total(times) = w[Len(times)]
<1>. DEFINE N == Len(times)
            Sums(f) == f = [i \in 0..N |-> IF i = 0 THEN 0 ELSE f[i - 1] + times[i]]
            sum == CHOOSE f : Sums(f)
<1>1. Total(times) = sum[N]
  BY DEF Total
<1>. HIDE DEF N
<1>2. N \in Nat /\ N = Len(times)
  BY DEF N
<1>3. /\ w \in [0..N -> Int]
      /\ \A i \in 1..N : times[i] \in Int /\ w[i] = w[i - 1] + times[i]
  BY <1>2
<1>4. Sums(w)
  <2>1. \A i \in 0..N : w[i] = IF i = 0 THEN 0 ELSE w[i - 1] + times[i]
    BY <1>2, <1>3
  <2>. QED BY <1>3, <2>1
<1>5. Sums(sum)
  BY <1>4
<1>. HIDE DEF sum
<1>6. \A i \in 0..N : sum[i] = IF i = 0 THEN 0 ELSE sum[i - 1] + times[i]
  BY <1>5
<1>7. \A i \in 0..N : sum[i] = w[i]
  <2>. DEFINE Wrong == {i \in 0..N : sum[i] # w[i]}
  <2>1. SUFFICES ASSUME Wrong # {} PROVE FALSE
    OBVIOUS
  <2>2. PICK x \in Wrong : \A y \in Wrong : x <= y
    <3>1. Wrong \in SUBSET Nat
      BY <1>2
    <3>. HIDE DEF Wrong
    <3>. QED BY <2>1, <3>1, LeastNatural
  <2>3. x # 0
    BY <1>2, <1>6, <2>2
  <2>4. x - 1 \in 0..N /\ x - 1 \notin Wrong /\ x \in 1..N
    BY <1>2, <2>2, <2>3
  <2>5. sum[x - 1] = w[x - 1]
    BY <2>4
  <2>6. sum[x] = w[x]
    BY <1>2, <1>3, <1>6, <2>3, <2>4, <2>5
  <2>. QED BY <2>2, <2>6
<1>. QED BY <1>1, <1>2, <1>7

\* What the report of a lap says of its splits.
SplitLap(lap) ==
    lap.sectors # << >> =>
        /\ lap.timedAt = [s \in 1..lap.gates.count |-> lap.gates]
        /\ Len(lap.sectors) = lap.gates.count + 1
        /\ Total(lap.sectors) = lap.ms
        /\ \A s \in 1..lap.gates.count : lap.sectors[s] >= 0

GateShape(g) ==
    /\ DOMAIN g = {"base", "from", "dir"}
    /\ g.dir \in Seq(Directions)
    /\ g.dir = << >> => g = NoGates

\* Splits timed at one list of gates, in order, none before the lap began or
\* after the next fix.
Ordered(s, list, end) ==
    /\ s \in Seq([ms : Int, list : {list}]) /\ end >= 0
    /\ \A i \in DOMAIN s : 0 <= s[i].ms /\ s[i].ms <= end
    /\ \A i, j \in DOMAIN s : i < j => s[i].ms <= s[j].ms

LEMMA EmptyOrdered ==
    ASSUME NEW list, NEW end \in Int, end >= 0 PROVE Ordered(<< >>, list, end)
<1>1. << >> \in Seq([ms : Int, list : {list}]) /\ DOMAIN << >> = {}
  OBVIOUS
<1>. QED BY <1>1 DEF Ordered

\* An ordered sequence, position by position.
LEMMA OrderedAt ==
    ASSUME NEW s, NEW list, NEW end, Ordered(s, list, end)
    PROVE  /\ Len(s) \in Nat /\ DOMAIN s = 1..Len(s)
           /\ \A i \in 1..Len(s) :
                s[i].ms \in Int /\ s[i].list = list /\ 0 <= s[i].ms /\ s[i].ms <= end
           /\ \A i, j \in 1..Len(s) : i < j => s[i].ms <= s[j].ms
<1>. DEFINE Splits == [ms : Int, list : {list}]
<1>1. s \in Seq(Splits)
  BY DEF Ordered
<1>. HIDE DEF Splits
<1>2. Len(s) \in Nat /\ DOMAIN s = 1..Len(s) /\ \A i \in 1..Len(s) : s[i] \in Splits
  BY <1>1
<1>3. \A x \in Splits : x.ms \in Int /\ x.list = list
  BY DEF Splits
<1>. QED BY <1>2, <1>3 DEF Ordered

LEMMA LaterOrdered ==
    ASSUME NEW s, NEW list, NEW age \in Int, Ordered(s, list, age), NEW dt \in Nat
    PROVE  Ordered(s, list, age + dt)
<1>1. \A i \in DOMAIN s : s[i].ms \in Int /\ s[i].ms <= age
  BY OrderedAt
<1>. QED BY <1>1 DEF Ordered

LEMMA AppendOrdered ==
    ASSUME NEW s, NEW list, NEW age \in Int, Ordered(s, list, age),
           NEW at \in Nat, NEW dt \in Nat, at <= dt
    PROVE  LET longer == Append(s, [ms |-> age + at, list |-> list])
           IN  Ordered(longer, list, age + dt) /\ Len(longer) = Len(s) + 1
<1>. DEFINE split == [ms |-> age + at, list |-> list]
            longer == Append(s, split)
<1>1. split \in [ms : Int, list : {list}] /\ split.ms = age + at
  OBVIOUS
<1>. HIDE DEF split
<1>2. s \in Seq([ms : Int, list : {list}])
  BY DEF Ordered
<1>3. /\ longer \in Seq([ms : Int, list : {list}])
      /\ Len(longer) = Len(s) + 1 /\ longer[Len(s) + 1] = split
      /\ \A i \in 1..Len(s) : longer[i] = s[i]
      /\ DOMAIN longer = 1..Len(s) + 1 /\ DOMAIN s = 1..Len(s) /\ Len(s) \in Nat
  BY <1>1, <1>2
<1>. HIDE DEF longer
<1>4. \A i \in 1..Len(s) : s[i].ms \in Int /\ 0 <= s[i].ms /\ s[i].ms <= age
  BY OrderedAt
<1>5. age \in Nat
  BY DEF Ordered
<1>6. \A i \in DOMAIN longer : 0 <= longer[i].ms /\ longer[i].ms <= age + dt
  <2>. SUFFICES ASSUME NEW i \in DOMAIN longer
                PROVE  0 <= longer[i].ms /\ longer[i].ms <= age + dt
    OBVIOUS
  <2>1. CASE i \in 1..Len(s)
    BY <1>3, <1>4, <1>5, <2>1
  <2>2. CASE i = Len(s) + 1
    BY <1>1, <1>3, <1>5, <2>2
  <2>. QED BY <1>3, <2>1, <2>2
<1>7. ASSUME NEW i \in DOMAIN longer, NEW j \in DOMAIN longer, i < j
      PROVE  longer[i].ms <= longer[j].ms
  <2>1. i \in 1..Len(s) /\ longer[i] = s[i]
    BY <1>3, <1>7
  <2>2. CASE j \in 1..Len(s)
    BY <1>3, <1>7, <2>1, <2>2, OrderedAt
  <2>3. CASE j = Len(s) + 1
    BY <1>1, <1>3, <1>4, <2>1, <2>3
  <2>. QED BY <1>3, <2>2, <2>3
<1>8. Ordered(longer, list, age + dt)
  BY <1>3, <1>5, <1>6, <1>7 DEF Ordered
<1>. QED BY <1>3, <1>8 DEF longer, split

\* The sectors of a lap are the steps between its splits.
LEMMA SectorsAddUp ==
    ASSUME NEW s, NEW list, NEW end \in Int, Ordered(s, list, end), NEW ms \in Int
    PROVE  /\ Len(SectorTimesOf(s, ms)) = Len(s) + 1
           /\ Total(SectorTimesOf(s, ms)) = ms
           /\ \A i \in 1..Len(s) : SectorTimesOf(s, ms)[i] >= 0
<1>. DEFINE n == Len(s)
            w == [i \in 0..n + 1 |-> SectorEnd(s, ms, i)]
            times == [i \in 1..n + 1 |-> w[i] - w[i - 1]]
<1>1. n \in Nat
  BY OrderedAt
<1>2. SectorTimesOf(s, ms) = times
  BY <1>1 DEF SectorTimesOf
<1>3. \A i \in 1..n : s[i].ms \in Int /\ 0 <= s[i].ms
  BY OrderedAt
<1>4. \A i, j \in 1..n : i < j => s[i].ms <= s[j].ms
  BY OrderedAt
<1>. HIDE DEF n
<1>5. /\ w \in [0..n + 1 -> Int] /\ w[0] = 0 /\ w[n + 1] = ms
      /\ \A i \in 1..n : w[i] = s[i].ms
  <2>1. /\ SectorEnd(s, ms, 0) = 0 /\ SectorEnd(s, ms, n + 1) = ms
        /\ \A i \in 1..n : SectorEnd(s, ms, i) = s[i].ms
    BY <1>1 DEF SectorEnd, n
  <2>2. \A i \in 0..n + 1 : SectorEnd(s, ms, i) \in Int
    <3>. SUFFICES ASSUME NEW i \in 0..n + 1 PROVE SectorEnd(s, ms, i) \in Int
      OBVIOUS
    <3>1. i = 0 \/ i = n + 1 \/ i \in 1..n
      BY <1>1
    <3>. QED BY <1>3, <2>1, <3>1
  <2>3. 0 \in 0..n + 1 /\ n + 1 \in 0..n + 1 /\ \A i \in 1..n : i \in 0..n + 1
    BY <1>1
  <2>. QED BY <2>1, <2>2, <2>3
<1>. HIDE DEF w
<1>6. \A i \in 1..n + 1 : w[i] \in Int /\ w[i - 1] \in Int
  <2>1. \A i \in 1..n + 1 : i \in 0..n + 1 /\ i - 1 \in 0..n + 1
    BY <1>1
  <2>. QED BY <1>5, <2>1
<1>7. times \in [1..n + 1 -> Int]
  BY <1>6
<1>8. times \in Seq(Int)
  BY <1>1, <1>7
<1>9. \A i \in 1..n + 1 : times[i] = w[i] - w[i - 1]
  OBVIOUS
<1>. HIDE DEF times
<1>10. Len(times) = n + 1
  BY <1>1, <1>7, <1>8
<1>11. Total(times) = ms
  <2>1. Len(times) \in Nat /\ w \in [0..Len(times) -> Int]
    BY <1>1, <1>5, <1>10
  <2>2. \A i \in 1..Len(times) : times[i] \in Int /\ w[i] = w[i - 1] + times[i]
    BY <1>6, <1>9, <1>10
  <2>3. Total(times) = w[Len(times)]
    BY <1>5, <2>1, <2>2, Telescope
  <2>. QED BY <1>5, <1>10, <2>3
<1>12. \A i \in 1..n : times[i] >= 0
  <2>. SUFFICES ASSUME NEW i \in 1..n PROVE times[i] >= 0
    OBVIOUS
  <2>1. times[i] = w[i] - w[i - 1]
    BY <1>1, <1>9
  <2>2. CASE i = 1
    BY <1>3, <1>5, <2>1, <2>2
  <2>3. CASE i # 1
    <3>1. i - 1 \in 1..n /\ i - 1 < i
      BY <1>1, <2>3
    <3>2. s[i - 1].ms <= s[i].ms /\ s[i].ms \in Int /\ s[i - 1].ms \in Int
      BY <1>3, <1>4, <3>1
    <3>. QED BY <1>5, <2>1, <3>1, <3>2
  <2>. QED BY <2>2, <2>3
<1>. QED BY <1>2, <1>10, <1>11, <1>12 DEF n

\* Splits are kept for the lap that runs, timed at the gates in place, and lie
\* within it: after a handler, or `slack` before the fix that ends it. Without a
\* line there are none.
TimedLap(r, slack) ==
    /\ DOMAIN r = RaceBoxFields /\ r.running \in BOOLEAN /\ r.age \in Int
    /\ GateShape(r.gates)
    /\ r.running = TRUE => Ordered(r.splits, GateList(r.gates), r.age + slack)
    /\ r.running = FALSE \/ r.line = NoLine => r.splits = << >>
    /\ Len(r.splits) <= Len(r.gates.dir)

Reported(lap) ==
    \/ lap = NoLap
    \/ DOMAIN lap = {"number", "ms", "sectors", "gates", "timedAt"} /\ SplitLap(lap)

LEMMA NoGatesShape == GateShape(NoGates) /\ NoGates.dir = << >>
<1>1. << >> \in Seq(Directions)
  OBVIOUS
<1>. QED BY <1>1 DEF GateShape, NoGates

LEMMA ShapeLength ==
    ASSUME NEW g, GateShape(g)
    PROVE  Len(g.dir) \in Nat /\ Len(<< >>) = 0 /\ (Len(g.dir) = 0 => g.dir = << >>)
BY DEF GateShape

\* No splits: timed at whatever gates.
LEMMA NoSplitsTimed ==
    ASSUME NEW r, DOMAIN r = RaceBoxFields, r.running \in BOOLEAN, r.age \in Int,
           GateShape(r.gates), r.splits = << >>, NEW slack \in Int,
           r.running = TRUE => r.age + slack >= 0
    PROVE  TimedLap(r, slack)
<1>1. Len(r.splits) <= Len(r.gates.dir)
  BY ShapeLength
<1>2. r.running = TRUE => Ordered(<< >>, GateList(r.gates), r.age + slack)
  BY EmptyOrdered
<1>. QED BY <1>1, <1>2 DEF TimedLap

\* A line or gates replaced, laps reset: no split survives its gates.
LEMMA LineKeepsTiming ==
    ASSUME NEW r, TimedLap(r, 0), NEW l, NEW g, GateShape(g)
    PROVE  /\ TimedLap(SetFinishLine(r, l), 0)
           /\ TimedLap(SetSectorGates(r, g), 0)
           /\ r.line = NoLine => TimedLap(LearnFinishLineHere(r, l), 0)
           /\ TimedLap(ResetLapState(r), 0)
           /\ TimedLap(ClearFinishLine(r), 0)
<1>0. /\ DOMAIN r = RaceBoxFields /\ r.running \in BOOLEAN /\ r.age \in Int
      /\ GateShape(r.gates) /\ (r.running = TRUE => r.age + 0 >= 0)
  BY DEF TimedLap, Ordered
<1>1. TimedLap(SetFinishLine(r, l), 0)
  BY DEF SetFinishLine, TimedLap, RaceBoxFields
<1>2. TimedLap(SetSectorGates(r, g), 0)
  <2>. DEFINE q == SetSectorGates(r, g)
  <2>1. /\ DOMAIN q = RaceBoxFields /\ q.running = r.running /\ q.age = r.age
        /\ q.gates = g /\ q.splits = << >>
    BY <1>0 DEF SetSectorGates, RaceBoxFields
  <2>. HIDE DEF q
  <2>2. /\ q.running \in BOOLEAN /\ q.age \in Int /\ 0 \in Int
        /\ GateShape(q.gates) /\ (q.running = TRUE => q.age + 0 >= 0)
    BY <1>0, <2>1
  <2>3. TimedLap(q, 0)
    BY <2>1, <2>2, NoSplitsTimed
  <2>. QED BY <2>3 DEF q
<1>3. ASSUME r.line = NoLine PROVE TimedLap(LearnFinishLineHere(r, l), 0)
  <2>. DEFINE q == LearnFinishLineHere(r, l)
  <2>1. r.splits = << >>
    BY <1>3 DEF TimedLap
  <2>2. /\ DOMAIN q = RaceBoxFields /\ q.running = r.running /\ q.age = r.age
        /\ q.gates = NoGates /\ q.splits = << >>
    BY <1>0, <2>1 DEF LearnFinishLineHere, SetFinishLine, RaceBoxFields
  <2>. HIDE DEF q
  <2>3. /\ q.running \in BOOLEAN /\ q.age \in Int /\ 0 \in Int
        /\ GateShape(q.gates) /\ (q.running = TRUE => q.age + 0 >= 0)
    BY <1>0, <2>2, NoGatesShape
  <2>4. TimedLap(q, 0)
    BY <2>2, <2>3, NoSplitsTimed
  <2>. QED BY <2>4 DEF q
<1>4. /\ DOMAIN ResetLapState(r) = RaceBoxFields /\ ResetLapState(r).running = FALSE
      /\ ResetLapState(r).age = 0 /\ ResetLapState(r).splits = << >>
      /\ ResetLapState(r).gates = r.gates
  BY <1>0 DEF ResetLapState, RaceBoxFields
<1>5. TimedLap(ResetLapState(r), 0)
  <2>. DEFINE q == ResetLapState(r)
  <2>. HIDE DEF q
  <2>1. /\ DOMAIN q = RaceBoxFields /\ q.running \in BOOLEAN /\ q.age \in Int /\ 0 \in Int
        /\ GateShape(q.gates) /\ (q.running = TRUE => q.age + 0 >= 0) /\ q.splits = << >>
    <3>1. q.running \in BOOLEAN
      BY <1>4 DEF q
    <3>2. GateShape(q.gates)
      BY <1>0, <1>4 DEF q
    <3>3. q.age \in Int /\ 0 \in Int /\ q.age + 0 >= 0
      BY <1>4 DEF q
    <3>. QED BY <1>4, <3>1, <3>2, <3>3 DEF q
  <2>2. TimedLap(q, 0)
    BY <2>1, NoSplitsTimed
  <2>. QED BY <2>2 DEF q
<1>6. TimedLap(ClearFinishLine(r), 0)
  <2>. DEFINE q == ClearFinishLine(r)
  <2>1. /\ DOMAIN q = RaceBoxFields /\ q.running = FALSE /\ q.age = 0
        /\ q.gates = NoGates /\ q.splits = << >>
    BY <1>4 DEF ClearFinishLine, RaceBoxFields
  <2>. HIDE DEF q
  <2>2. /\ q.running \in BOOLEAN /\ q.age \in Int /\ 0 \in Int
        /\ GateShape(q.gates) /\ (q.running = TRUE => q.age + 0 >= 0)
    <3>1. q.running \in BOOLEAN
      BY <2>1
    <3>2. GateShape(q.gates)
      BY <2>1, NoGatesShape
    <3>3. q.age \in Int /\ 0 \in Int /\ q.age + 0 >= 0
      BY <2>1
    <3>. QED BY <3>1, <3>2, <3>3
  <2>3. TimedLap(q, 0)
    BY <2>1, <2>2, NoSplitsTimed
  <2>. QED BY <2>3 DEF q
<1>. QED BY <1>1, <1>2, <1>3, <1>5, <1>6

LEMMA OthersKeepTiming ==
    ASSUME NEW r, TimedLap(r, 0), NEW c
    PROVE  /\ TimedLap(OnConnectionStateChanged(r, c), 0)
           /\ TimedLap(EmitNotifications(r), 0)
           /\ TimedLap(HeadingAges(r), 0)
<1>. USE DEF TimedLap, RaceBoxFields
<1>1. TimedLap(OnConnectionStateChanged(r, c), 0)
  BY DEF OnConnectionStateChanged
<1>2. TimedLap(EmitNotifications(r), 0)
  BY DEF EmitNotifications
<1>3. TimedLap(HeadingAges(r), 0)
  BY DEF HeadingAges
<1>. QED BY <1>1, <1>2, <1>3

\* As the next fix comes in.
LEMMA NextFixTiming ==
    ASSUME NEW r, TimedLap(r, 0), NEW dt \in Nat
    PROVE  TimedLap(r, dt)
<1>1. r.age + 0 = r.age /\ r.age \in Int
  BY DEF TimedLap
<1>2. r.running = TRUE => Ordered(r.splits, GateList(r.gates), r.age + dt)
  BY <1>1, LaterOrdered DEF TimedLap
<1>. QED BY <1>2 DEF TimedLap

\* A sector gate, hit or not.
LEMMA TestSectorTiming ==
    ASSUME NEW r0, TimedLap(r0, 0), r0.line # NoLine, NEW d \in Samples
    PROVE  TimedLap(TestSector(r0, d), d.dt)
<1>1. /\ d.sectorAt \in Nat /\ d.dt \in Nat /\ d.sectorAt <= d.dt
      /\ d.sector \in Directions
  BY SampleAssumption DEF SampleAssumption, Sample
<1>2. CASE ~SectorHit(r0, d)
  <2>1. TestSector(r0, d) = r0
    BY <1>2 DEF TestSector
  <2>. QED BY <1>1, <2>1, NextFixTiming
<1>3. CASE SectorHit(r0, d)
  <2>. DEFINE k == Len(r0.splits) + 1
              dir == [r0.gates.dir EXCEPT ![k] = d.sector]
              q == TestSector(r0, d)
              split == [ms |-> r0.age + d.sectorAt, list |-> GateList(r0.gates)]
  <2>1. q = [r0 EXCEPT !.gates.dir[k] = d.sector, !.splits = Append(@, split)]
    BY <1>3 DEF TestSector
  <2>2. /\ r0.running = TRUE /\ r0.age \in Int /\ r0.age + 0 = r0.age
        /\ Ordered(r0.splits, GateList(r0.gates), r0.age)
    BY <1>3 DEF SectorHit, TimedLap
  <2>3. /\ dir \in Seq(Directions) /\ Len(dir) = Len(r0.gates.dir) /\ dir # << >>
        /\ k <= Len(dir)
    <3>1. Len(r0.splits) \in Nat
      BY <2>2, OrderedAt
    <3>2. k \in Nat \ {0} /\ k <= Len(r0.gates.dir)
      BY <1>3, <3>1 DEF SectorHit
    <3>3. r0.gates.dir \in Seq(Directions)
      BY DEF TimedLap, GateShape
    <3>4. dir \in Seq(Directions) /\ Len(dir) = Len(r0.gates.dir)
      BY <1>1, <3>2, <3>3
    <3>. HIDE DEF dir
    <3>5. Len(dir) # 0 /\ Len(<< >>) = 0
      BY <3>2, <3>3, <3>4
    <3>. QED BY <3>2, <3>4, <3>5
  <2>. HIDE DEF dir, q, split
  <2>4. /\ DOMAIN q = RaceBoxFields /\ q.running = TRUE /\ q.age = r0.age
        /\ q.line = r0.line /\ q.splits = Append(r0.splits, split)
        /\ q.gates = [r0.gates EXCEPT !.dir = dir]
    BY <2>1, <2>2 DEF TimedLap, RaceBoxFields, dir
  <2>5. /\ DOMAIN q.gates = {"base", "from", "dir"} /\ q.gates.dir = dir
        /\ q.gates.base = r0.gates.base /\ q.gates.from = r0.gates.from
    BY <2>4 DEF TimedLap, GateShape
  <2>6. GateShape(q.gates) /\ GateList(q.gates) = GateList(r0.gates)
    BY <2>3, <2>5 DEF GateShape, GateList
  <2>7. Ordered(q.splits, GateList(r0.gates), q.age + d.dt) /\ Len(q.splits) = k
    BY <1>1, <2>2, <2>4, AppendOrdered DEF split
  <2>. QED BY <2>2, <2>3, <2>4, <2>5, <2>6, <2>7 DEF TimedLap, q
<1>. QED BY <1>2, <1>3

LEMMA DerivedList ==
    ASSUME NEW d \in Samples PROVE d.derived \in Seq(Directions)
<1>1. d.derived \in {<< >>} \cup [1..kSectorCount - 1 -> Directions]
  BY SampleAssumption DEF SampleAssumption, Sample
<1>2. PICK n \in Nat : n = kSectorCount - 1
  BY RaceBoxAssumption DEF RaceBoxAssumption
<1>3. \A x \in [1..n -> Directions] : x \in Seq(Directions)
  OBVIOUS
<1>4. << >> \in Seq(Directions)
  OBVIOUS
<1>. QED BY <1>1, <1>2, <1>3, <1>4

\* A lap reported with sectors has them from the splits of one list of gates.
LEMMA LapOfOneList ==
    ASSUME NEW r, NEW slack \in Int, TimedLap(r, slack), r.running = TRUE, NEW d \in Samples,
           NEW ms \in Int
    PROVE  Reported(LapCompleted(r, DeriveSectorGates(r, d), ms))
<1>. DEFINE gates == DeriveSectorGates(r, d)
            lap == LapCompleted(r, gates, ms)
            n == Len(r.splits)
<1>1. /\ DOMAIN lap = {"number", "ms", "sectors", "gates", "timedAt"} /\ lap.ms = ms
      /\ lap.sectors = SectorTimes(r.splits, gates, ms) /\ lap.gates = GateList(gates)
      /\ lap.timedAt = [s \in DOMAIN r.splits |-> r.splits[s].list]
  BY DEF LapCompleted
<1>2. Ordered(r.splits, GateList(r.gates), r.age + slack) /\ r.age + slack \in Int
  BY DEF TimedLap
<1>. HIDE DEF lap, gates
<1>3. ASSUME lap.sectors # << >>
      PROVE  /\ lap.timedAt = [s \in 1..lap.gates.count |-> lap.gates]
             /\ Len(lap.sectors) = lap.gates.count + 1
             /\ Total(lap.sectors) = lap.ms
             /\ \A s \in 1..lap.gates.count : lap.sectors[s] >= 0
  <2>1. /\ lap.sectors = SectorTimesOf(r.splits, ms)
        /\ gates.dir # << >> /\ n = Len(gates.dir)
    BY <1>1, <1>3 DEF SectorTimes
  <2>2. gates = r.gates
    <3>1. SUFFICES ASSUME r.gates.dir = << >>, gates.dir = d.derived PROVE FALSE
      BY DEF DeriveSectorGates, gates
    <3>2. n \in Nat /\ n <= Len(<< >>)
      BY <1>2, <3>1, OrderedAt DEF TimedLap
    <3>3. Len(gates.dir) = 0 /\ Len(<< >>) = 0
      BY <2>1, <3>2
    <3>. QED BY <2>1, <3>1, <3>3, DerivedList
  <2>3. lap.gates = GateList(r.gates) /\ lap.gates.count = n
    BY <1>1, <2>1, <2>2 DEF GateList
  <2>4. DOMAIN r.splits = 1..n /\ \A s \in 1..n : r.splits[s].list = GateList(r.gates)
    BY <1>2, OrderedAt
  <2>5. lap.timedAt = [s \in 1..n |-> GateList(r.gates)]
    BY <1>1, <2>4
  <2>. QED BY <1>1, <1>2, <2>1, <2>3, <2>5, SectorsAddUp
<1>4. SplitLap(lap)
  BY <1>3 DEF SplitLap
<1>5. Reported(lap)
  BY <1>1, <1>4 DEF Reported
<1>. QED BY <1>5 DEF lap, gates

\* updateLapTiming(), every return of it, and the lap it reports.
LEMMA UpdateTiming ==
    ASSUME NEW r0, TimedLap(r0, 0), NEW d \in Samples
    PROVE  LET u == UpdateLapTiming(r0, d)
           IN  /\ TimedLap(u.rb, d.dt) /\ Reported(u.lap)
               /\ DOMAIN u = {"rb", "lap", "learned"}
<1>. DEFINE r == TestSector(r0, d)
            latched == [r EXCEPT !.crossDir = d.cross]
            lapMs == r.age + d.at
            gates == DeriveSectorGates(r, d)
            closed == [latched EXCEPT
                !.gates = gates,
                !.bestMs = IF @ = 0 \/ lapMs < @ THEN lapMs ELSE @]
            u == UpdateLapTiming(r0, d)
            lap == LapCompleted(r, gates, lapMs)
<1>2. /\ d.at \in Nat /\ d.dt \in Nat /\ d.at <= d.dt
      /\ d.derived \in {<< >>} \cup [1..kSectorCount - 1 -> Directions]
  BY SampleAssumption DEF SampleAssumption, Sample
<1>3. TimedLap(r0, d.dt)
  BY <1>2, NextFixTiming
<1>4. DOMAIN u = {"rb", "lap", "learned"}
  BY DEF UpdateLapTiming
<1>5. CASE ~Timed(r0, d)
  <2>1. u.rb = r0 /\ u.lap = NoLap
    BY <1>5 DEF UpdateLapTiming
  <2>. HIDE DEF u
  <2>. QED BY <1>3, <1>4, <2>1 DEF Reported, u
<1>6. CASE Timed(r0, d)
  <2>1. TimedLap(r, d.dt)
    BY <1>6, TestSectorTiming DEF Timed
  <2>2. \/ u.rb \in {r, latched, StartLap(latched, d)} /\ u.lap = NoLap
        \/ /\ r.running = TRUE
           /\ u.rb = StartLap(closed, d) /\ u.lap = lap
    <3>. HIDE DEF r, gates, lap
    <3>. QED BY <1>6, <2>1 DEF UpdateLapTiming, TimedLap, r, gates, lap
  <2>. HIDE DEF r, u
  <2>3. GateShape(gates)
    <3>1. GateShape(r.gates)
      BY <2>1 DEF TimedLap
    <3>. DEFINE derived == [base |-> r.line, from |-> r.from, dir |-> d.derived]
    <3>2. gates = r.gates \/ (d.derived # << >> /\ gates = derived)
      BY DEF DeriveSectorGates
    <3>3. d.derived # << >> => GateShape(derived)
      BY DerivedList DEF GateShape
    <3>. HIDE DEF gates, derived
    <3>. QED BY <3>1, <3>2, <3>3
  <2>4. lap = LapCompleted(r, DeriveSectorGates(r, d), lapMs)
    OBVIOUS
  <2>. HIDE DEF gates, lap
  <2>5. -d.at + d.dt >= 0 /\ -d.at \in Int /\ r.age \in Int /\ lapMs \in Int
    BY <1>2, <2>1 DEF TimedLap
  <2>6. TimedLap(latched, d.dt)
    BY <2>1 DEF TimedLap, RaceBoxFields
  <2>7. TimedLap(StartLap(latched, d), d.dt)
    <3>. DEFINE q == StartLap(latched, d)
    <3>1. /\ DOMAIN q = RaceBoxFields /\ q.running = TRUE /\ q.age = -d.at
          /\ q.gates = r.gates /\ q.splits = << >>
      BY <2>1 DEF TimedLap, StartLap, RaceBoxFields
    <3>2. GateShape(r.gates)
      BY <2>1 DEF TimedLap
    <3>. HIDE DEF q
    <3>3. /\ q.running \in BOOLEAN /\ q.age \in Int /\ d.dt \in Int
          /\ GateShape(q.gates) /\ (q.running = TRUE => q.age + d.dt >= 0)
      <4>1. q.running \in BOOLEAN
        BY <3>1
      <4>2. GateShape(q.gates)
        BY <3>1, <3>2
      <4>3. q.age \in Int /\ d.dt \in Int /\ q.age + d.dt >= 0
        BY <1>2, <2>5, <3>1
      <4>. QED BY <4>1, <4>2, <4>3
    <3>4. TimedLap(q, d.dt)
      BY <3>1, <3>3, NoSplitsTimed
    <3>. QED BY <3>4 DEF q
  <2>8. TimedLap(StartLap(closed, d), d.dt)
    <3>. DEFINE q == StartLap(closed, d)
    <3>1. /\ DOMAIN q = RaceBoxFields /\ q.running = TRUE /\ q.age = -d.at
          /\ q.gates = gates /\ q.splits = << >>
      BY <2>1 DEF TimedLap, StartLap, RaceBoxFields
    <3>. HIDE DEF q
    <3>2. /\ q.running \in BOOLEAN /\ q.age \in Int /\ d.dt \in Int
          /\ GateShape(q.gates) /\ (q.running = TRUE => q.age + d.dt >= 0)
      <4>1. q.running \in BOOLEAN
        BY <3>1
      <4>2. GateShape(q.gates)
        BY <2>3, <3>1
      <4>3. q.age \in Int /\ d.dt \in Int /\ q.age + d.dt >= 0
        BY <1>2, <2>5, <3>1
      <4>. QED BY <4>1, <4>2, <4>3
    <3>3. TimedLap(q, d.dt)
      BY <3>1, <3>2, NoSplitsTimed
    <3>. QED BY <3>3 DEF q
  <2>. HIDE DEF lapMs, closed, latched
  <2>9. ASSUME r.running = TRUE PROVE Reported(lap)
    <3>1. d.dt \in Int
      BY <1>2
    <3>. QED BY <2>1, <2>4, <2>5, <2>9, <3>1, LapOfOneList
  <2>. QED BY <1>4, <2>1, <2>2, <2>6, <2>7, <2>8, <2>9 DEF Reported, u
<1>. QED BY <1>5, <1>6

\* onData(), the whole of it.
LEMMA DataTiming ==
    ASSUME NEW r, TimedLap(r, 0), NEW d \in Samples
    PROVE  LET t == OnData(r, d) IN TimedLap(t.rb, 0) /\ Reported(t.lap)
<1>. DEFINE seen == TakeStatus(r, d)
<1>1. TimedLap(seen, 0) /\ seen.running = r.running
  BY DEF TimedLap, TakeStatus, RaceBoxFields
<1>2. d.dt \in Nat /\ d.fix \in BOOLEAN
  BY SampleAssumption DEF SampleAssumption, Sample
<1>. HIDE DEF seen
<1>3. CASE d.fix
  <2>. DEFINE headed == [seen EXCEPT !.anchor = TRUE,
                             !.heading = IF seen.anchor /\ d.moved THEN "fresh" ELSE @]
              timed == IF seen.prevFix THEN UpdateLapTiming(headed, d)
                       ELSE [rb |-> headed, lap |-> NoLap, learned |-> FALSE]
              q == [timed.rb EXCEPT
                      !.prevFix = TRUE,
                      !.age = IF timed.rb.running THEN @ + d.dt ELSE 0,
                      !.dirty = IF timed.rb.running THEN @ \cup {"other"} ELSE @]
              t == TakeFix(seen, d)
  <2>1. OnData(r, d) = t
    BY <1>3 DEF OnData, seen
  <2>2. TimedLap(headed, 0)
    BY <1>1 DEF TimedLap, RaceBoxFields
  <2>. HIDE DEF headed
  <2>3. /\ TimedLap(timed.rb, d.dt) /\ Reported(timed.lap)
        /\ DOMAIN timed = {"rb", "lap", "learned"}
    <3>1. CASE seen.prevFix
      <4>1. timed = UpdateLapTiming(headed, d)
        BY <3>1
      <4>. HIDE DEF timed
      <4>. QED BY <2>2, <4>1, UpdateTiming
    <3>2. CASE ~seen.prevFix
      <4>1. timed = [rb |-> headed, lap |-> NoLap, learned |-> FALSE]
        BY <3>2
      <4>2. TimedLap(headed, d.dt)
        BY <1>2, <2>2, NextFixTiming
      <4>. HIDE DEF timed
      <4>. QED BY <4>1, <4>2 DEF Reported
    <3>. QED BY <3>1, <3>2
  <2>4. t = [timed EXCEPT !.rb.prevFix = TRUE,
                 !.rb.age = IF timed.rb.running THEN @ + d.dt ELSE 0,
                 !.rb.dirty = IF timed.rb.running THEN @ \cup {"other"} ELSE @]
    BY DEF TakeFix, headed
  <2>. HIDE DEF timed, t
  <2>5. t.rb = q /\ t.lap = timed.lap
    BY <2>3, <2>4 DEF TimedLap, RaceBoxFields
  <2>6. /\ DOMAIN q = RaceBoxFields /\ q.running = timed.rb.running
        /\ q.gates = timed.rb.gates /\ q.splits = timed.rb.splits
        /\ q.line = timed.rb.line
        /\ q.age = IF timed.rb.running THEN timed.rb.age + d.dt ELSE 0
    BY <2>3 DEF TimedLap, RaceBoxFields
  <2>. HIDE DEF q
  <2>7. TimedLap(q, 0)
    <3>1. q.age \in Int /\ q.age + 0 = q.age
      BY <1>2, <2>3, <2>6 DEF TimedLap
    <3>. QED BY <2>3, <2>6, <3>1 DEF TimedLap
  <2>. QED BY <2>1, <2>3, <2>5, <2>7
<1>4. CASE ~d.fix
  <2>. DEFINE q == [seen EXCEPT !.dirty = IF r.running THEN @ \cup {"other"} ELSE @]
  <2>1. OnData(r, d).rb = q /\ OnData(r, d).lap = NoLap
    BY <1>4 DEF OnData, seen
  <2>2. TimedLap(q, 0)
    BY <1>1 DEF TimedLap, RaceBoxFields
  <2>. HIDE DEF q
  <2>. QED BY <2>1, <2>2 DEF Reported
<1>. QED BY <1>2, <1>3, <1>4

----------------------------------------------------------------------------
(* The types of the track model and of what it saves. *)

\* Writes the program may make of tracks-user.json.
Saves(writes) == \E U : writes \in Seq(U) /\ \A f \in U : UserState(f)

TypedTrack(t) ==
    /\ DOMAIN t = TrackFields /\ Saves(t.writes)
    /\ t.active \in Slots /\ t.slot \in Slots /\ t.suggested \in Slots
    /\ t.favorites \subseteq Tracks /\ DOMAIN t.db \subseteq Tracks
    /\ DOMAIN t.lines = Slots /\ DOMAIN t.gates = Slots
    /\ \A s \in Slots : GateShape(t.gates[s])

LEMMA SavedTyped ==
    ASSUME NEW t, TypedTrack(t)
    PROVE  UserState(Persisted(t))
BY DEF TypedTrack, UserState, Persisted, GateShape

LEMMA NoneSaves == Saves(<< >>)
<1>1. PICK U : U = {}
  OBVIOUS
<1>2. << >> \in Seq(U)
  OBVIOUS
<1>3. \A f \in U : UserState(f)
  BY <1>1
<1>. QED BY <1>2, <1>3 DEF Saves

LEMMA PersistTyped ==
    ASSUME NEW t, TypedTrack(t)
    PROVE  TypedTrack(PersistUserState(t)) /\ PersistUserState(t).active = t.active
<1>1. PICK U : t.writes \in Seq(U) /\ \A f \in U : UserState(f)
  BY DEF TypedTrack, Saves
<1>. DEFINE f0 == Persisted(t)
            V == U \cup {f0}
            longer == Append(t.writes, f0)
<1>2. \A f \in V : UserState(f)
  BY <1>1, SavedTyped
<1>3. U \subseteq V /\ f0 \in V
  OBVIOUS
<1>. HIDE DEF V, f0
<1>4. t.writes \in Seq(V)
  BY <1>1, <1>3, WiderSeq
<1>5. longer \in Seq(V)
  <2>. DEFINE x == t.writes
  <2>1. x \in Seq(V)
    BY <1>4
  <2>. HIDE DEF x
  <2>2. Append(x, f0) \in Seq(V)
    BY <1>3, <2>1
  <2>. QED BY <2>2 DEF x
<1>6. Saves(longer)
  BY <1>2, <1>5 DEF Saves
<1>7. PersistUserState(t) = [t EXCEPT !.writes = longer]
  BY DEF PersistUserState, f0
<1>. HIDE DEF longer
<1>. QED BY <1>6, <1>7 DEF TypedTrack, TrackFields

\* What a handler leaves when its writes are done, and the file they leave.
LEMMA HandledTyped ==
    ASSUME NEW h, TypedTrack(h), TrackHandled(h),
           UserState(userFile) \/ (userFile = TornFile /\ DiskFaults)
    PROVE  /\ TypedTrack(tm')
           /\ UserState(userFile') \/ (userFile' = TornFile /\ DiskFaults)
<1>1. TypedTrack(tm')
  BY NoneSaves DEF TrackHandled, TypedTrack, TrackFields
<1>2. PICK U : h.writes \in Seq(U) /\ \A f \in U : UserState(f)
  BY DEF TypedTrack, Saves
<1>. DEFINE w == h.writes
<1>3. UserStateWritten(w)
  BY DEF TrackHandled
<1>. HIDE DEF w
<1>4. w \in Seq(U)
  BY <1>2 DEF w
<1>5. ASSUME w # << >> PROVE Last(w) \in U /\ \A f \in Range(Front(w)) : f \in U
  <2>1. Len(w) \in Nat \ {0} /\ \A i \in 1..Len(w) : w[i] \in U
    BY <1>4, <1>5
  <2>2. Last(w) \in U
    BY <2>1 DEF Last
  <2>3. Front(w) \in Seq(U)
    <3>1. Front(w) = SubSeq(w, 1, Len(w) - 1)
      BY DEF Front
    <3>. QED BY <1>4, <2>1, <3>1
  <2>. DEFINE v == Front(w)
  <2>. HIDE DEF v
  <2>4. \A i \in DOMAIN v : v[i] \in U
    BY <2>3 DEF v
  <2>5. \A f \in Range(v) : f \in U
    BY <2>4 DEF Range
  <2>. QED BY <2>2, <2>5 DEF v
<1>6. CASE w = << >> /\ UNCHANGED <<userFile, lost>>
  BY <1>1, <1>6
<1>7. CASE w # << >> /\ userFile' = Last(w)
  BY <1>1, <1>2, <1>5, <1>7
<1>8. CASE w # << >> /\ DiskFaults /\ userFile' \in {userFile, TornFile} \cup Range(Front(w))
  BY <1>1, <1>2, <1>5, <1>8
<1>. QED BY <1>3, <1>6, <1>7, <1>8 DEF UserStateWritten, WriteFailed

LEMMA LoadedTyped ==
    ASSUME NEW f, f = TornFile \/ UserState(f)
    PROVE  TypedTrack(TrackInit(f))
<1>1. CASE f = TornFile
  <2>1. GateShape(NoGates)
    BY NoGatesShape
  <2>. QED BY <1>1, <2>1, NoneSaves
         DEF TypedTrack, TrackInit, LoadUserState, NoUserState, NoDb, Slots, TrackFields
<1>2. CASE f # TornFile
  <2>1. \A s \in Slots : GateShape(f.gates[s])
    BY <1>2, NoGatesShape DEF UserState, GateShape
  <2>2. f.active \in Slots /\ f.favorites \subseteq Tracks /\ DOMAIN f.lines = Slots
        /\ DOMAIN f.gates = Slots
    BY <1>2 DEF UserState
  <2>. QED BY <1>2, <2>1, <2>2, NoneSaves
         DEF TypedTrack, TrackInit, LoadUserState, NoDb, Slots, TrackFields
<1>. QED BY <1>1, <1>2

LEMMA LatchTyped ==
    ASSUME NEW t, TypedTrack(t), NEW id \in Slots
    PROVE  /\ TypedTrack(LatchSlot(t, id)) /\ TypedTrack(ActiveTrackChanged(t))
           /\ SlotFor(t, id) \in Slots
<1>1. SlotFor(t, id) \in Slots
  BY DEF SlotFor, Slots
<1>2. TypedTrack(LatchSlot(t, id))
  BY <1>1 DEF LatchSlot, TypedTrack, TrackFields
<1>3. TypedTrack(ActiveTrackChanged(t))
  BY DEF ActiveTrackChanged, TypedTrack, TrackFields
<1>. QED BY <1>1, <1>2, <1>3

LEMMA GatesTyped ==
    ASSUME NEW t, TypedTrack(t), NEW g, GateShape(g)
    PROVE  TypedTrack(OnSectorGatesLearned(t, g))
<1>. DEFINE q == [t EXCEPT !.gates[t.slot] = g]
<1>1. TypedTrack(q)
  BY DEF TypedTrack, TrackFields
<1>2. OnSectorGatesLearned(t, g) \in {t, PersistUserState(q)}
  BY DEF OnSectorGatesLearned
<1>. HIDE DEF q
<1>. QED BY <1>1, <1>2, PersistTyped

LEMMA LineTyped ==
    ASSUME NEW t, TypedTrack(t), NEW l
    PROVE  TypedTrack(OnFinishLineLearned(t, l)) /\ TypedTrack(OnFinishLineCleared(t))
<1>1. ASSUME NEW k PROVE TypedTrack(OnFinishLineLearned(t, k))
  <2>. DEFINE put == [t EXCEPT !.lines[t.active] = k]
              latched == [t EXCEPT !.lines[t.active] = k, !.slot = t.active]
  <2>1. TypedTrack(put) /\ TypedTrack(latched)
    BY DEF TypedTrack, TrackFields
  <2>2. \/ OnFinishLineLearned(t, k) = t
        \/ OnFinishLineLearned(t, k) = ActiveTrackChanged(PersistUserState(latched))
        \/ OnFinishLineLearned(t, k) = ActiveTrackChanged(PersistUserState(put))
    BY DEF OnFinishLineLearned
  <2>. HIDE DEF put, latched
  <2>3. NoTrack \in Slots
    BY DEF Slots
  <2>4. TypedTrack(PersistUserState(put)) /\ TypedTrack(PersistUserState(latched))
    BY <2>1, PersistTyped
  <2>. QED BY <2>2, <2>3, <2>4, LatchTyped
<1>2. TypedTrack(OnFinishLineCleared(t))
  BY <1>1, NoGatesShape, GatesTyped DEF OnFinishLineCleared
<1>. QED BY <1>1, <1>2

LEMMA ActiveTyped ==
    ASSUME NEW t, TypedTrack(t), NEW id \in Slots
    PROVE  TypedTrack(SetActiveTrack(t, id)) /\ SetActiveTrack(t, id).active = id
<1>. DEFINE p == [t EXCEPT !.active = id, !.slot = id]
            q == PersistUserState(p)
<1>1. TypedTrack(p) /\ p.active = id
  BY DEF TypedTrack, TrackFields
<1>2. SetActiveTrack(t, id) = ActiveTrackChanged(q)
  BY DEF SetActiveTrack
<1>. HIDE DEF p
<1>3. TypedTrack(q) /\ q.active = id
  BY <1>1, PersistTyped
<1>. HIDE DEF q
<1>4. ActiveTrackChanged(q).active = q.active
  BY <1>3 DEF ActiveTrackChanged, TypedTrack, TrackFields
<1>. QED BY <1>2, <1>3, <1>4, LatchTyped

LEMMA ChosenTyped ==
    ASSUME NEW t, TypedTrack(t), NEW id \in Slots, NEW fix
    PROVE  /\ TypedTrack(SelectTrack(t, id)) /\ SelectTrack(t, id).active = id
           /\ TypedTrack(AcceptSuggestedTrack(t))
           /\ TypedTrack(ClearActiveTrack(t, fix))
           /\ TypedTrack(ToggleFavorite(t, id)) \/ id = NoTrack
<1>1. TypedTrack(SelectTrack(t, id)) /\ SelectTrack(t, id).active = id
  <2>. DEFINE q == [t EXCEPT !.manual = TRUE, !.scanning = FALSE, !.suggested = NoTrack]
  <2>1. TypedTrack(q)
    BY DEF Slots, TypedTrack, TrackFields
  <2>2. SelectTrack(t, id) = SetActiveTrack(q, id)
    BY DEF SelectTrack
  <2>. HIDE DEF q
  <2>. QED BY <2>1, <2>2, ActiveTyped
<1>2. TypedTrack(AcceptSuggestedTrack(t))
  <2>. DEFINE q == [t EXCEPT !.suggested = NoTrack]
  <2>1. TypedTrack(q) /\ t.suggested \in Slots
    BY DEF Slots, TypedTrack, TrackFields
  <2>2. AcceptSuggestedTrack(t) = SetActiveTrack(q, t.suggested)
    BY DEF AcceptSuggestedTrack
  <2>. HIDE DEF q
  <2>. QED BY <2>1, <2>2, ActiveTyped
<1>3. TypedTrack(ClearActiveTrack(t, fix))
  <2>. DEFINE q == [t EXCEPT !.active = NoTrack, !.manual = FALSE, !.scanning = @ \/ fix]
  <2>1. TypedTrack(q)
    BY DEF Slots, TypedTrack, TrackFields
  <2>2. ClearActiveTrack(t, fix) = ActiveTrackChanged(PersistUserState(q))
    BY DEF ClearActiveTrack
  <2>. HIDE DEF q
  <2>3. TypedTrack(PersistUserState(q))
    BY <2>1, PersistTyped
  <2>. QED BY <2>2, <2>3, LatchTyped
<1>4. ASSUME id # NoTrack PROVE TypedTrack(ToggleFavorite(t, id))
  <2>. DEFINE q == [t EXCEPT !.favorites = IF id \in @ THEN @ \ {id} ELSE @ \cup {id}]
  <2>1. TypedTrack(q)
    BY <1>4 DEF Slots, TypedTrack, TrackFields
  <2>2. ToggleFavorite(t, id) = PersistUserState(q)
    BY DEF ToggleFavorite
  <2>. HIDE DEF q
  <2>. QED BY <2>1, <2>2, PersistTyped
<1>. QED BY <1>1, <1>2, <1>3, <1>4

LEMMA DatabaseTyped ==
    ASSUME NEW t, TypedTrack(t), NEW db, DOMAIN db \subseteq Tracks
    PROVE  /\ TypedTrack(LoadDatabase(t, db))
           /\ TypedTrack(RefreshDatabase(t))
           /\ TypedTrack(TakeDatabase(t, db))
           /\ TypedTrack(RefreshFailed(t))
<1>1. TypedTrack(LoadDatabase(t, db))
  <2>. DEFINE q == [t EXCEPT !.loaded = TRUE,
                             !.db = IF db = NoDb THEN Bundled ELSE db]
  <2>1. TypedTrack(q) /\ t.active \in Slots
    BY TrackAssumption DEF TypedTrack, TrackFields, TrackAssumption
  <2>2. LoadDatabase(t, db) = ActiveTrackChanged(LatchSlot(q, t.active))
    BY DEF LoadDatabase
  <2>. HIDE DEF q
  <2>. QED BY <2>1, <2>2, LatchTyped
<1>2. /\ TypedTrack(RefreshDatabase(t)) /\ TypedTrack(TakeDatabase(t, db))
      /\ TypedTrack(RefreshFailed(t))
  BY DEF TypedTrack, TrackFields, RefreshDatabase, TakeDatabase, RefreshFailed
<1>. QED BY <1>1, <1>2

\* A line applied brings the gates of its slot.
LEMMA ApplyTiming ==
    ASSUME NEW r, TimedLap(r, 0), NEW t, TypedTrack(t), NEW id \in Slots
    PROVE  TimedLap(ApplyLine(r, t, id), 0)
<1>. DEFINE f == FinishLineFor(t, id)
            g == t.gates[SlotFor(t, id)]
            q == SetFinishLine(r, f)
<1>1. GateShape(g)
  BY LatchTyped DEF TypedTrack
<1>2. ApplyLine(r, t, id) \in {r, SetSectorGates(q, g)}
  BY DEF ApplyLine
<1>. HIDE DEF g, f
<1>3. TimedLap(q, 0)
  BY <1>1, LineKeepsTiming
<1>. HIDE DEF q
<1>4. TimedLap(SetSectorGates(q, g), 0)
  BY <1>1, <1>3, LineKeepsTiming
<1>. QED BY <1>2, <1>4

SplitsInv ==
    /\ TimedLap(rb, 0) /\ TypedTrack(tm)
    /\ UserState(userFile) \/ (userFile = TornFile /\ DiskFaults)
    /\ DOMAIN dbFile \subseteq Tracks
    /\ \A i \in DOMAIN se.laps : SplitLap(se.laps[i])

LEMMA StartedTyped ==
    ASSUME NEW user, NEW sessions, user = TornFile \/ UserState(user)
    PROVE  LET s == Started(user, sessions)
           IN  TimedLap(s.rb, 0) /\ TypedTrack(s.tm) /\ s.se.laps = << >>
<1>. DEFINE fresh == TrackInit(user)
            q == ApplyLine(RaceBoxInit, fresh, fresh.active)
            t == LatchSlot(fresh, fresh.active)
<1>1. TypedTrack(fresh) /\ fresh.active \in Slots
  BY LoadedTyped DEF TypedTrack
<1>2. TimedLap(RaceBoxInit, 0)
  <2>1. Len(<< >>) = 0
    OBVIOUS
  <2>. QED BY <2>1, NoGatesShape DEF TimedLap, RaceBoxInit, RaceBoxFields
<1>3. /\ Started(user, sessions).rb = q /\ Started(user, sessions).tm = t
      /\ Started(user, sessions).se.laps = << >>
  BY DEF Started, SessionInit
<1>. HIDE DEF fresh
<1>4. TimedLap(q, 0) /\ TypedTrack(t)
  BY <1>1, <1>2, ApplyTiming, LatchTyped
<1>. HIDE DEF q, t
<1>. QED BY <1>3, <1>4

\* A lap reported is filed with its splits.
LEMMA FiledSplits ==
    ASSUME NEW s, DOMAIN s = SessionFields, \E T : s.laps \in Seq(T),
           \A i \in DOMAIN s.laps : SplitLap(s.laps[i]), NEW lap, Reported(lap)
    PROVE  \A i \in DOMAIN OnLapCompleted(s, lap).laps : SplitLap(OnLapCompleted(s, lap).laps[i])
<1>1. CASE lap = NoLap
  BY <1>1 DEF OnLapCompleted, NoLap
<1>2. CASE lap # NoLap
  <2>. DEFINE n == NumberedLap(s, lap)
  <2>1. SplitLap(n)
    <3>1. /\ n.sectors = lap.sectors /\ n.ms = lap.ms
          /\ n.gates = lap.gates /\ n.timedAt = lap.timedAt
      BY <1>2 DEF Reported, NumberedLap
    <3>2. SplitLap(lap)
      BY <1>2 DEF Reported
    <3>. HIDE DEF n
    <3>. QED BY <3>1, <3>2 DEF SplitLap
  <2>. HIDE DEF n
  <2>2. OnLapCompleted(s, lap).laps \in {s.laps, Append(s.laps, n)}
    BY DEF OnLapCompleted, UpdateCanSave, SessionFields, n
  <2>3. PICK T : s.laps \in Seq(T)
    OBVIOUS
  <2>4. \A i \in DOMAIN Append(s.laps, n) : SplitLap(Append(s.laps, n)[i])
    <3>. DEFINE longer == Append(s.laps, n)
    <3>1. s.laps \in Seq(T \cup {n}) /\ n \in T \cup {n}
      BY <2>3
    <3>2. /\ DOMAIN longer = 1..Len(s.laps) + 1 /\ longer[Len(s.laps) + 1] = n
          /\ \A i \in 1..Len(s.laps) : longer[i] = s.laps[i]
          /\ DOMAIN s.laps = 1..Len(s.laps) /\ Len(s.laps) \in Nat
      BY <3>1
    <3>. HIDE DEF longer
    <3>3. \A i \in DOMAIN longer : i = Len(s.laps) + 1 \/ i \in DOMAIN s.laps
      BY <3>2
    <3>4. \A i \in DOMAIN longer : SplitLap(longer[i])
      BY <2>1, <3>2, <3>3
    <3>. QED BY <3>4 DEF longer
  <2>. QED BY <2>2, <2>4
<1>. QED BY <1>1, <1>2

LEMMA SplitsStep ==
    ASSUME SplitsInv, CountInv, Next
    PROVE  SplitsInv'
<1>0. /\ TimedLap(rb, 0) /\ TypedTrack(tm)
      /\ DOMAIN se = SessionFields /\ \E T : se.laps \in Seq(T)
      /\ NoTrack \in Slots /\ Tracks \subseteq Slots /\ tm.active \in Slots
      /\ DOMAIN tm.db \subseteq Tracks
  BY DEF SplitsInv, CountInv, Agree, Slots, TypedTrack
<1>. DEFINE Files == /\ UserState(userFile') \/ (userFile' = TornFile /\ DiskFaults)
                     /\ DOMAIN dbFile' \subseteq Tracks
            Laps == \A i \in DOMAIN se'.laps : SplitLap(se'.laps[i])
<1>1. ASSUME NEW h, TypedTrack(h), TrackHandled(h), dbFile' = dbFile
      PROVE  TypedTrack(tm') /\ Files
  BY <1>1, HandledTyped DEF SplitsInv
<1>2. ASSUME UNCHANGED <<userFile, dbFile>> PROVE Files
  BY <1>2 DEF SplitsInv
<1>3. ASSUME se'.laps = se.laps \/ se'.laps = << >> PROVE Laps
  <2>1. DOMAIN << >> = {}
    OBVIOUS
  <2>. QED BY <1>3, <2>1 DEF SplitsInv
<1>4. ASSUME TimedLap(rb', 0), TypedTrack(tm'), Files, Laps PROVE SplitsInv'
  BY <1>4 DEF SplitsInv
<1>. HIDE DEF Files, Laps
<1>5. ASSUME NEW d \in Samples, Data(d) PROVE SplitsInv'
  <2>. DEFINE seen == TakeStatus(rb, d)
              done == OnData(rb, d)
              noticed == IF d.speed = rb.speed THEN tm ELSE OnSpeedKmhChanged(tm, seen)
              h == IF done.learned THEN OnSectorGatesLearned(noticed, done.rb.gates)
                   ELSE noticed
  <2>1. /\ rb' = done.rb /\ se' = OnLapCompleted(se, done.lap)
        /\ TrackHandled(h) /\ dbFile' = dbFile
    BY <1>5 DEF Data
  <2>2. TimedLap(done.rb, 0) /\ Reported(done.lap)
    BY <1>0, DataTiming
  <2>. HIDE DEF done, seen
  <2>3. TypedTrack(noticed)
    BY <1>0 DEF OnSpeedKmhChanged, TypedTrack, TrackFields, Slots
  <2>. HIDE DEF noticed
  <2>4. TypedTrack(h)
    BY <2>2, <2>3, GatesTyped DEF TimedLap
  <2>. HIDE DEF h
  <2>5. TypedTrack(tm') /\ Files
    BY <1>1, <2>1, <2>4
  <2>6. Laps
    BY <1>0, <2>1, <2>2, FiledSplits DEF SplitsInv, Laps
  <2>. QED BY <1>4, <2>1, <2>2, <2>5, <2>6
<1>6. ASSUME NEW c, Connection(c) PROVE SplitsInv'
  BY <1>0, <1>2, <1>3, <1>4, <1>6, OthersKeepTiming DEF Connection, files
<1>7. CASE HeadingStale
  BY <1>0, <1>2, <1>3, <1>4, <1>7, OthersKeepTiming DEF HeadingStale, files
<1>8. CASE NotifyTick
  <2>1. /\ rb' = EmitNotifications(rb) /\ tm' \in {tm, OnHasFixChanged(tm, rb.hasFix)}
        /\ UNCHANGED <<userFile, dbFile>> /\ se' = se
    BY <1>8 DEF NotifyTick, files
  <2>2. TypedTrack(OnHasFixChanged(tm, rb.hasFix))
    BY <1>0 DEF OnHasFixChanged, TypedTrack, TrackFields
  <2>. QED BY <1>0, <1>2, <1>3, <1>4, <2>1, <2>2, OthersKeepTiming
<1>9. CASE CanTick
  BY <1>0, <1>2, <1>3, <1>4, <1>9
  DEF CanTick, OnSpeedChanged, UpdateCanSave, SessionFields, files
<1>10. ASSUME NEW kmh, CanMoves(kmh) PROVE SplitsInv'
  BY <1>0, <1>2, <1>3, <1>4, <1>10 DEF CanMoves, CanSpeed, SessionFields, files
<1>11. ASSUME NEW n \in Slots, Scan(n) PROVE SplitsInv'
  <2>1. /\ tm' = ScanNearestTrack(tm, rb.speed, n) /\ rb' = rb /\ se' = se
        /\ UNCHANGED <<userFile, dbFile>>
    BY <1>11 DEF Scan, files
  <2>2. TypedTrack(tm')
    BY <1>0, <2>1 DEF ScanNearestTrack, TypedTrack, TrackFields
  <2>. QED BY <1>0, <1>2, <1>3, <1>4, <2>1, <2>2
<1>12. CASE LearnLine
  <2>. DEFINE relined == OnFinishLineLearned(tm, learned')
              h == OnSectorGatesLearned(relined, NoGates)
  <2>1. /\ rb' = LearnFinishLineHere(rb, learned') /\ rb.line = NoLine /\ se' = se
        /\ TrackHandled(h) /\ dbFile' = dbFile
    BY <1>12 DEF LearnLine
  <2>2. TypedTrack(relined)
    BY <1>0, LineTyped
  <2>. HIDE DEF relined
  <2>3. TypedTrack(h)
    BY <2>2, NoGatesShape, GatesTyped
  <2>. HIDE DEF h
  <2>4. TimedLap(rb', 0)
    BY <1>0, <2>1, NoGatesShape, LineKeepsTiming
  <2>. QED BY <1>1, <1>3, <1>4, <2>1, <2>3, <2>4
<1>13. CASE ResetLine
  <2>1. /\ rb' = ClearFinishLine(rb) /\ se' = se
        /\ TrackHandled(OnFinishLineCleared(tm)) /\ dbFile' = dbFile
    BY <1>13 DEF ResetLine
  <2>2. TypedTrack(OnFinishLineCleared(tm))
    BY <1>0, LineTyped
  <2>3. TimedLap(rb', 0)
    BY <1>0, <2>1, NoGatesShape, LineKeepsTiming
  <2>. QED BY <1>1, <1>3, <1>4, <2>1, <2>2, <2>3
<1>14. CASE Accept
  <2>. DEFINE active == AcceptSuggestedTrack(tm)
              h == LatchSlot(active, active.active)
  <2>1. /\ rb' = ApplyLine(rb, active, active.active) /\ se' = se
        /\ TrackHandled(h) /\ dbFile' = dbFile
    BY <1>14 DEF Accept
  <2>2. TypedTrack(active) /\ active.active \in Slots
    BY <1>0, ChosenTyped DEF TypedTrack
  <2>. HIDE DEF active
  <2>3. TypedTrack(h) /\ TimedLap(rb', 0)
    BY <1>0, <2>1, <2>2, LatchTyped, ApplyTiming
  <2>. HIDE DEF h
  <2>. QED BY <1>1, <1>3, <1>4, <2>1, <2>3
<1>15. CASE Dismiss
  <2>1. /\ tm' = DismissSuggestedTrack(tm, rb.hasFix) /\ rb' = rb /\ se' = se
        /\ UNCHANGED <<userFile, dbFile>>
    BY <1>15 DEF Dismiss, files
  <2>2. TypedTrack(tm')
    BY <1>0, <2>1 DEF DismissSuggestedTrack, TypedTrack, TrackFields
  <2>. QED BY <1>0, <1>2, <1>3, <1>4, <2>1, <2>2
<1>16. CASE Deselect
  <2>1. /\ TrackHandled(ClearActiveTrack(tm, rb.hasFix)) /\ rb' = rb /\ se' = se
        /\ dbFile' = dbFile
    BY <1>16 DEF Deselect
  <2>2. TypedTrack(ClearActiveTrack(tm, rb.hasFix))
    BY <1>0, ChosenTyped
  <2>. QED BY <1>0, <1>1, <1>3, <1>4, <2>1, <2>2
<1>17. ASSUME NEW id \in Tracks, Select(id) PROVE SplitsInv'
  <2>. DEFINE active == SelectTrack(tm, id)
  <2>1. /\ \/ rb' = ApplyLine(rb, active, id) /\ TrackHandled(LatchSlot(active, id))
           \/ rb' = ClearFinishLine(rb) /\ TrackHandled(OnFinishLineCleared(active))
        /\ se' = se /\ dbFile' = dbFile
    BY <1>17 DEF Select
  <2>2. TypedTrack(active) /\ id \in Slots
    BY <1>0, ChosenTyped
  <2>. HIDE DEF active
  <2>3. TypedTrack(LatchSlot(active, id)) /\ TypedTrack(OnFinishLineCleared(active))
    BY <2>2, LatchTyped, LineTyped
  <2>4. TimedLap(ApplyLine(rb, active, id), 0) /\ TimedLap(ClearFinishLine(rb), 0)
    BY <1>0, <2>2, NoGatesShape, LineKeepsTiming, ApplyTiming
  <2>. QED BY <1>1, <1>3, <1>4, <2>1, <2>3, <2>4
<1>18. ASSUME NEW id \in Tracks, Favorite(id) PROVE SplitsInv'
  <2>1. /\ TrackHandled(ToggleFavorite(tm, id)) /\ rb' = rb /\ se' = se
        /\ dbFile' = dbFile
    BY <1>18 DEF Favorite
  <2>2. TypedTrack(ToggleFavorite(tm, id))
    BY <1>0, ChosenTyped, TrackAssumption DEF TrackAssumption
  <2>. QED BY <1>0, <1>1, <1>3, <1>4, <2>1, <2>2
<1>19. ASSUME NEW stamp, SaveSession(stamp) PROVE SplitsInv'
  <2>1. /\ rb' = ResetLapState(rb) /\ tm' = tm /\ UNCHANGED <<userFile, dbFile>>
        /\ se' = SaveCurrentSession(se, stamp, tm.active)
    BY <1>19 DEF SaveSession, ResetLapCounters
  <2>2. se'.laps = << >>
    BY <1>0, <2>1 DEF SaveCurrentSession, UpdateCanSave, SessionFields
  <2>3. TimedLap(rb', 0)
    BY <1>0, <2>1, NoGatesShape, LineKeepsTiming
  <2>. QED BY <1>0, <1>2, <1>3, <1>4, <2>1, <2>2, <2>3
<1>20. ASSUME NEW i, RemoveSession(i) PROVE SplitsInv'
  <2>1. /\ rb' = rb /\ tm' = tm /\ UNCHANGED <<userFile, dbFile>>
        /\ se' = DeleteSession(se, se.sessions[i].stamp)
    BY <1>20 DEF RemoveSession
  <2>2. se'.laps = se.laps
    BY <1>0, <2>1 DEF DeleteSession, SessionFields
  <2>. QED BY <1>0, <1>2, <1>3, <1>4, <2>1, <2>2
<1>21. CASE Restart
  <2>1. /\ rb' = Started(userFile, sessionsFile).rb
        /\ tm' = Started(userFile, sessionsFile).tm
        /\ se' = Started(userFile, sessionsFile).se
        /\ UNCHANGED <<userFile, dbFile>>
    BY <1>21 DEF Restart, files
  <2>2. userFile = TornFile \/ UserState(userFile)
    BY DEF SplitsInv
  <2>3. TimedLap(rb', 0) /\ TypedTrack(tm') /\ se'.laps = << >>
    BY <2>1, <2>2, StartedTyped
  <2>. QED BY <1>2, <1>3, <1>4, <2>1, <2>3
<1>22. CASE DeferredLoad
  <2>1. /\ tm' = LoadDatabase(tm, dbFile) /\ rb' = ApplyLine(rb, tm', tm'.active)
        /\ se' = se /\ UNCHANGED <<userFile, dbFile>>
    BY <1>22 DEF DeferredLoad, files
  <2>2. TypedTrack(tm')
    BY <1>0, <2>1, DatabaseTyped DEF SplitsInv
  <2>3. TimedLap(rb', 0)
    BY <1>0, <2>1, <2>2, ApplyTiming DEF TypedTrack
  <2>. QED BY <1>2, <1>3, <1>4, <2>1, <2>2, <2>3
<1>23. CASE Refresh \/ RefreshFails
  <2>1. /\ tm' = RefreshDatabase(tm) \/ tm' = RefreshFailed(tm)
        /\ rb' = rb /\ se' = se /\ UNCHANGED <<userFile, dbFile>>
    BY <1>23 DEF Refresh, RefreshFails, files
  <2>2. TypedTrack(tm')
    BY <1>0, <2>1, DatabaseTyped
  <2>. QED BY <1>0, <1>2, <1>3, <1>4, <2>1, <2>2
<1>24. ASSUME NEW db \in Databases, RefreshAnswered(db) PROVE SplitsInv'
  <2>1. /\ tm' = TakeDatabase(tm, db) /\ rb' = rb /\ se' = se /\ userFile' = userFile
        /\ dbFile' \in {db, dbFile, NoDb}
    BY <1>24 DEF RefreshAnswered
  <2>2. DOMAIN db \subseteq Tracks /\ DOMAIN NoDb \subseteq Tracks
    BY TrackAssumption DEF TrackAssumption, NoDb
  <2>3. TypedTrack(tm')
    BY <1>0, <2>1, <2>2, DatabaseTyped
  <2>4. Files
    BY <2>1, <2>2 DEF SplitsInv, Files
  <2>. QED BY <1>0, <1>3, <1>4, <2>1, <2>3, <2>4
<1>25. \A n \in (DOMAIN tm.db \ tm.dismissed) \cup {NoTrack} : n \in Slots
  BY <1>0
<1>. QED BY <1>5, <1>6, <1>7, <1>8, <1>9, <1>10, <1>11, <1>12, <1>13, <1>14, <1>15, <1>16,
            <1>17, <1>18, <1>19, <1>20, <1>21, <1>22, <1>23, <1>24, <1>25
         DEF Next, Receiver, Timers, Driver, Server

\* What the session keeps of every lap, of any course and with any faults.
THEOREM LapsAreTyped == Spec => [](SplitsInv /\ CountInv)
<1>1. Init => SplitsInv /\ CountInv
  <2>. SUFFICES ASSUME Init PROVE SplitsInv /\ CountInv
    OBVIOUS
  <2>1. /\ rb = Started(userFile, << >>).rb /\ tm = Started(userFile, << >>).tm
        /\ se = Started(userFile, << >>).se
        /\ UserState(userFile) \/ (userFile = TornFile /\ DiskFaults)
        /\ dbFile = << >>
    BY InitialFilesAssumption DEF Init, InitialFilesAssumption, NoDb
  <2>2. DOMAIN << >> = {}
    OBVIOUS
  <2>3. TimedLap(rb, 0) /\ TypedTrack(tm) /\ se.laps = << >>
    BY <2>1, StartedTyped
  <2>4. CountInv
    BY <2>1, StartedCounts DEF CountInv
  <2>. QED BY <2>1, <2>2, <2>3, <2>4 DEF SplitsInv
<1>2. SplitsInv /\ CountInv /\ [Next]_vars => (SplitsInv /\ CountInv)'
  <2>. SUFFICES ASSUME SplitsInv, CountInv, [Next]_vars PROVE (SplitsInv /\ CountInv)'
    OBVIOUS
  <2>1. CASE Next
    BY <2>1, SplitsStep, CountStep
  <2>2. CASE UNCHANGED vars
    BY <2>2 DEF vars, files, SplitsInv, CountInv
  <2>. QED BY <2>1, <2>2
<1>. QED BY <1>1, <1>2, PTL DEF Spec

\* Every reported lap has its splits from one list of gates, the one it is
\* reported against, in order and adding up (raceboxmodel.cpp:195, 518).
THEOREM SplitsAlwaysOfOneList == Spec => []SplitsOfOneList
<1>1. SplitsInv => SplitsOfOneList
  BY DEF SplitsInv, SplitLap, SplitsOfOneList
<1>. QED BY <1>1, LapsAreTyped, PTL

\* Nothing learned is only in memory: whatever writes failed before, a file whose
\* last write came through holds what the model holds (persistUserState(),
\* persist()), and is read back as it.
THEOREM FilesAlwaysCurrent == Spec => [](UserFileInv /\ FilesAreCurrent)
<1>1. Init => UserFileInv /\ SessionsFileInv
  <2>. SUFFICES ASSUME Init PROVE UserFileInv /\ SessionsFileInv
    OBVIOUS
  <2>. DEFINE fresh == TrackInit(userFile)
  <2>1. userFile = TornFile \/ UserState(userFile)
    BY InitialFilesAssumption DEF Init, InitialFilesAssumption
  <2>2. tm = LatchSlot(fresh, fresh.active) /\ se.sessions = << >> /\ sessionsFile = << >>
    BY DEF Init, Started, SessionInit
  <2>3. /\ DOMAIN fresh = TrackFields /\ fresh.writes = << >>
        /\ Persisted(fresh) = LoadUserState(userFile)
    BY <2>1, ReadBack DEF TrackInit, TrackFields, UserState
  <2>. HIDE DEF fresh
  <2>4. SameWritten(tm, fresh)
    BY <2>2, <2>3, NotSaved
  <2>. QED BY <2>2, <2>3, <2>4 DEF SameWritten, SameSaved, UserFileInv, SessionsFileInv
<1>2. RaceInv /\ CountInv /\ SplitsInv /\ UserFileInv /\ SessionsFileInv /\ [Next]_vars
        => (UserFileInv /\ SessionsFileInv)'
  <2>. SUFFICES ASSUME RaceInv, CountInv, SplitsInv, UserFileInv, SessionsFileInv, [Next]_vars
                PROVE  (UserFileInv /\ SessionsFileInv)'
    OBVIOUS
  <2>1. CASE Next
    <3>1. userFile = TornFile \/ UserState(userFile)
      BY DEF SplitsInv
    <3>. QED BY <2>1, <3>1, UserFileStep, SessionsFileStep
  <2>2. CASE UNCHANGED vars
    BY <2>2 DEF vars, files, UserFileInv, SessionsFileInv
  <2>. QED BY <2>1, <2>2
<1>3. UserFileInv /\ SessionsFileInv => FilesAreCurrent
  BY DEF UserFileInv, SessionsFileInv, FilesAreCurrent
<1>. QED BY <1>1, <1>2, <1>3, RaceIsSound, LapsAreTyped, PTL DEF Spec

----------------------------------------------------------------------------
(* The gates and their line. *)

\* The confirmed line a database has for a track, if any.
Surveyed(db, s) == IF s \in DOMAIN db THEN db[s] ELSE NoLine

\* A database that moves no confirmed line, adds none and drops none.
KeepsLines(db) == \A s \in Slots : Surveyed(db, s) = Surveyed(Bundled, s)

\* Lines and gates as stored: gates were derived against the line they would be
\* read back with, and a surveyed track has no line of its own.
Matching(lines, gates) ==
    \A s \in Slots :
        IF Surveyed(Bundled, s) = NoLine
        THEN gates[s] # NoGates /\ lines[s] # NoLine => gates[s].base = lines[s]
        ELSE lines[s] = NoLine /\ (gates[s] # NoGates => gates[s].base = Surveyed(Bundled, s))

\* The lap timer's gates are of its line, and its line is that of the slot the
\* next gates are stored under, if that has one.
Based(r) == r.gates # NoGates => r.gates.base = r.line
Live(r, t) == Based(r) /\ (r.line # NoLine => GateFor(t, t.slot) \in {r.line, NoLine})

\* A track model that knows no database but those that keep the lines.
Kept(t) ==
    /\ TypedTrack(t) /\ Matching(t.lines, t.gates)
    /\ KeepsLines(t.db) \/ t.db = NoDb

LEMMA GateOfSlot ==
    ASSUME NEW t, Kept(t), NEW s \in Slots
    PROVE  /\ IsFinishLineLocked(t, s) = (Surveyed(t.db, s) # NoLine)
           /\ GateFor(t, s) = IF Surveyed(t.db, s) # NoLine THEN Surveyed(t.db, s)
                              ELSE t.lines[s]
           /\ Surveyed(t.db, s) \in {Surveyed(Bundled, s), NoLine}
<1>1. DOMAIN NoDb = {}
  BY DEF NoDb
<1>2. Surveyed(NoDb, s) = NoLine
  BY <1>1 DEF Surveyed
<1>3. Surveyed(t.db, s) \in {Surveyed(Bundled, s), NoLine}
  BY <1>2 DEF Kept, KeepsLines
<1>4. IsFinishLineLocked(t, s) = (Surveyed(t.db, s) # NoLine)
  BY DEF IsFinishLineLocked, Surveyed
<1>. QED BY <1>3, <1>4 DEF GateFor, IsFinishLineLocked, Surveyed

\* Stored lines and gates fit, whatever is known of the database.
LEMMA StoredFit ==
    ASSUME NEW t, Kept(t), NEW s \in Slots, t.gates[s] # NoGates, GateFor(t, s) # NoLine
    PROVE  t.gates[s].base = GateFor(t, s)
BY GateOfSlot DEF Kept, Matching

\* The empty id has no surveyed line.
LEMMA GlobalSlot ==
    ASSUME NEW t, TypedTrack(t)
    PROVE  /\ GateFor(t, NoTrack) = t.lines[NoTrack]
           /\ ~IsFinishLineLocked(t, NoTrack) /\ NoTrack \in Slots
BY TrackAssumption DEF TrackAssumption, TypedTrack, GateFor, IsFinishLineLocked, Slots

\* A line applied comes with the gates of the slot it comes from.
LEMMA AppliedLive ==
    ASSUME NEW t, Kept(t), NEW id \in Slots, NEW r, DOMAIN r = RaceBoxFields,
           FinishLineFor(t, id) # NoLine
    PROVE  /\ Live(ApplyLine(r, t, id), LatchSlot(t, id))
           /\ ApplyLine(r, t, id).hasFix = r.hasFix
<1>. DEFINE f == FinishLineFor(t, id)
            s == SlotFor(t, id)
            q == ApplyLine(r, t, id)
            u == LatchSlot(t, id)
<1>1. s \in Slots /\ GateFor(t, s) = f
  BY GlobalSlot DEF Kept, SlotFor, FinishLineFor
<1>2. q.line = f /\ q.gates = t.gates[s] /\ q.hasFix = r.hasFix
  BY DEF ApplyLine, SetFinishLine, SetSectorGates, RaceBoxFields
<1>3. u.slot = s /\ u.db = t.db /\ u.lines = t.lines
  BY DEF LatchSlot, Kept, TypedTrack, TrackFields
<1>4. GateFor(u, s) = GateFor(t, s)
  BY <1>3 DEF GateFor, IsFinishLineLocked
<1>5. t.gates[s] # NoGates => t.gates[s].base = f
  BY <1>1, StoredFit
<1>. HIDE DEF f, s, q, u
<1>6. Live(q, u)
  BY <1>1, <1>2, <1>3, <1>4, <1>5 DEF Live, Based
<1>. QED BY <1>2, <1>6 DEF q, u

\* What the lines and gates of two track models are, is the same.
SameCourse(u, t) ==
    /\ u.lines = t.lines /\ u.gates = t.gates /\ u.db = t.db
    /\ u.loaded = t.loaded /\ u.active = t.active /\ u.slot = t.slot
    /\ u.shownLocked = t.shownLocked

LEMMA SuggestionKeepsCourse ==
    ASSUME NEW t, DOMAIN t = TrackFields, NEW fix, NEW r
    PROVE  /\ SameCourse(OnHasFixChanged(t, fix), t)
           /\ SameCourse(OnSpeedKmhChanged(t, r), t)
           /\ SameCourse(DismissSuggestedTrack(t, fix), t)
           /\ SameCourse(RefreshDatabase(t), t)
           /\ SameCourse(RefreshFailed(t), t)
<1>. USE DEF SameCourse, TrackFields
<1>1. SameCourse(OnHasFixChanged(t, fix), t)
  BY DEF OnHasFixChanged
<1>2. SameCourse(OnSpeedKmhChanged(t, r), t)
  BY DEF OnSpeedKmhChanged
<1>3. SameCourse(DismissSuggestedTrack(t, fix), t)
  BY DEF DismissSuggestedTrack
<1>4. SameCourse(RefreshDatabase(t), t) /\ SameCourse(RefreshFailed(t), t)
  BY DEF RefreshDatabase, RefreshFailed
<1>. QED BY <1>1, <1>2, <1>3, <1>4

LEMMA OtherKeepsCourse ==
    ASSUME NEW t, DOMAIN t = TrackFields, NEW v, NEW id
    PROVE  /\ SameCourse(ScanNearestTrack(t, v, id), t)
           /\ SameCourse(ToggleFavorite(t, id), t)
BY DEF SameCourse, TrackFields, ScanNearestTrack, ToggleFavorite, PersistUserState

\* A sample leaves the line alone, and gates it derives are of that line.
LEMMA UpdateCourse ==
    ASSUME NEW r0, TimedLap(r0, 0), NEW d \in Samples
    PROVE  LET u == UpdateLapTiming(r0, d)
           IN  /\ u.rb.line = r0.line
               /\ Based(r0) => Based(u.rb)
               /\ u.learned = TRUE => r0.line # NoLine /\ u.rb.gates.base = r0.line
               /\ u.learned \in BOOLEAN
<1>. DEFINE r == TestSector(r0, d)
            latched == [r EXCEPT !.crossDir = d.cross]
            lapMs == r.age + d.at
            gates == DeriveSectorGates(r, d)
            closed == [latched EXCEPT
                !.gates = gates,
                !.bestMs = IF @ = 0 \/ lapMs < @ THEN lapMs ELSE @]
            u == UpdateLapTiming(r0, d)
            lap == LapCompleted(r, gates, lapMs)
<1>0. DOMAIN r = RaceBoxFields /\ r.line = r0.line /\ (Based(r0) => Based(r))
  <2>1. DOMAIN r = RaceBoxFields /\ r.line = r0.line
    BY DEF TestSector, TimedLap, RaceBoxFields
  <2>2. r.gates = r0.gates \/ (r.gates.base = r0.gates.base /\ r0.gates # NoGates)
    <3>1. CASE ~SectorHit(r0, d)
      BY <3>1 DEF TestSector
    <3>2. CASE SectorHit(r0, d)
      <4>1. r.gates.base = r0.gates.base
        BY <3>2 DEF TestSector, TimedLap, RaceBoxFields, GateShape
      <4>2. r0.gates # NoGates
        <5>1. Ordered(r0.splits, GateList(r0.gates), r0.age + 0)
          BY <3>2 DEF SectorHit, TimedLap
        <5>2. Len(r0.splits) \in Nat
          BY <5>1, OrderedAt
        <5>3. Len(<< >>) = 0
          OBVIOUS
        <5>. QED BY <3>2, <5>2, <5>3, NoGatesShape DEF SectorHit
      <4>. QED BY <4>1, <4>2
    <3>. QED BY <3>1, <3>2
  <2>. QED BY <2>1, <2>2 DEF Based
<1>2. \/ u.rb \in {r0, r, latched, StartLap(latched, d)} /\ u.learned = FALSE
      \/ /\ r0.line # NoLine
         /\ u.rb = StartLap(closed, d) /\ u.learned = (gates # r.gates)
  <2>. HIDE DEF r, gates, lap
  <2>. QED BY <1>0 DEF UpdateLapTiming, Timed, r, gates, lap
<1>. SUFFICES /\ u.rb.line = r0.line
              /\ Based(r0) => Based(u.rb)
              /\ u.learned = TRUE => r0.line # NoLine /\ u.rb.gates.base = r0.line
              /\ u.learned \in BOOLEAN
  OBVIOUS
<1>. HIDE DEF r, u
<1>3. gates = r.gates \/ gates.base = r.line
  BY DEF DeriveSectorGates
<1>. HIDE DEF gates
<1>4. /\ latched.line = r.line /\ latched.gates = r.gates
      /\ StartLap(latched, d).line = r.line /\ StartLap(latched, d).gates = r.gates
      /\ StartLap(closed, d).line = r.line /\ StartLap(closed, d).gates = gates
  BY <1>0 DEF StartLap, RaceBoxFields
<1>. QED BY <1>0, <1>2, <1>3, <1>4 DEF Based

LEMMA DataCourse ==
    ASSUME NEW r, TimedLap(r, 0), Based(r), NEW d \in Samples
    PROVE  LET t == OnData(r, d)
           IN  /\ t.rb.line = r.line /\ Based(t.rb)
               /\ t.learned = TRUE => r.line # NoLine /\ t.rb.gates.base = r.line
               /\ t.learned \in BOOLEAN
<1>. DEFINE seen == TakeStatus(r, d)
<1>1. TimedLap(seen, 0) /\ seen.line = r.line /\ seen.gates = r.gates
  BY DEF TimedLap, TakeStatus, RaceBoxFields
<1>. HIDE DEF seen
<1>2. CASE d.fix
  <2>. DEFINE headed == [seen EXCEPT !.anchor = TRUE,
                             !.heading = IF seen.anchor /\ d.moved THEN "fresh" ELSE @]
              timed == IF seen.prevFix THEN UpdateLapTiming(headed, d)
                       ELSE [rb |-> headed, lap |-> NoLap, learned |-> FALSE]
              t == TakeFix(seen, d)
  <2>1. OnData(r, d) = t
    BY <1>2 DEF OnData, seen
  <2>2. TimedLap(headed, 0) /\ headed.line = r.line /\ Based(headed)
    BY <1>1 DEF TimedLap, RaceBoxFields, Based
  <2>3. t = [timed EXCEPT !.rb.prevFix = TRUE,
                 !.rb.age = IF timed.rb.running THEN @ + d.dt ELSE 0,
                 !.rb.dirty = IF timed.rb.running THEN @ \cup {"other"} ELSE @]
    BY DEF TakeFix, headed
  <2>. HIDE DEF headed, t
  <2>4. /\ DOMAIN timed = {"rb", "lap", "learned"} /\ DOMAIN timed.rb = RaceBoxFields
        /\ timed.rb.line = r.line /\ Based(timed.rb)
        /\ timed.learned = TRUE => r.line # NoLine /\ timed.rb.gates.base = r.line
        /\ timed.learned \in BOOLEAN
    <3>1. CASE seen.prevFix
      <4>1. timed = UpdateLapTiming(headed, d)
        BY <3>1
      <4>. HIDE DEF timed
      <4>2. DOMAIN timed = {"rb", "lap", "learned"} /\ DOMAIN timed.rb = RaceBoxFields
        BY <2>2, <4>1, UpdateTiming DEF TimedLap
      <4>. QED BY <2>2, <4>1, <4>2, UpdateCourse
    <3>2. CASE ~seen.prevFix
      <4>1. timed = [rb |-> headed, lap |-> NoLap, learned |-> FALSE]
        BY <3>2
      <4>. HIDE DEF timed
      <4>. QED BY <2>2, <4>1 DEF TimedLap
    <3>. QED BY <3>1, <3>2
  <2>. HIDE DEF timed
  <2>5. t.rb.line = timed.rb.line /\ t.rb.gates = timed.rb.gates /\ t.learned = timed.learned
    BY <2>3, <2>4 DEF RaceBoxFields
  <2>. QED BY <2>1, <2>4, <2>5 DEF Based
<1>3. CASE ~d.fix
  <2>. DEFINE q == [seen EXCEPT !.dirty = IF r.running THEN @ \cup {"other"} ELSE @]
  <2>1. OnData(r, d).rb = q /\ OnData(r, d).learned = FALSE
    BY <1>3 DEF OnData, seen
  <2>2. q.line = r.line /\ q.gates = r.gates
    BY <1>1 DEF TimedLap, RaceBoxFields
  <2>. HIDE DEF q
  <2>. QED BY <2>1, <2>2 DEF Based
<1>. QED BY <1>2, <1>3

\* Gates are stored under a slot whose line they are of, or that has none.
LEMMA GatesKept ==
    ASSUME NEW t, Kept(t), KeepsLines(t.db), NEW g, GateShape(g),
           g # NoGates => GateFor(t, t.slot) \in {g.base, NoLine}
    PROVE  Kept(OnSectorGatesLearned(t, g))
<1>. DEFINE u == OnSectorGatesLearned(t, g)
<1>1. TypedTrack(u)
  BY GatesTyped DEF Kept
<1>2. /\ u.lines = t.lines /\ u.db = t.db /\ t.slot \in Slots
      /\ \A s \in Slots : u.gates[s] = IF s = t.slot THEN g ELSE t.gates[s]
  BY DEF OnSectorGatesLearned, PersistUserState, Kept, TypedTrack, TrackFields
<1>. HIDE DEF u
<1>3. GateFor(t, t.slot) = IF Surveyed(Bundled, t.slot) # NoLine
                           THEN Surveyed(Bundled, t.slot) ELSE t.lines[t.slot]
  BY <1>2, GateOfSlot DEF KeepsLines
<1>4. Matching(u.lines, u.gates)
  <2>. SUFFICES ASSUME NEW s \in Slots
                PROVE  IF Surveyed(Bundled, s) = NoLine
                       THEN u.gates[s] # NoGates /\ t.lines[s] # NoLine
                              => u.gates[s].base = t.lines[s]
                       ELSE t.lines[s] = NoLine
                            /\ (u.gates[s] # NoGates => u.gates[s].base = Surveyed(Bundled, s))
    BY <1>2 DEF Matching
  <2>1. CASE s # t.slot
    BY <1>2, <2>1 DEF Kept, TypedTrack, Matching
  <2>2. CASE s = t.slot
    BY <1>2, <1>3, <2>2 DEF Kept, TypedTrack, Matching
  <2>. QED BY <2>1, <2>2
<1>. QED BY <1>1, <1>2, <1>4 DEF Kept, u

\* A line learned or dropped leaves no gates of the line before it.
LEMMA LineKept ==
    ASSUME NEW t, Kept(t), KeepsLines(t.db), NEW l
    PROVE  LET u == OnSectorGatesLearned(OnFinishLineLearned(t, l), NoGates)
           IN  /\ Kept(u) /\ u.db = t.db /\ u.loaded = t.loaded /\ u.active = t.active
               /\ u.suggested = t.suggested
               /\ u.shownLocked \in {t.shownLocked, IsFinishLineLocked(t, t.active)}
               /\ l # NoLine /\ ~IsFinishLineLocked(t, t.active)
                    => u.slot = t.active /\ u.lines[t.active] = l
<1>. DEFINE m == OnFinishLineLearned(t, l)
            u == OnSectorGatesLearned(m, NoGates)
            locked == IsFinishLineLocked(t, t.active)
<1>0. DOMAIN t = TrackFields /\ t.active \in Slots /\ DOMAIN t.lines = Slots
  BY DEF Kept, TypedTrack
<1>1. TypedTrack(m) /\ TypedTrack(u)
  BY NoGatesShape, LineTyped, GatesTyped DEF Kept
<1>2. /\ m.db = t.db /\ m.loaded = t.loaded /\ m.active = t.active /\ m.gates = t.gates
      /\ m.suggested = t.suggested /\ m.shownLocked \in {t.shownLocked, locked}
      /\ IF l # NoLine /\ ~locked
         THEN m.slot = t.active /\ m.lines = [t.lines EXCEPT ![t.active] = l]
         ELSE m.lines \in {t.lines, [t.lines EXCEPT ![t.active] = NoLine]}
  <2>. DEFINE put == [t EXCEPT !.lines[t.active] = l, !.slot = t.active]
              dropped == [t EXCEPT !.lines[t.active] = NoLine]
  <2>1. \/ m = t /\ ~(l # NoLine /\ ~locked)
        \/ m = ActiveTrackChanged(PersistUserState(put)) /\ l # NoLine /\ ~locked
        \/ m = ActiveTrackChanged(PersistUserState(dropped)) /\ l = NoLine
    BY DEF OnFinishLineLearned
  <2>2. /\ DOMAIN put = TrackFields /\ DOMAIN dropped = TrackFields
        /\ \A x \in {put, dropped} :
              /\ x.db = t.db /\ x.loaded = t.loaded /\ x.active = t.active
              /\ x.gates = t.gates /\ x.suggested = t.suggested
        /\ put.slot = t.active /\ put.lines = [t.lines EXCEPT ![t.active] = l]
        /\ dropped.lines = [t.lines EXCEPT ![t.active] = NoLine]
    BY <1>0 DEF TrackFields
  <2>. HIDE DEF m, put, dropped
  <2>3. ASSUME NEW x, DOMAIN x = TrackFields, x.db = t.db, x.active = t.active
        PROVE  LET v == ActiveTrackChanged(PersistUserState(x))
               IN  /\ v.db = x.db /\ v.loaded = x.loaded /\ v.active = x.active
                   /\ v.gates = x.gates /\ v.suggested = x.suggested /\ v.slot = x.slot
                   /\ v.lines = x.lines /\ v.shownLocked = locked
    BY <2>3 DEF ActiveTrackChanged, PersistUserState, IsFinishLineLocked, TrackFields
  <2>4. CASE m = t /\ ~(l # NoLine /\ ~locked)
    BY <2>4
  <2>5. CASE m = ActiveTrackChanged(PersistUserState(put)) /\ l # NoLine /\ ~locked
    BY <2>2, <2>3, <2>5
  <2>6. CASE m = ActiveTrackChanged(PersistUserState(dropped)) /\ l = NoLine
    BY <2>2, <2>3, <2>6
  <2>. QED BY <2>1, <2>4, <2>5, <2>6
<1>. HIDE DEF m
<1>3. /\ u.db = m.db /\ u.loaded = m.loaded /\ u.active = m.active /\ u.slot = m.slot
      /\ u.suggested = m.suggested /\ u.shownLocked = m.shownLocked /\ u.lines = m.lines
      /\ \A s \in Slots : u.gates[s] = IF s = m.slot THEN NoGates ELSE m.gates[s]
      /\ m.slot \in Slots /\ DOMAIN m.gates = Slots
  BY <1>1 DEF OnSectorGatesLearned, PersistUserState, TypedTrack, TrackFields
<1>4. ~locked => Surveyed(Bundled, t.active) = NoLine
  BY <1>0, GateOfSlot DEF KeepsLines
<1>. HIDE DEF u, locked
<1>5. Matching(u.lines, u.gates)
  <2>. SUFFICES ASSUME NEW s \in Slots
                PROVE  IF Surveyed(Bundled, s) = NoLine
                       THEN u.gates[s] # NoGates /\ u.lines[s] # NoLine
                              => u.gates[s].base = u.lines[s]
                       ELSE u.lines[s] = NoLine
                            /\ (u.gates[s] # NoGates => u.gates[s].base = Surveyed(Bundled, s))
    BY DEF Matching
  <2>1. u.gates[s] \in {t.gates[s], NoGates} /\ (s = m.slot => u.gates[s] = NoGates)
    BY <1>2, <1>3
  <2>2. CASE s # t.active
    <3>1. u.lines[s] = t.lines[s]
      BY <1>0, <1>2, <1>3, <2>2
    <3>. QED BY <2>1, <3>1 DEF Kept, Matching
  <2>3. CASE s = t.active /\ l # NoLine /\ ~locked
    BY <1>2, <1>4, <2>1, <2>3
  <2>4. CASE s = t.active /\ ~(l # NoLine /\ ~locked)
    <3>1. u.lines[s] \in {t.lines[s], NoLine}
      BY <1>0, <1>2, <1>3, <2>4
    <3>. QED BY <2>1, <3>1 DEF Kept, Matching
  <2>. QED BY <2>2, <2>3, <2>4
<1>6. Kept(u)
  BY <1>1, <1>2, <1>3, <1>5 DEF Kept
<1>7. l # NoLine /\ ~locked => u.slot = t.active /\ u.lines[t.active] = l
  BY <1>0, <1>2, <1>3
<1>. QED BY <1>2, <1>3, <1>6, <1>7 DEF u, m, locked

\* A track made active, or given up: stored lines and gates are as before.
LEMMA ChosenKept ==
    ASSUME NEW t, Kept(t), NEW id \in Slots
    PROVE  /\ LET u == SelectTrack(t, id)
              IN  /\ Kept(u) /\ u.db = t.db /\ u.loaded = t.loaded /\ u.active = id
                  /\ u.slot = id /\ u.shownLocked = IsFinishLineLocked(u, u.active)
           /\ LET u == AcceptSuggestedTrack(t)
              IN  /\ Kept(u) /\ u.db = t.db /\ u.loaded = t.loaded /\ u.active = t.suggested
                  /\ u.slot = u.active /\ u.shownLocked = IsFinishLineLocked(u, u.active)
<1>. USE DEF SetActiveTrack, ActiveTrackChanged, PersistUserState, IsFinishLineLocked
<1>0. DOMAIN t = TrackFields
  BY DEF Kept, TypedTrack
<1>1. LET u == SelectTrack(t, id)
      IN  /\ u.lines = t.lines /\ u.gates = t.gates /\ u.db = t.db /\ u.loaded = t.loaded
          /\ u.active = id /\ u.slot = id /\ u.shownLocked = IsFinishLineLocked(u, u.active)
  BY <1>0 DEF SelectTrack, TrackFields
<1>2. LET u == AcceptSuggestedTrack(t)
      IN  /\ u.lines = t.lines /\ u.gates = t.gates /\ u.db = t.db /\ u.loaded = t.loaded
          /\ u.active = t.suggested /\ u.slot = u.active
          /\ u.shownLocked = IsFinishLineLocked(u, u.active)
  BY <1>0 DEF AcceptSuggestedTrack, TrackFields
<1>3. TypedTrack(SelectTrack(t, id)) /\ TypedTrack(AcceptSuggestedTrack(t))
  BY ChosenTyped DEF Kept
<1>. QED BY <1>1, <1>2, <1>3 DEF Kept

LEMMA GivenUpKept ==
    ASSUME NEW t, Kept(t), NEW fix
    PROVE  LET u == ClearActiveTrack(t, fix)
           IN  /\ Kept(u) /\ u.db = t.db /\ u.loaded = t.loaded /\ u.lines = t.lines
               /\ u.slot = t.slot /\ u.shownLocked = IsFinishLineLocked(u, u.active)
<1>. DEFINE u == ClearActiveTrack(t, fix)
<1>1. /\ u.lines = t.lines /\ u.gates = t.gates /\ u.db = t.db /\ u.loaded = t.loaded
      /\ u.slot = t.slot /\ u.shownLocked = IsFinishLineLocked(u, u.active)
  BY DEF ClearActiveTrack, ActiveTrackChanged, PersistUserState, IsFinishLineLocked, Kept,
         TypedTrack, TrackFields
<1>2. TypedTrack(u)
  BY ChosenTyped DEF Kept, TypedTrack
<1>. QED BY <1>1, <1>2 DEF Kept

LEMMA LatchKept ==
    ASSUME NEW t, Kept(t), NEW id \in Slots
    PROVE  LET u == LatchSlot(t, id)
           IN  /\ Kept(u) /\ u.db = t.db /\ u.loaded = t.loaded /\ u.active = t.active
               /\ u.lines = t.lines /\ u.gates = t.gates
               /\ u.suggested = t.suggested /\ u.scanning = t.scanning
               /\ u.refreshing = t.refreshing /\ u.shownLocked = t.shownLocked
<1>1. TypedTrack(LatchSlot(t, id))
  BY LatchTyped DEF Kept
<1>. QED BY <1>1 DEF Kept, TypedTrack, LatchSlot, TrackFields

\* Before the first pass of the event loop nothing is known of the database, no
\* fix has come, and a line applied will be there to be applied once more.
Quiet(r, t) ==
    /\ t.db = NoDb /\ t.suggested = NoTrack /\ t.scanning = FALSE /\ t.refreshing = FALSE
    /\ r.hasFix = FALSE
    /\ r.line # NoLine => FinishLineFor(t, t.active) # NoLine

Shown(t) == t.shownLocked \in BOOLEAN /\ (t.shownLocked = TRUE <=> IsFinishLineLocked(t, t.active))

FitInv ==
    /\ Kept(tm) /\ Live(rb, tm) /\ Shown(tm)
    /\ tm.loaded \in BOOLEAN
    /\ IF tm.loaded = TRUE THEN KeepsLines(tm.db) ELSE Quiet(rb, tm)
    /\ dbFile = NoDb \/ KeepsLines(dbFile)

LEMMA StartedFit ==
    ASSUME NEW user, NEW sessions, UserState(user), Matching(user.lines, user.gates)
    PROVE  LET s == Started(user, sessions)
           IN  /\ Kept(s.tm) /\ Live(s.rb, s.tm) /\ Shown(s.tm)
               /\ s.tm.loaded = FALSE /\ Quiet(s.rb, s.tm)
<1>. DEFINE fresh == TrackInit(user)
            q == ApplyLine(RaceBoxInit, fresh, fresh.active)
            t == LatchSlot(fresh, fresh.active)
<1>1. /\ fresh.lines = user.lines /\ fresh.gates = user.gates /\ fresh.db = NoDb
      /\ fresh.loaded = FALSE /\ fresh.suggested = NoTrack /\ fresh.scanning = FALSE
      /\ fresh.refreshing = FALSE /\ fresh.shownLocked = FALSE
  <2>1. user # TornFile
    <3>1. DOMAIN user = {"active", "favorites", "lines", "gates"} /\ DOMAIN TornFile = {"torn"}
      BY DEF UserState, Persisted, TornFile
    <3>. QED BY <3>1
  <2>. QED BY <2>1 DEF TrackInit, LoadUserState
<1>2. TypedTrack(fresh)
  BY LoadedTyped
<1>3. Started(user, sessions).rb = q /\ Started(user, sessions).tm = t
  BY DEF Started
<1>. HIDE DEF fresh
<1>4. Kept(fresh) /\ fresh.active \in Slots
  BY <1>1, <1>2 DEF Kept, TypedTrack
<1>5. /\ Kept(t) /\ t.db = NoDb /\ t.loaded = FALSE /\ t.active = fresh.active
      /\ t.lines = fresh.lines /\ t.suggested = NoTrack /\ t.scanning = FALSE
      /\ t.refreshing = FALSE /\ t.shownLocked = FALSE
  BY <1>1, <1>4, LatchKept
<1>6. DOMAIN RaceBoxInit = RaceBoxFields /\ RaceBoxInit.hasFix = FALSE
      /\ RaceBoxInit.line = NoLine /\ RaceBoxInit.gates = NoGates
  BY DEF RaceBoxInit, RaceBoxFields
<1>7. CASE FinishLineFor(fresh, fresh.active) # NoLine
  <2>1. Live(q, t) /\ q.hasFix = FALSE
    BY <1>4, <1>6, <1>7, AppliedLive
  <2>. HIDE DEF q, t
  <2>2. FinishLineFor(t, t.active) # NoLine
    BY <1>1, <1>5, <1>7 DEF FinishLineFor, GateFor, IsFinishLineLocked
  <2>3. ~IsFinishLineLocked(t, t.active)
    BY <1>5 DEF IsFinishLineLocked, NoDb
  <2>. QED BY <1>3, <1>5, <2>1, <2>2, <2>3 DEF Quiet, Shown
<1>8. CASE FinishLineFor(fresh, fresh.active) = NoLine
  <2>1. q = RaceBoxInit
    BY <1>8 DEF ApplyLine
  <2>. HIDE DEF q, t
  <2>2. ~IsFinishLineLocked(t, t.active)
    BY <1>5 DEF IsFinishLineLocked, NoDb
  <2>. QED BY <1>3, <1>5, <1>6, <2>1, <2>2 DEF Quiet, Shown, Live, Based
<1>. QED BY <1>7, <1>8

\* What breaks a gate's tie to its line and is no step of this program: a
\* database that moves lines, writes that fail, files that did not fit before.
CourseKept ==
    /\ ~DiskFaults
    /\ \A db \in Databases : KeepsLines(db)
    /\ \A f \in InitialFiles : Matching(f.lines, f.gates)

LEMMA FitStep ==
    ASSUME CourseKept, RaceInv, SplitsInv, SplitsInv', UserFileInv, lost = {}, FitInv, Next
    PROVE  FitInv'
<1>0. /\ Sound(rb) /\ rb.hasFix \in BOOLEAN /\ DOMAIN rb = RaceBoxFields
      /\ TimedLap(rb, 0) /\ TypedTrack(tm) /\ DOMAIN tm = TrackFields
      /\ Kept(tm) /\ Live(rb, tm) /\ Based(rb) /\ Shown(tm) /\ NoTrack \in Slots
      /\ tm.active \in Slots /\ tm.slot \in Slots /\ tm.suggested \in Slots
      /\ DOMAIN tm.db \subseteq Tracks
  BY DEF RaceInv, Sound, Bits, SplitsInv, TypedTrack, FitInv, Live, Slots
<1>00. TypedTrack(tm') /\ TimedLap(rb', 0)
  BY DEF SplitsInv
<1>. DEFINE FileKept == dbFile' = NoDb \/ KeepsLines(dbFile')
<1>1. ASSUME SameCourse(tm', tm), rb'.line = rb.line, Based(rb'), FileKept,
             \/ tm.loaded = TRUE
             \/ /\ rb'.hasFix = FALSE /\ tm'.suggested = NoTrack
                /\ tm'.scanning = FALSE /\ tm'.refreshing = FALSE
      PROVE  FitInv'
  <2>1. /\ FinishLineFor(tm', tm'.active) = FinishLineFor(tm, tm.active)
        /\ GateFor(tm', tm'.slot) = GateFor(tm, tm.slot)
        /\ IsFinishLineLocked(tm', tm'.active) = IsFinishLineLocked(tm, tm.active)
    BY <1>1 DEF SameCourse, FinishLineFor, GateFor, IsFinishLineLocked
  <2>2. Kept(tm')
    BY <1>00, <1>0, <1>1 DEF Kept, SameCourse
  <2>3. Live(rb', tm') /\ Shown(tm')
    BY <1>0, <1>1, <2>1 DEF Live, Shown, SameCourse
  <2>4. tm'.loaded \in BOOLEAN
        /\ IF tm'.loaded = TRUE THEN KeepsLines(tm'.db) ELSE Quiet(rb', tm')
    BY <1>1, <2>1 DEF FitInv, SameCourse, Quiet
  <2>. QED BY <1>1, <2>2, <2>3, <2>4 DEF FitInv
<1>2. ASSUME Kept(tm'), Live(rb', tm'), Shown(tm'), tm'.loaded = TRUE, KeepsLines(tm'.db),
             FileKept
      PROVE  FitInv'
  BY <1>2 DEF FitInv
<1>01. ASSUME NEW h, DOMAIN h = TrackFields, TrackHandled(h) PROVE SameCourse(tm', h)
  BY <1>01 DEF TrackHandled, SameCourse, TrackFields
<1>02. ASSUME NEW h, TrackHandled(h), Kept(h), Live(rb', h), Shown(h), h.loaded = TRUE,
              KeepsLines(h.db), FileKept
       PROVE  FitInv'
  <2>1. SameCourse(tm', h)
    BY <1>01, <1>02 DEF Kept, TypedTrack
  <2>2. Kept(tm') /\ tm'.loaded = TRUE /\ KeepsLines(tm'.db)
    BY <1>00, <1>02, <2>1 DEF Kept, SameCourse
  <2>3. Live(rb', tm') /\ Shown(tm')
    BY <1>02, <2>1 DEF Live, Shown, SameCourse, GateFor, IsFinishLineLocked
  <2>. QED BY <1>2, <1>02, <2>2, <2>3
<1>03. ASSUME NEW h, DOMAIN h = TrackFields, TrackHandled(h), SameCourse(h, tm),
              rb'.line = rb.line, Based(rb'), FileKept, tm.loaded = TRUE
       PROVE  FitInv'
  <2>1. SameCourse(tm', h)
    BY <1>01, <1>03
  <2>2. SameCourse(tm', tm)
    BY <1>03, <2>1 DEF SameCourse
  <2>. QED BY <1>1, <1>03, <2>2
<1>3. dbFile' = dbFile => FileKept
  BY DEF FitInv
<1>4. tm.loaded # TRUE => /\ rb.hasFix = FALSE /\ tm.suggested = NoTrack /\ tm.db = NoDb
                          /\ tm.scanning = FALSE /\ tm.refreshing = FALSE
  BY DEF FitInv, Quiet
<1>5. tm.loaded = TRUE => KeepsLines(tm.db)
  BY DEF FitInv
<1>6. DOMAIN NoDb = {}
  BY DEF NoDb
<1>. HIDE DEF FileKept
<1>7. ASSUME NEW d \in Samples, Data(d) PROVE FitInv'
  <2>. DEFINE seen == TakeStatus(rb, d)
              done == OnData(rb, d)
              noticed == IF d.speed = rb.speed THEN tm ELSE OnSpeedKmhChanged(tm, seen)
              h == IF done.learned THEN OnSectorGatesLearned(noticed, done.rb.gates)
                   ELSE noticed
  <2>1. /\ rb' = done.rb /\ tm.loaded = TRUE
        /\ TrackHandled(h)
        /\ FileKept
    BY <1>3, <1>7, <1>4 DEF Data, Ready, FitInv
  <2>2. /\ done.rb.line = rb.line /\ Based(done.rb) /\ done.learned \in BOOLEAN
        /\ done.learned = TRUE => rb.line # NoLine /\ done.rb.gates.base = rb.line
    BY <1>0, DataCourse
  <2>3. SameCourse(noticed, tm) /\ TypedTrack(noticed)
    <3>1. SameCourse(tm, tm)
      BY DEF SameCourse
    <3>2. SameCourse(OnSpeedKmhChanged(tm, seen), tm)
      BY <1>0, SuggestionKeepsCourse
    <3>3. TypedTrack(OnSpeedKmhChanged(tm, seen))
      BY <1>0 DEF OnSpeedKmhChanged, TypedTrack, TrackFields
    <3>. QED BY <1>0, <3>1, <3>2, <3>3
  <2>. HIDE DEF noticed, done, seen
  <2>4. CASE done.learned = TRUE
    <3>1. h = OnSectorGatesLearned(noticed, rb'.gates)
      BY <2>1, <2>4
    <3>. HIDE DEF h
    <3>2. /\ Kept(noticed) /\ KeepsLines(noticed.db) /\ noticed.loaded = TRUE
          /\ GateFor(noticed, noticed.slot) = GateFor(tm, tm.slot)
      BY <1>0, <1>5, <2>1, <2>3 DEF Kept, SameCourse, GateFor, IsFinishLineLocked
    <3>3. GateFor(noticed, noticed.slot) \in {rb'.gates.base, NoLine} /\ GateShape(rb'.gates)
      BY <1>0, <1>00, <2>1, <2>2, <2>4, <3>2 DEF Live, TimedLap
    <3>4. Kept(h)
      BY <3>1, <3>2, <3>3, GatesKept
    <3>5. /\ h.lines = tm.lines /\ h.db = tm.db /\ h.loaded = TRUE
          /\ h.active = tm.active /\ h.slot = tm.slot /\ h.shownLocked = tm.shownLocked
      BY <2>1, <2>3, <3>1 DEF OnSectorGatesLearned, PersistUserState, SameCourse, TypedTrack, TrackFields
    <3>6. Live(rb', h) /\ Shown(h)
      BY <1>0, <2>1, <2>2, <3>5 DEF Live, Shown, GateFor, IsFinishLineLocked
    <3>. QED BY <1>02, <1>5, <2>1, <3>4, <3>5, <3>6
  <2>5. CASE done.learned = FALSE
    <3>1. h = noticed
      BY <2>5
    <3>. HIDE DEF h
    <3>. QED BY <1>03, <2>1, <2>2, <2>3, <3>1 DEF TypedTrack
  <2>. QED BY <2>2, <2>4, <2>5
<1>8. ASSUME NEW c, Connection(c) PROVE FitInv'
  <2>1. rb'.line = rb.line /\ rb'.gates = rb.gates /\ tm' = tm /\ dbFile' = dbFile
        /\ tm.loaded = TRUE
    BY <1>0, <1>4, <1>8 DEF Connection, OnConnectionStateChanged, RaceBoxFields, files, Ready, FitInv
  <2>. QED BY <1>0, <1>1, <1>3, <2>1 DEF SameCourse, Based
<1>9. CASE HeadingStale
  <2>1. rb'.line = rb.line /\ rb'.gates = rb.gates /\ rb'.hasFix = rb.hasFix /\ tm' = tm
        /\ dbFile' = dbFile
    BY <1>0, <1>9 DEF HeadingStale, HeadingAges, RaceBoxFields, files
  <2>. QED BY <1>0, <1>1, <1>3, <1>4, <2>1 DEF SameCourse, Based
<1>10. CASE NotifyTick
  <2>1. rb'.line = rb.line /\ rb'.gates = rb.gates /\ rb'.hasFix = rb.hasFix
        /\ tm' \in {tm, OnHasFixChanged(tm, rb.hasFix)} /\ dbFile' = dbFile
    BY <1>0, <1>10 DEF NotifyTick, EmitNotifications, RaceBoxFields, files
  <2>2. SameCourse(OnHasFixChanged(tm, rb.hasFix), tm) /\ SameCourse(tm, tm)
    BY <1>0, SuggestionKeepsCourse DEF SameCourse
  <2>3. rb.hasFix = FALSE => OnHasFixChanged(tm, rb.hasFix) = tm
    BY DEF OnHasFixChanged
  <2>. QED BY <1>0, <1>1, <1>3, <1>4, <2>1, <2>2, <2>3 DEF Based
<1>11. CASE CanTick \/ (\E kmh \in CanSpeeds : CanMoves(kmh)) \/ (\E i : RemoveSession(i))
  <2>1. rb' = rb /\ tm' = tm /\ dbFile' = dbFile
    BY <1>11 DEF CanTick, CanMoves, RemoveSession, files
  <2>. QED BY <1>0, <1>1, <1>3, <1>4, <2>1 DEF SameCourse
<1>12. ASSUME NEW n, Scan(n) PROVE FitInv'
  <2>1. rb' = rb /\ tm' = ScanNearestTrack(tm, rb.speed, n) /\ dbFile' = dbFile
        /\ tm.scanning
    BY <1>12 DEF Scan, files
  <2>2. SameCourse(tm', tm) /\ tm.loaded = TRUE
    BY <1>0, <1>4, <2>1, OtherKeepsCourse
  <2>. QED BY <1>0, <1>1, <1>3, <2>1, <2>2
<1>13. CASE LearnLine
  <2>. DEFINE n == learned'
              h == OnSectorGatesLearned(OnFinishLineLearned(tm, n), NoGates)
  <2>1. /\ rb' = LearnFinishLineHere(rb, n) /\ ~tm.shownLocked /\ rb.line = NoLine
        /\ rb.hasFix = TRUE /\ dbFile' = dbFile
        /\ TrackHandled(h)
    BY <1>0, <1>13 DEF LearnLine, CanLearnFinishLine
  <2>. HIDE DEF n
  <2>2. tm.loaded = TRUE /\ KeepsLines(tm.db) /\ ~IsFinishLineLocked(tm, tm.active)
    BY <1>0, <1>4, <1>5, <2>1 DEF Shown
  <2>3. /\ Kept(h) /\ h.db = tm.db /\ h.loaded = tm.loaded /\ h.active = tm.active
        /\ h.shownLocked \in {tm.shownLocked, IsFinishLineLocked(tm, tm.active)}
        /\ n # NoLine => h.slot = tm.active /\ h.lines[tm.active] = n
    BY <1>0, <2>1, <2>2, LineKept
  <2>4. rb'.line = n /\ rb'.gates = NoGates
    BY <1>0, <2>1 DEF LearnFinishLineHere, SetFinishLine, RaceBoxFields
  <2>5. ~IsFinishLineLocked(h, h.active)
    BY <2>2, <2>3 DEF IsFinishLineLocked
  <2>6. Shown(h) /\ Live(rb', h)
    BY <1>0, <2>1, <2>2, <2>3, <2>4, <2>5 DEF Shown, Live, Based, GateFor, IsFinishLineLocked
  <2>. QED BY <1>02, <1>3, <2>1, <2>2, <2>3, <2>6
<1>14. CASE ResetLine
  <2>. DEFINE h == OnSectorGatesLearned(OnFinishLineLearned(tm, NoLine), NoGates)
  <2>1. /\ rb' = ClearFinishLine(rb) /\ ~tm.shownLocked /\ tm.loaded /\ dbFile' = dbFile
        /\ TrackHandled(h)
    BY <1>14 DEF ResetLine, OnFinishLineCleared, Ready
  <2>2. tm.loaded = TRUE /\ KeepsLines(tm.db) /\ ~IsFinishLineLocked(tm, tm.active)
    BY <1>0, <1>4, <1>5, <2>1 DEF Shown, FitInv
  <2>3. /\ Kept(h) /\ h.db = tm.db /\ h.loaded = tm.loaded /\ h.active = tm.active
        /\ h.shownLocked \in {tm.shownLocked, IsFinishLineLocked(tm, tm.active)}
    BY <1>0, <2>1, <2>2, LineKept
  <2>4. rb'.line = NoLine /\ rb'.gates = NoGates
    BY <1>0, <2>1 DEF ClearFinishLine, ResetLapState, RaceBoxFields
  <2>5. ~IsFinishLineLocked(h, h.active)
    BY <2>2, <2>3 DEF IsFinishLineLocked
  <2>6. Shown(h) /\ Live(rb', h)
    BY <1>0, <2>1, <2>2, <2>3, <2>4, <2>5 DEF Shown, Live, Based, IsFinishLineLocked
  <2>. QED BY <1>02, <1>3, <2>1, <2>2, <2>3, <2>6
<1>15. ASSUME NEW u, NEW id \in Slots, Kept(u), KeepsLines(u.db), u.loaded = TRUE,
              u.active = id, u.slot = id, Shown(u), FileKept,
              rb' = ApplyLine(rb, u, id), TrackHandled(LatchSlot(u, id))
       PROVE  FitInv'
  <2>. DEFINE h == LatchSlot(u, id)
  <2>1. /\ Kept(h) /\ h.db = u.db /\ h.loaded = TRUE /\ h.active = id
        /\ h.shownLocked = u.shownLocked
    BY <1>15, LatchKept
  <2>2. Shown(h)
    BY <1>15, <2>1 DEF Shown, IsFinishLineLocked
  <2>3. CASE FinishLineFor(u, id) # NoLine
    <3>1. Live(rb', h)
      BY <1>0, <1>15, <2>3, AppliedLive
    <3>. QED BY <1>02, <1>15, <2>1, <2>2, <3>1
  <2>4. CASE FinishLineFor(u, id) = NoLine
    <3>1. rb' = rb /\ h = u /\ GateFor(u, u.slot) = NoLine
      BY <1>15, <2>4 DEF ApplyLine, LatchSlot, FinishLineFor
    <3>2. Live(rb', h)
      BY <1>0, <3>1 DEF Live
    <3>. QED BY <1>02, <1>15, <2>1, <2>2, <3>2
  <2>. QED BY <2>3, <2>4
<1>16. CASE Accept
  <2>. DEFINE u == AcceptSuggestedTrack(tm)
  <2>1. /\ rb' = ApplyLine(rb, u, u.active) /\ TrackHandled(LatchSlot(u, u.active))
        /\ dbFile' = dbFile /\ tm.suggested # NoTrack
    BY <1>16 DEF Accept
  <2>2. /\ Kept(u) /\ u.db = tm.db /\ u.loaded = tm.loaded /\ u.active = tm.suggested
        /\ u.slot = u.active /\ u.shownLocked = IsFinishLineLocked(u, u.active)
    BY <1>0, ChosenKept
  <2>. HIDE DEF u
  <2>3. Shown(u)
    BY <2>2 DEF Shown, IsFinishLineLocked
  <2>4. u.loaded = TRUE /\ KeepsLines(u.db)
    BY <1>4, <1>5, <2>1, <2>2
  <2>. QED BY <1>0, <1>3, <1>15, <2>1, <2>2, <2>3, <2>4
<1>17. ASSUME NEW id \in Tracks, Select(id) PROVE FitInv'
  <2>. DEFINE u == SelectTrack(tm, id)
  <2>1. /\ IF FinishLineFor(u, id) # NoLine
           THEN rb' = ApplyLine(rb, u, id) /\ TrackHandled(LatchSlot(u, id))
           ELSE rb' = ClearFinishLine(rb) /\ TrackHandled(OnFinishLineCleared(u))
        /\ dbFile' = dbFile /\ id \in DOMAIN tm.db
    BY <1>17 DEF Select
  <2>2. /\ Kept(u) /\ u.db = tm.db /\ u.loaded = tm.loaded /\ u.active = id /\ id \in Slots
        /\ u.slot = id /\ u.shownLocked = IsFinishLineLocked(u, u.active)
    <3>1. id \in Slots
      BY DEF Slots
    <3>. QED BY <1>0, <3>1, ChosenKept
  <2>. HIDE DEF u
  <2>3. Shown(u)
    BY <2>2 DEF Shown, IsFinishLineLocked
  <2>4. u.loaded = TRUE /\ KeepsLines(u.db)
    BY <1>4, <1>5, <1>6, <2>1, <2>2
  <2>5. CASE FinishLineFor(u, id) # NoLine
    BY <1>3, <1>15, <2>1, <2>2, <2>3, <2>4, <2>5
  <2>6. CASE FinishLineFor(u, id) = NoLine
    <3>. DEFINE h == OnFinishLineCleared(u)
    <3>1. /\ Kept(h) /\ h.db = u.db /\ h.loaded = TRUE /\ h.active = id
          /\ h.shownLocked \in {u.shownLocked, IsFinishLineLocked(u, u.active)}
      BY <2>1, <2>2, <2>4, <2>6, LineKept DEF OnFinishLineCleared
    <3>2. rb'.line = NoLine /\ rb'.gates = NoGates
      BY <1>0, <2>1, <2>6 DEF ClearFinishLine, ResetLapState, RaceBoxFields
    <3>3. Live(rb', h)
      BY <3>2 DEF Live, Based
    <3>4. Shown(h)
      BY <2>2, <2>3, <3>1 DEF Shown, IsFinishLineLocked
    <3>5. TrackHandled(h) /\ FileKept
      BY <1>3, <2>1, <2>6
    <3>. HIDE DEF h
    <3>6. KeepsLines(h.db)
      BY <2>4, <3>1
    <3>. QED BY <1>02, <3>1, <3>3, <3>4, <3>5, <3>6
  <2>. QED BY <2>5, <2>6
<1>18. CASE Deselect
  <2>. DEFINE h == ClearActiveTrack(tm, rb.hasFix)
  <2>1. /\ rb' = rb /\ TrackHandled(h) /\ tm.loaded /\ dbFile' = dbFile
    BY <1>18 DEF Deselect, Ready
  <2>2. /\ Kept(h) /\ h.db = tm.db /\ h.loaded = tm.loaded /\ h.lines = tm.lines
        /\ h.slot = tm.slot /\ h.shownLocked = IsFinishLineLocked(h, h.active)
    BY <1>0, <2>1, GivenUpKept
  <2>3. Shown(h)
    BY <2>2 DEF Shown, IsFinishLineLocked
  <2>4. Live(rb', h)
    BY <1>0, <2>1, <2>2 DEF Live, GateFor, IsFinishLineLocked
  <2>5. tm.loaded = TRUE
    BY <2>1 DEF FitInv
  <2>. QED BY <1>02, <1>3, <1>5, <2>1, <2>2, <2>3, <2>4, <2>5
<1>19. CASE Dismiss
  <2>1. rb' = rb /\ tm' = DismissSuggestedTrack(tm, rb.hasFix) /\ dbFile' = dbFile
        /\ tm.loaded = TRUE
    BY <1>4, <1>19 DEF Dismiss, files
  <2>2. SameCourse(tm', tm)
    BY <1>0, <2>1, SuggestionKeepsCourse
  <2>. QED BY <1>0, <1>1, <1>3, <2>1, <2>2
<1>20. ASSUME NEW id \in Tracks, Favorite(id) PROVE FitInv'
  <2>. DEFINE h == ToggleFavorite(tm, id)
  <2>1. rb' = rb /\ TrackHandled(h) /\ dbFile' = dbFile /\ id \in DOMAIN tm.db
    BY <1>20 DEF Favorite
  <2>2. SameCourse(h, tm) /\ tm.loaded = TRUE /\ DOMAIN h = TrackFields
    <3>1. DOMAIN h = TrackFields
      BY <1>0 DEF ToggleFavorite, PersistUserState, TrackFields
    <3>. QED BY <1>0, <1>4, <1>6, <2>1, <3>1, OtherKeepsCourse
  <2>. HIDE DEF h
  <2>. QED BY <1>0, <1>03, <1>3, <2>1, <2>2
<1>21. ASSUME NEW stamp, SaveSession(stamp) PROVE FitInv'
  <2>1. rb' = ResetLapState(rb) /\ tm' = tm /\ dbFile' = dbFile
    BY <1>21 DEF SaveSession, ResetLapCounters
  <2>2. rb'.line = rb.line /\ rb'.gates = rb.gates /\ rb'.hasFix = rb.hasFix
    BY <1>0, <2>1 DEF ResetLapState, RaceBoxFields
  <2>. QED BY <1>0, <1>1, <1>3, <1>4, <2>1, <2>2 DEF SameCourse, Based
<1>22. CASE Refresh \/ RefreshFails
  <2>1. /\ tm' = RefreshDatabase(tm) \/ tm' = RefreshFailed(tm)
        /\ rb' = rb /\ dbFile' = dbFile /\ (tm.loaded \/ tm.refreshing)
    BY <1>22 DEF Refresh, RefreshFails, files, Ready
  <2>2. SameCourse(tm', tm)
    BY <1>0, <2>1, SuggestionKeepsCourse
  <2>3. tm.loaded = TRUE
    BY <1>4, <2>1 DEF FitInv
  <2>. QED BY <1>0, <1>1, <1>3, <2>1, <2>2, <2>3
<1>23. ASSUME NEW db \in Databases, RefreshAnswered(db) PROVE FitInv'
  <2>1. /\ rb' = rb /\ tm' = TakeDatabase(tm, db) /\ dbFile' = db /\ tm.refreshing
        /\ KeepsLines(db)
    BY <1>23 DEF RefreshAnswered, CourseKept
  <2>2. /\ tm'.lines = tm.lines /\ tm'.gates = tm.gates /\ tm'.db = db /\ tm.loaded = TRUE
        /\ tm'.loaded = TRUE /\ tm'.active = tm.active /\ tm'.slot = tm.slot
        /\ tm'.shownLocked = tm.shownLocked
    BY <1>0, <1>4, <2>1 DEF TakeDatabase, TrackFields
  <2>3. Kept(tm')
    BY <1>0, <1>00, <2>1, <2>2 DEF Kept
  <2>4. \A s \in Slots : Surveyed(db, s) = Surveyed(tm.db, s)
    BY <1>5, <2>1, <2>2 DEF KeepsLines
  <2>5. /\ IsFinishLineLocked(tm', tm'.active) = IsFinishLineLocked(tm, tm.active)
        /\ GateFor(tm', tm'.slot) = GateFor(tm, tm.slot)
    BY <1>0, <2>2, <2>3, <2>4, GateOfSlot
  <2>6. Shown(tm') /\ Live(rb', tm')
    BY <1>0, <2>1, <2>2, <2>5 DEF Shown, Live
  <2>7. FileKept
    BY <2>1 DEF FileKept
  <2>. QED BY <1>2, <2>1, <2>2, <2>3, <2>6, <2>7
<1>24. CASE Restart
  <2>1. /\ rb' = Started(userFile, sessionsFile).rb
        /\ tm' = Started(userFile, sessionsFile).tm /\ dbFile' = dbFile
    BY <1>24 DEF Restart, files
  <2>2. UserState(userFile)
    BY DEF SplitsInv, CourseKept
  <2>3. Matching(userFile.lines, userFile.gates)
    <3>1. LoadUserState(userFile) = Persisted(tm)
      BY DEF UserFileInv
    <3>2. userFile = Persisted(userFile)
      BY <2>2 DEF UserState
    <3>3. userFile = Persisted(tm)
      BY <3>1, <3>2, ReadBack
    <3>. QED BY <1>0, <3>3 DEF Persisted, Kept
  <2>4. /\ Kept(tm') /\ Live(rb', tm') /\ Shown(tm') /\ tm'.loaded = FALSE /\ Quiet(rb', tm')
    BY <2>1, <2>2, <2>3, StartedFit
  <2>. QED BY <1>3, <2>1, <2>4 DEF FitInv, FileKept
<1>25. CASE DeferredLoad
  <2>. DEFINE q == [tm EXCEPT !.loaded = TRUE,
                              !.db = IF dbFile = NoDb THEN Bundled ELSE dbFile]
              v == LatchSlot(q, tm.active)
              a == tm.active
  <2>1. /\ tm' = ActiveTrackChanged(v) /\ rb' = ApplyLine(rb, tm', tm'.active)
        /\ dbFile' = dbFile /\ tm.loaded # TRUE
    BY <1>25 DEF DeferredLoad, LoadDatabase, files, Ready
  <2>2. KeepsLines(IF dbFile = NoDb THEN Bundled ELSE dbFile)
    BY DEF FitInv, KeepsLines
  <2>3. TypedTrack(q)
    BY <1>0, TrackAssumption DEF TypedTrack, TrackFields, TrackAssumption, SplitsInv
  <2>4. /\ q.lines = tm.lines /\ q.gates = tm.gates /\ q.loaded = TRUE /\ KeepsLines(q.db)
        /\ q.active = a
    BY <1>0, <2>2 DEF TrackFields
  <2>. HIDE DEF q
  <2>5. Kept(q) /\ a \in Slots
    BY <1>0, <2>3, <2>4 DEF Kept
  <2>6. /\ Kept(v) /\ v.db = q.db /\ v.loaded = TRUE /\ v.active = a
        /\ v.lines = q.lines /\ v.gates = q.gates
    BY <2>4, <2>5, LatchKept
  <2>7. v.slot = IF FinishLineFor(q, a) = NoLine THEN q.slot ELSE SlotFor(q, a)
    BY <2>3 DEF LatchSlot, TypedTrack, TrackFields
  <2>. HIDE DEF v, a
  <2>8. /\ tm'.lines = v.lines /\ tm'.gates = v.gates /\ tm'.db = v.db /\ tm'.loaded = TRUE
        /\ tm'.active = a /\ tm'.slot = v.slot
        /\ tm'.shownLocked = IsFinishLineLocked(tm', tm'.active)
    BY <2>1, <2>6 DEF ActiveTrackChanged, Kept, TypedTrack, TrackFields, IsFinishLineLocked
  <2>9. Kept(tm')
    BY <1>00, <2>6, <2>8 DEF Kept
  <2>10. Shown(tm')
    BY <2>8 DEF Shown, IsFinishLineLocked
  <2>11. FinishLineFor(tm', a) = FinishLineFor(q, a) /\ SlotFor(tm', a) = SlotFor(q, a)
    BY <2>6, <2>8 DEF FinishLineFor, SlotFor, GateFor, IsFinishLineLocked
  <2>12. CASE FinishLineFor(q, a) # NoLine
    <3>1. Live(rb', LatchSlot(tm', a))
      BY <1>0, <2>1, <2>5, <2>8, <2>9, <2>11, <2>12, AppliedLive
    <3>2. LatchSlot(tm', a).slot = tm'.slot
      BY <1>00, <2>7, <2>8, <2>11, <2>12 DEF LatchSlot, TypedTrack, TrackFields
    <3>3. LatchSlot(tm', a).lines = tm'.lines /\ LatchSlot(tm', a).db = tm'.db
      BY <2>5, <2>9, LatchKept
    <3>4. Live(rb', tm')
      BY <3>1, <3>2, <3>3 DEF Live, GateFor, IsFinishLineLocked
    <3>. QED BY <1>2, <1>3, <2>1, <2>4, <2>6, <2>8, <2>9, <2>10, <3>4
  <2>13. CASE FinishLineFor(q, a) = NoLine
    <3>1. rb' = rb
      BY <2>1, <2>8, <2>11, <2>13 DEF ApplyLine
    <3>2. rb.line = NoLine
      <4>1. rb.line # NoLine => FinishLineFor(tm, a) # NoLine
        BY <2>1 DEF FitInv, Quiet, a
      <4>2. FinishLineFor(tm, a) = NoLine
        <5>1. GateFor(tm, a) = tm.lines[a]
          BY <1>4, <1>6, <2>1 DEF GateFor, IsFinishLineLocked
        <5>2. GateFor(q, a) = NoLine /\ q.lines[NoTrack] = NoLine
          BY <2>13 DEF FinishLineFor
        <5>3. q.lines[a] = NoLine
          BY <2>5, <5>2, GateOfSlot DEF Kept, Matching
        <5>. QED BY <2>4, <5>1, <5>2, <5>3 DEF FinishLineFor
      <4>. QED BY <4>1, <4>2
    <3>3. Live(rb', tm')
      BY <1>0, <3>1, <3>2 DEF Live
    <3>. QED BY <1>2, <1>3, <2>1, <2>4, <2>6, <2>8, <2>9, <2>10, <3>3
  <2>. QED BY <2>12, <2>13
<1>. QED BY <1>7, <1>8, <1>9, <1>10, <1>11, <1>12, <1>13, <1>14, <1>16, <1>17, <1>18, <1>19,
            <1>20, <1>21, <1>22, <1>23, <1>24, <1>25
         DEF Next, Receiver, Timers, Driver, Server

LEMMA NoneLost == ~DiskFaults /\ Spec => [](lost = {})
<1>. SUFFICES ASSUME ~DiskFaults PROVE Spec => [](lost = {})
  OBVIOUS
<1>1. Init => lost = {}
  BY DEF Init
<1>2. lost = {} /\ [Next]_vars => (lost = {})'
  <2>. SUFFICES ASSUME lost = {}, [Next]_vars PROVE lost' = {}
    OBVIOUS
  <2>1. \/ lost' \in {lost, {}} \/ (\E f : Written(f)) \/ SessionsSaved
        \/ \E w : UserStateWritten(w)
    BY DEF Next, Receiver, Timers, Driver, Server, Connection, HeadingStale, NotifyTick, Scan,
           Dismiss, Refresh, RefreshFails, RefreshAnswered, DeferredLoad, Restart, CanTick,
           CanMoves, SaveSession, RemoveSession, Data, LearnLine, ResetLine, Accept, Select,
           Deselect, Favorite, TrackHandled, vars, files
  <2>2. ASSUME NEW f, Written(f) PROVE lost' = {}
    BY <2>2 DEF Written
  <2>3. ASSUME NEW f, WriteFailed(f) PROVE FALSE
    BY <2>3 DEF WriteFailed
  <2>4. CASE SessionsSaved
    BY <2>2, <2>3, <2>4 DEF SessionsSaved
  <2>5. ASSUME NEW w, UserStateWritten(w) PROVE lost' = {}
    BY <2>2, <2>3, <2>5 DEF UserStateWritten
  <2>6. CASE lost' \in {lost, {}}
    BY <2>6
  <2>. QED BY <2>1, <2>2, <2>4, <2>5, <2>6
<1>. QED BY <1>1, <1>2, PTL DEF Spec

\* Whatever is learned, chosen, reset, refreshed or restarted: gates stay with
\* the line they were derived against, live and stored.
THEOREM FitIsInductive == CourseKept /\ Spec => []FitInv
<1>. SUFFICES ASSUME CourseKept PROVE Spec => []FitInv
  OBVIOUS
<1>1. Init => FitInv
  <2>. SUFFICES ASSUME Init PROVE FitInv
    OBVIOUS
  <2>1. /\ UserState(userFile) /\ Matching(userFile.lines, userFile.gates)
        /\ rb = Started(userFile, << >>).rb /\ tm = Started(userFile, << >>).tm
        /\ dbFile = NoDb
    BY InitialFilesAssumption DEF Init, InitialFilesAssumption, CourseKept
  <2>2. Kept(tm) /\ Live(rb, tm) /\ Shown(tm) /\ tm.loaded = FALSE /\ Quiet(rb, tm)
    BY <2>1, StartedFit
  <2>. QED BY <2>1, <2>2 DEF FitInv
<1>2. RaceInv /\ SplitsInv /\ SplitsInv' /\ UserFileInv /\ lost = {} /\ FitInv /\ [Next]_vars
        => FitInv'
  <2>. SUFFICES ASSUME RaceInv, SplitsInv, SplitsInv', UserFileInv, lost = {}, FitInv,
                       [Next]_vars
                PROVE  FitInv'
    OBVIOUS
  <2>1. CASE Next
    BY <2>1, FitStep
  <2>2. CASE UNCHANGED vars
    BY <2>2 DEF vars, files, FitInv
  <2>. QED BY <2>1, <2>2
<1>3. Spec => [](lost = {})
  BY NoneLost DEF CourseKept
<1>. QED BY <1>1, <1>2, <1>3, FilesAlwaysCurrent, RaceIsSound, LapsAreTyped, PTL DEF Spec

\* As long as the database moves no line and writes succeed, live gates fit the
\* live line (trackmodel.h:92).
THEOREM GatesAlwaysFit == CourseKept /\ Spec => []GatesFitLine
<1>1. FitInv => GatesFitLine
  BY DEF FitInv, Live, Based, GatesFitLine
<1>. QED BY <1>1, FitIsInductive, PTL

\* And gates stored under a slot fit the line they are read back with.
THEOREM StoredGatesAlwaysFit == CourseKept /\ Spec => []StoredGatesFit
<1>1. FitInv => StoredGatesFit
  BY StoredFit DEF FitInv, StoredGatesFit
<1>. QED BY <1>1, FitIsInductive, PTL
=============================================================================
