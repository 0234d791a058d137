-------------------------- MODULE TimeModel_proof --------------------------
(***************************************************************************)
(* Theorems about TimeModel, for every value of its constants.             *)
(***************************************************************************)
EXTENDS TimeModel, FiniteSetTheorems, TLAPS

Asked == [kind : {"set-ntp", "stop-ntp", "set-time", "set-timezone", "ipapi", "ip-api"},
          on : BOOLEAN, by : {"driver", "bootstrap"}, done : BOOLEAN]

\* m_busy is held by exactly one write.
OneWrite ==
    IF busy THEN \E o \in Asked : ops = {o} ELSE ops = {}

\* What a write that runs may count on: the clock is set with synchronisation off,
\* which stop-ntp leaves behind; the bootstrap runs before the driver could turn
\* synchronisation off for good.
Grounds(o) ==
    /\ o.kind = "set-time" \/ (o.kind = "stop-ntp" /\ o.done) => ~ntp
    /\ o.by = "bootstrap" => ~offByDriver

TimeInv ==
    /\ ntp \in BOOLEAN /\ busy \in BOOLEAN /\ syncEnabled \in BOOLEAN
    /\ bootstrapped \in BOOLEAN /\ offByDriver \in BOOLEAN
    /\ OneWrite
    /\ \A o \in ops : Grounds(o)
    /\ offByDriver => ~ntp /\ bootstrapped

\* What an Op is when it is asked for.
LEMMA OpAsked ==
    ASSUME NEW kind \in {"set-ntp", "stop-ntp", "set-time", "set-timezone", "ipapi", "ip-api"},
           NEW on \in BOOLEAN, NEW by \in {"driver", "bootstrap"}
    PROVE  /\ Op(kind, on, by) \in Asked
           /\ Op(kind, on, by).kind = kind /\ Op(kind, on, by).by = by
           /\ Op(kind, on, by).done = FALSE
BY DEF Op, Asked

\* A write that goes on with another, or ends, keeps to one write.
LEMMA WriteGoesOn ==
    ASSUME TimeInv, NEW o \in ops,
           UNCHANGED <<ntp, bootstrapped, offByDriver>>, syncEnabled' \in BOOLEAN,
           \/ Finishes(o)
           \/ \E next \in Asked : Continues(o, next) /\ Grounds(next)
    PROVE  TimeInv'
<1>1. ops = {o}
  BY DEF TimeInv, OneWrite
<1>2. CASE Finishes(o)
  BY <1>1, <1>2 DEF Finishes, TimeInv, OneWrite
<1>3. ASSUME NEW next \in Asked, Continues(o, next), Grounds(next)
      PROVE  TimeInv'
  BY <1>1, <1>3 DEF Continues, TimeInv, OneWrite, Grounds
<1>. QED BY <1>2, <1>3

\* A write that is asked for waits for the one that runs.
LEMMA WriteAsked ==
    ASSUME TimeInv, NEW op \in Asked, op.kind # "set-time", ~op.done, Asks(op),
           bootstrapped' \in BOOLEAN, bootstrapped => bootstrapped',
           op.by = "bootstrap" => ~offByDriver,
           UNCHANGED <<ntp, syncEnabled, offByDriver>>
    PROVE  TimeInv'
<1>1. CASE busy
  BY <1>1 DEF Asks, TimeInv, OneWrite, Grounds
<1>2. CASE ~busy
  <2>1. ops' = {op} /\ busy' = TRUE
    BY <1>2 DEF Asks, TimeInv, OneWrite
  <2>. QED BY <2>1 DEF TimeInv, OneWrite, Grounds
<1>. QED BY <1>1, <1>2

\* The answer of a write.
LEMMA WriteAnswered ==
    ASSUME TimeInv, NEW o \in ops, NEW ok \in BOOLEAN, OpAnswers(o, ok)
    PROVE  TimeInv'
<1>1. /\ UNCHANGED <<ntp, bootstrapped, offByDriver>> /\ o \in Asked /\ Grounds(o)
  BY DEF OpAnswers, system, TimeInv, OneWrite
<1>2. Op("ipapi", FALSE, o.by) \in Asked /\ Op("ip-api", FALSE, o.by) \in Asked
      /\ Op("set-timezone", FALSE, o.by) \in Asked /\ Op("set-time", FALSE, o.by) \in Asked
  <2>1. o.by \in {"driver", "bootstrap"}
    BY <1>1 DEF Asked
  <2>. QED BY <2>1, OpAsked
<1>3. Grounds(Op("ipapi", FALSE, o.by)) /\ Grounds(Op("ip-api", FALSE, o.by))
      /\ Grounds(Op("set-timezone", FALSE, o.by))
  BY <1>1 DEF Grounds, Op
<1>4. CASE o.kind = "set-ntp" /\ SetNtpDone(o, ok)
  BY <1>1, <1>2, <1>3, <1>4, WriteGoesOn DEF SetNtpDone, TimeInv
<1>5. CASE o.kind = "stop-ntp" /\ StopNtpDone(o, ok)
  <2>1. CASE ok
    <3>1. Grounds(Op("set-time", FALSE, o.by))
      BY <1>1, <1>5, <2>1 DEF OpAnswers, Grounds, Op
    <3>. QED BY <1>1, <1>2, <1>5, <2>1, <3>1, WriteGoesOn DEF StopNtpDone
  <2>2. CASE ~ok
    BY <1>1, <1>5, <2>2, WriteGoesOn DEF StopNtpDone, TimeInv
  <2>. QED BY <2>1, <2>2
<1>6. CASE o.kind = "ipapi" /\ LookupDone(o, ok)
  BY <1>1, <1>2, <1>3, <1>6, WriteGoesOn DEF LookupDone, TimeInv
<1>7. CASE o.kind = "ip-api" /\ FallbackDone(o, ok)
  BY <1>1, <1>2, <1>3, <1>7, WriteGoesOn DEF FallbackDone, TimeInv
<1>8. CASE Finishes(o) /\ UNCHANGED syncEnabled
  BY <1>1, <1>8, WriteGoesOn DEF TimeInv
<1>. QED BY <1>4, <1>5, <1>6, <1>7, <1>8 DEF OpAnswers

\* What a write does to the system.
LEMMA WriteWorks ==
    ASSUME TimeInv, NEW o \in ops, TakesEffect(o)
    PROVE  TimeInv'
<1>1. o \in Asked /\ ops = {o} /\ busy /\ Grounds(o)
  BY DEF TimeInv, OneWrite
<1>2. [o EXCEPT !.done = TRUE] \in Asked
  BY <1>1 DEF Asked
<1>3. ops' = {[o EXCEPT !.done = TRUE]} /\ busy'
  BY <1>1 DEF TakesEffect
<1>4. /\ [o EXCEPT !.done = TRUE].kind = o.kind /\ [o EXCEPT !.done = TRUE].by = o.by
  BY <1>1 DEF Asked
<1>5. ntp' \in BOOLEAN /\ offByDriver' \in BOOLEAN
      /\ UNCHANGED <<bootstrapped, syncEnabled>>
  BY <1>1 DEF TakesEffect, known, TimeInv, Asked
<1>6. OneWrite'
  BY <1>2, <1>3 DEF OneWrite
<1>7. o.kind \in {"set-time", "stop-ntp"} => ~ntp'
  BY <1>1 DEF TakesEffect, Grounds
<1>8. /\ o.by = "bootstrap" => ~offByDriver'
      /\ offByDriver' => ~ntp' /\ bootstrapped'
  BY <1>1, <1>5 DEF TakesEffect, Grounds, TimeInv, Asked
<1>9. \A p \in ops' : Grounds(p)'
  BY <1>3, <1>4, <1>7, <1>8 DEF Grounds
<1>. QED
  BY <1>3, <1>5, <1>6, <1>8, <1>9 DEF TimeInv

\* A read, and the bootstrap that a read of start() ends in.
LEMMA ReadTold ==
    ASSUME TimeInv, NEW r \in reads, NEW ok \in BOOLEAN, ReadAnswers(r, ok),
           r.saw \in BOOLEAN, linked \in BOOLEAN
    PROVE  TimeInv'
<1>1. UNCHANGED <<ntp, offByDriver>>
  BY DEF ReadAnswers, system
<1>2. PICK now \in {r.saw, Look(r.kind)} :
         \/ r.kind = "ntp" /\ NtpRead(ok, now) /\ UNCHANGED <<bootstrapped, busy, ops>>
         \/ /\ r.kind = "connectivity" /\ UNCHANGED syncEnabled
            /\ \/ MaybeBootstrap(online')
               \/ UNCHANGED <<bootstrapped, busy, ops>>
  BY DEF ReadAnswers
<1>3. now \in BOOLEAN
  BY DEF Look, TimeInv
<1>4. CASE NtpRead(ok, now) /\ UNCHANGED <<bootstrapped, busy, ops>>
  BY <1>1, <1>3, <1>4 DEF NtpRead, TimeInv, OneWrite, Grounds
<1>5. CASE UNCHANGED <<syncEnabled, bootstrapped, busy, ops>>
  BY <1>1, <1>5 DEF TimeInv, OneWrite, Grounds
<1>6. CASE MaybeBootstrap(online') /\ UNCHANGED syncEnabled
  <2>1. CASE UNCHANGED <<bootstrapped, busy, ops>>
    BY <1>5, <1>6, <2>1
  <2>2. CASE ~bootstrapped /\ bootstrapped' = TRUE /\ UNCHANGED <<busy, ops>>
    BY <1>1, <1>6, <2>2 DEF TimeInv, OneWrite, Grounds
  <2>3. CASE ~bootstrapped /\ bootstrapped' = TRUE /\ SetSyncEnabled(TRUE, "bootstrap")
    <3>1. ~offByDriver
      BY <2>3 DEF TimeInv
    <3>. QED BY <1>1, <1>6, <2>3, <3>1, OpAsked, WriteAsked DEF SetSyncEnabled
  <2>. QED BY <1>6, <2>1, <2>2, <2>3 DEF MaybeBootstrap
<1>. QED BY <1>2, <1>4, <1>5, <1>6

\* A tap of the driver.
LEMMA Tapped ==
    ASSUME TimeInv, NEW op \in Asked, op.kind # "set-time", ~op.done, op.by = "driver",
           Tap(op)
    PROVE  TimeInv'
BY WriteAsked DEF Tap, system, known, TimeInv

\* What a read carries, and what it looks at.
ReadsTyped ==
    linked \in BOOLEAN /\ \A r \in reads : r.saw \in BOOLEAN

LEMMA ReadAdded ==
    ASSUME NEW kind, NEW next, NEW running, \A r \in running : r.saw \in BOOLEAN,
           ntp \in BOOLEAN, linked \in BOOLEAN
    PROVE  \A r \in Read(kind, next, running) : r.saw \in BOOLEAN
BY DEF Read, Look

LEMMA ReadsStep ==
    ASSUME TimeInv, ReadsTyped, [Next]_vars
    PROVE  ReadsTyped'
<1>. USE DEF ReadsTyped
<1>0. ntp \in BOOLEAN
  BY DEF TimeInv
<1>1. ASSUME NEW r \in reads, NEW ok \in BOOLEAN, ReadAnswers(r, ok)
      PROVE  ReadsTyped'
  <2>1. UNCHANGED linked
    BY <1>1 DEF ReadAnswers, system
  <2>2. reads' = reads \ {r} \/ reads' = Read(r.next, "bootstrap", reads \ {r})
    BY <1>1 DEF ReadAnswers
  <2>. QED BY <1>0, <2>1, <2>2, ReadAdded
<1>2. ASSUME NEW o \in ops, NEW ok \in BOOLEAN, OpAnswers(o, ok)
      PROVE  ReadsTyped'
  <2>1. UNCHANGED linked
    BY <1>2 DEF OpAnswers, system
  <2>2. UNCHANGED reads \/ reads' = Read("ntp", "none", reads)
    BY <1>2 DEF OpAnswers, SetNtpDone, StopNtpDone, LookupDone, FallbackDone
  <2>. QED BY <1>0, <2>1, <2>2, ReadAdded
<1>3. CASE \E o \in ops : TakesEffect(o)
  BY <1>3 DEF TakesEffect
<1>4. CASE Acquire \/ Tick
  <2>1. UNCHANGED linked
    BY <1>4 DEF Acquire, Tick, system
  <2>2. reads' = Read("connectivity", "none", Read("ntp", "none", reads))
    BY <1>4 DEF Acquire, Tick, RefreshStatus
  <2>3. \A r \in Read("ntp", "none", reads) : r.saw \in BOOLEAN
    BY <1>0, ReadAdded
  <2>. QED BY <1>0, <2>1, <2>2, <2>3, ReadAdded
<1>5. CASE Release \/ ToggleSync \/ SetTimezone \/ ApplyDateTime
  BY <1>5 DEF Release, ToggleSync, SetTimezone, ApplyDateTime, Tap, system
<1>6. CASE LinkChanges
  BY <1>6 DEF LinkChanges
<1>7. CASE PowerCut
  <2>1. UNCHANGED linked
    BY <1>7 DEF PowerCut, system
  <2>2. reads' = Read("ntp", "connectivity", {})
    BY <1>7 DEF PowerCut
  <2>. QED BY <1>0, <2>1, <2>2, ReadAdded
<1>8. CASE UNCHANGED vars
  BY <1>8 DEF vars, system
<1>. QED BY <1>1, <1>2, <1>3, <1>4, <1>5, <1>6, <1>7, <1>8 DEF Next, Driver

\* Every step keeps the invariant.
LEMMA TimeStep ==
    ASSUME TimeInv, ReadsTyped, [Next]_vars
    PROVE  TimeInv'
<1>1. CASE Acquire \/ Release \/ Tick \/ LinkChanges
  <2>1. UNCHANGED <<ntp, bootstrapped, syncEnabled, busy, ops, offByDriver>>
    BY <1>1 DEF Acquire, Release, Tick, LinkChanges, system, known
  <2>. QED BY <2>1 DEF TimeInv, OneWrite, Grounds
<1>2. CASE ToggleSync
  <2>1. Op("set-ntp", ~syncEnabled, "driver") \in Asked
    BY OpAsked DEF TimeInv
  <2>. QED BY <1>2, <2>1, Tapped DEF ToggleSync, Op
<1>3. CASE SetTimezone
  <2>1. Op("set-timezone", FALSE, "driver") \in Asked
    BY OpAsked
  <2>. QED BY <1>3, <2>1, Tapped DEF SetTimezone, Op
<1>4. CASE ApplyDateTime
  <2>1. Op("stop-ntp", FALSE, "driver") \in Asked
    BY OpAsked
  <2>. QED BY <1>4, <2>1, Tapped DEF ApplyDateTime, Op
<1>5. CASE PowerCut
  BY <1>5 DEF PowerCut, system, TimeInv, OneWrite
<1>6. CASE \E r \in reads, ok \in BOOLEAN : ReadAnswers(r, ok)
  BY <1>6, ReadTold DEF ReadsTyped
<1>7. CASE \E o \in ops : TakesEffect(o)
  BY <1>7, WriteWorks
<1>8. CASE \E o \in ops, ok \in BOOLEAN : OpAnswers(o, ok)
  BY <1>8, WriteAnswered
<1>9. CASE UNCHANGED vars
  BY <1>9 DEF vars, system, known, TimeInv, OneWrite, Grounds
<1>. QED
  BY <1>1, <1>2, <1>3, <1>4, <1>5, <1>6, <1>7, <1>8, <1>9 DEF Next, Driver

\* The invariant behind the next two.
THEOREM TimeIsSound == Spec => [](TimeInv /\ ReadsTyped)
<1>1. Init => TimeInv /\ ReadsTyped
  <2>. SUFFICES ASSUME Init PROVE TimeInv /\ ReadsTyped
    OBVIOUS
  <2>1. TimeInv
    BY DEF Init, TimeInv, OneWrite
  <2>. QED BY <2>1, ReadAdded DEF Init, ReadsTyped
<1>2. TimeInv /\ ReadsTyped /\ [Next]_vars => (TimeInv /\ ReadsTyped)'
  BY TimeStep, ReadsStep
<1>. QED BY <1>1, <1>2, PTL DEF Spec

\* One write runs while m_busy is set and none while it is not; the clock is set with
\* synchronisation off (timemodel.cpp:267), for any number of reads that overlap.
THEOREM WritesStayApart == Spec => []WritesApart
<1>1. TimeInv => WritesApart
  <2>. SUFFICES ASSUME TimeInv PROVE WritesApart
    OBVIOUS
  <2>1. Cardinality(ops) = IF busy THEN 1 ELSE 0
    BY FS_EmptySet, FS_Singleton DEF TimeInv, OneWrite
  <2>. QED BY <2>1 DEF WritesApart, TimeInv, Grounds
<1>. QED BY <1>1, TimeIsSound, PTL

\* What the driver turned off after the bootstrap stays off (timemodel.cpp:353), over
\* any number of reboots, taps and failures.
THEOREM OffStaysOff == Spec => []LaterOffStays
<1>1. TimeInv => LaterOffStays
  BY DEF TimeInv, LaterOffStays
<1>. QED BY <1>1, TimeIsSound, PTL
=============================================================================
