------------------------------ MODULE TimeModel ------------------------------
(***************************************************************************)
(* device/timemodel.*: the clock's settings as the dash reads and writes   *)
(* them through timedatectl, the zone it looks up from its address, and    *)
(* the one bootstrap of a new dash. Reads overlap with each other and with *)
(* the one write that may run; a power cut ends both anywhere. With it the *)
(* page (TimeZoneDetail.qml), and what timedatectl and NetworkManager keep.*)
(***************************************************************************)
EXTENDS Integers, FiniteSets

CONSTANTS
    MaxReads,  \* bound: reads of one kind that run at once
    MaxMoves,  \* bound: taps, links that come or go, reads that fail
    MaxBoots   \* bound: power cuts

ASSUME TimeAssumption ==
    /\ MaxReads \in Nat \ {0} /\ MaxMoves \in Nat /\ MaxBoots \in Nat

VARIABLES
    ntp, linked,       \* what timedatectl and NetworkManager have
    bootstrapped,      \* Time/Bootstrapped in time.conf
    syncEnabled,       \* m_syncEnabled
    online,            \* m_online
    busy,              \* m_busy
    refs,              \* m_activeRefs
    reads,             \* timedatectl show and nmcli calls that run
    ops,               \* timedatectl writes and look-ups that run
    offByDriver,       \* history: turned off by hand after the bootstrap, not on since
    moves, boots

system == <<ntp, linked>>
known == <<syncEnabled, online>>
vars == <<system, bootstrapped, known, busy, refs, reads, ops, offByDriver, moves, boots>>

\* What a read finds. next: what a read of start() is chained to. n tells apart
\* reads that are otherwise the same.
Look(kind) == IF kind = "ntp" THEN ntp ELSE linked
OfKind(kind, running) == {r \in running : r.kind = kind}
Read(kind, next, running) ==
    LET Nth(n) == [kind |-> kind, next |-> next, saw |-> Look(kind), n |-> n]
    IN  running \cup {Nth(CHOOSE n \in 0 .. Cardinality(running) : Nth(n) \notin running)}

\* by: who asked. done: the write has taken effect, its answer has not come.
Op(kind, on, by) == [kind |-> kind, on |-> on, by |-> by, done |-> FALSE]

\* start() chains the bootstrap to one read of each kind.
Init ==
    /\ ntp \in BOOLEAN /\ linked \in BOOLEAN
    /\ bootstrapped = FALSE
    /\ syncEnabled = FALSE /\ online = FALSE /\ busy = FALSE /\ refs = 0
    /\ reads = Read("ntp", "connectivity", {}) /\ ops = {}
    /\ offByDriver = FALSE /\ moves = 0 /\ boots = 0

Spends(counted) ==
    IF counted THEN moves < MaxMoves /\ moves' = moves + 1 ELSE UNCHANGED moves

----------------------------------------------------------------------------
\* The write that ran is over; another begins, or none.
Continues(o, next) == ops' = (ops \ {o}) \cup {next} /\ busy' = TRUE
Finishes(o) == ops' = ops \ {o} /\ busy' = FALSE

\* MUTANT: a second write does not wait for the first.
Asks_AtOnce(op) == busy' = TRUE /\ ops' = ops \cup {op}

\* Every public write returns at once while m_busy.
Asks(op) ==
    IF busy THEN UNCHANGED <<busy, ops>>
    ELSE busy' = TRUE /\ ops' = ops \cup {op}

SetSyncEnabled(on, by) == Asks(Op("set-ntp", on, by))

\* MUTANT: the bootstrap is not remembered.
MaybeBootstrap_EachStart(onlineNow) ==
    IF ~onlineNow THEN UNCHANGED <<bootstrapped, busy, ops>>
    ELSE /\ bootstrapped' = TRUE
         /\ IF syncEnabled THEN UNCHANGED <<busy, ops>>
            ELSE SetSyncEnabled(TRUE, "bootstrap")

MaybeBootstrap(onlineNow) ==
    IF bootstrapped \/ ~onlineNow THEN UNCHANGED <<bootstrapped, busy, ops>>
    ELSE /\ bootstrapped' = TRUE
         /\ IF syncEnabled THEN UNCHANGED <<busy, ops>>
            ELSE SetSyncEnabled(TRUE, "bootstrap")

\* refreshNtpState() keeps what it had when the read failed; refreshConnectivity()
\* does not.
NtpRead(ok, now) == syncEnabled' = IF ok THEN now ELSE syncEnabled
ConnectivityRead(ok, now) == online' = (ok /\ now)

\* A read tells of the moment it began or of one since, and may be overtaken.
ReadAnswers(r, ok) ==
    \E now \in {r.saw, Look(r.kind)} :
        /\ \/ /\ r.kind = "ntp" /\ NtpRead(ok, now)
              /\ reads' = IF r.next = "none" THEN reads \ {r}
                          ELSE Read(r.next, "bootstrap", reads \ {r})
              /\ UNCHANGED <<online, bootstrapped, busy, ops>>
           \/ /\ r.kind = "connectivity" /\ ConnectivityRead(ok, now)
              /\ reads' = reads \ {r}
              /\ IF r.next = "bootstrap" THEN MaybeBootstrap(online')
                 ELSE UNCHANGED <<bootstrapped, busy, ops>>
              /\ UNCHANGED syncEnabled
        /\ Spends(~ok)
        /\ UNCHANGED <<system, refs, offByDriver, boots>>

----------------------------------------------------------------------------
\* What a write does to the system, once it does it. set-time is refused while
\* synchronisation is on; a look-up needs the net.
TakesEffect(o) ==
    /\ ~o.done
    /\ o.kind = "set-time" => ~ntp
    /\ o.kind \in {"ipapi", "ip-api"} => linked
    /\ ntp' = IF o.kind = "set-ntp" THEN o.on
              ELSE IF o.kind = "stop-ntp" THEN FALSE ELSE ntp
    /\ offByDriver' =
           IF o.by = "driver" /\ o.kind \in {"set-ntp", "stop-ntp"}
           THEN ~ntp' /\ (bootstrapped \/ offByDriver) ELSE offByDriver
    /\ ops' = (ops \ {o}) \cup {[o EXCEPT !.done = TRUE]}
    /\ UNCHANGED <<linked, bootstrapped, known, busy, refs, reads, moves, boots>>

\* setSyncEnabled(): read back, and look the zone up when it was turned on.
SetNtpDone(o, ok) ==
    /\ reads' = IF ok THEN Read("ntp", "none", reads) ELSE reads
    /\ IF ok /\ o.on /\ online THEN Continues(o, Op("ipapi", FALSE, o.by))
       ELSE Finishes(o)
    /\ UNCHANGED syncEnabled

\* applyDateTime(): the clock is set after synchronisation is off.
StopNtpDone(o, ok) ==
    /\ IF ok THEN /\ syncEnabled' = FALSE
                  /\ Continues(o, Op("set-time", FALSE, o.by))
       ELSE Finishes(o) /\ UNCHANGED syncEnabled
    /\ UNCHANGED reads

\* MUTANT: the second look-up that fails is nobody's end.
FallbackDone_StaysBusy(o, ok) ==
    /\ IF ok THEN Continues(o, Op("set-timezone", FALSE, o.by))
       ELSE ops' = ops \ {o} /\ UNCHANGED busy
    /\ UNCHANGED <<reads, syncEnabled>>

\* fetchTimezoneFrom(), of the first service and of the second.
LookupDone(o, ok) ==
    /\ IF ok THEN Continues(o, Op("set-timezone", FALSE, o.by))
       ELSE Continues(o, Op("ip-api", FALSE, o.by))
    /\ UNCHANGED <<reads, syncEnabled>>

FallbackDone(o, ok) ==
    /\ IF ok THEN Continues(o, Op("set-timezone", FALSE, o.by))
       ELSE Finishes(o)
    /\ UNCHANGED <<reads, syncEnabled>>

\* The callback. A call that was killed by its timeout may have taken effect.
OpAnswers(o, ok) ==
    /\ ok => o.done
    /\ \/ o.kind = "set-ntp" /\ SetNtpDone(o, ok)
       \/ o.kind = "stop-ntp" /\ StopNtpDone(o, ok)
       \/ o.kind = "ipapi" /\ LookupDone(o, ok)
       \/ o.kind = "ip-api" /\ FallbackDone(o, ok)
       \/ /\ o.kind \in {"set-time", "set-timezone"} /\ Finishes(o)
          /\ UNCHANGED <<reads, syncEnabled>>
    /\ UNCHANGED <<system, bootstrapped, online, refs, offByDriver, moves, boots>>

----------------------------------------------------------------------------
RefreshStatus == reads' = Read("connectivity", "none", Read("ntp", "none", reads))

Acquire ==
    /\ refs = 0 /\ refs' = 1
    /\ \A kind \in {"ntp", "connectivity"} : Cardinality(OfKind(kind, reads)) < MaxReads
    /\ RefreshStatus
    /\ UNCHANGED <<system, bootstrapped, known, busy, ops, offByDriver, moves, boots>>

Release ==
    /\ refs = 1 /\ refs' = 0
    /\ UNCHANGED <<system, bootstrapped, known, busy, reads, ops, offByDriver, moves,
                   boots>>

\* Every fifth second of the timer.
Tick ==
    /\ refs > 0
    /\ \A kind \in {"ntp", "connectivity"} : Cardinality(OfKind(kind, reads)) < MaxReads
    /\ RefreshStatus
    /\ UNCHANGED <<system, bootstrapped, known, busy, refs, ops, offByDriver, moves,
                   boots>>

Tap(op) ==
    /\ refs > 0 /\ Spends(TRUE)
    /\ Asks(op)
    /\ UNCHANGED <<system, bootstrapped, known, refs, reads, offByDriver, boots>>

\* The toggle, and what shows while the clock is not both synchronised and online.
ToggleSync == Tap(Op("set-ntp", ~syncEnabled, "driver"))
ByHand == ~syncEnabled \/ ~online
SetTimezone == ByHand /\ Tap(Op("set-timezone", FALSE, "driver"))
ApplyDateTime == ByHand /\ Tap(Op("stop-ntp", FALSE, "driver"))

LinkChanges ==
    /\ linked' = ~linked /\ Spends(TRUE)
    /\ UNCHANGED <<ntp, bootstrapped, known, busy, refs, reads, ops, offByDriver,
                   boots>>

\* The ignition. What runs is cut short, done or not.
PowerCut ==
    /\ boots < MaxBoots /\ boots' = boots + 1
    /\ syncEnabled' = FALSE /\ online' = FALSE /\ busy' = FALSE /\ refs' = 0
    /\ reads' = Read("ntp", "connectivity", {}) /\ ops' = {}
    /\ UNCHANGED <<system, bootstrapped, offByDriver, moves>>

Driver ==
    Acquire \/ Release \/ ToggleSync \/ SetTimezone \/ ApplyDateTime

Next ==
    \/ Driver \/ Tick \/ LinkChanges \/ PowerCut
    \/ \E r \in reads, ok \in BOOLEAN : ReadAnswers(r, ok)
    \/ \E o \in ops : TakesEffect(o) \/ \E ok \in BOOLEAN : OpAnswers(o, ok)

Spec == Init /\ [][Next]_vars

\* Every call is answered or killed by its timeout, the timer of an open page fires.
FairSpec ==
    /\ Spec
    /\ WF_vars(\E r \in reads, ok \in BOOLEAN : ReadAnswers(r, ok))
    /\ WF_vars(\E o \in ops, ok \in BOOLEAN : OpAnswers(o, ok))
    /\ WF_vars(Tick)

----------------------------------------------------------------------------
\* One write at a time, whoever asked for it, and m_busy as long as it takes: so
\* the clock is never set while synchronisation, which makes timedatectl refuse it
\* (timemodel.cpp:267), is on.
WritesApart ==
    /\ Cardinality(ops) = IF busy THEN 1 ELSE 0
    /\ \A o \in ops : o.kind = "set-time" => ~ntp

\* The bootstrap "can't fight a user who later turns it off" (timemodel.cpp:353):
\* what the driver turned off after it stays off, over reboots, failed or late
\* reads and links that come and go, until the driver turns it on.
LaterOffStays == offByDriver => ~ntp

\* The page of an open settings screen ends up showing what timedatectl and
\* NetworkManager have, its controls released, once they change no more: whatever
\* read came late or failed, whichever step of a write did.
PageCatchesUp ==
    <>[](refs > 0) => <>[](syncEnabled = ntp /\ online = linked /\ ~busy)
=============================================================================
