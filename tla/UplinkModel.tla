---------------------------- MODULE UplinkModel ----------------------------
(***************************************************************************)
(* src/cloud/uplinkmodel.{h,cpp} composed with the spool, the MQTT client, *)
(* the stored configuration (cloudconfig.cpp), the lap timer as far as the *)
(* uplink sees it (raceboxmodel.cpp), and the process that holds them      *)
(* (main.cpp): boot, first frame, quit and power cut.                      *)
(*                                                                         *)
(* Everything here runs on the Qt main thread, so each slot is one atomic  *)
(* step; the network thread and the broker step in between (Network).      *)
(* Signals are direct connections, so a step contains the slots they call. *)
(***************************************************************************)
EXTENDS UplinkSpool, MosquittoCloudClient

CONSTANTS
    MaxSessions,  \* bound: sessions opened
    MaxSeq,       \* bound: frames per session
    MaxEdits,     \* bound: changes made on the settings page
    MaxRestarts   \* bound: times the process ends

ASSUME UplinkAssumption ==
    /\ MaxSessions \in Nat /\ MaxSeq \in Nat
    /\ MaxEdits \in Nat /\ MaxRestarts \in Nat

VARIABLES
    proc,          \* "off", "boot" (constructed), "up" (m_started), "quit"
    config,        \* cloud.conf: [enabled, car, cred]
    state,         \* m_state
    sessionActive, \* m_sessionActive
    sid,           \* m_sid; 0 is the empty string
    seq,           \* m_seq
    drain,         \* m_drain: [active, mid, lastId]
    sampling,      \* m_sampleTimer.isActive()
    queued,        \* m_queuedFrames
    timerRunning,  \* RaceBoxModel::m_lapTimerRunning
    timerSeen,     \* m_lastLapTimerState = Running
    sids,          \* session ids minted so far
    edits,         \* settings changed so far
    restarts       \* process ends so far

modelVars == <<state, sessionActive, sid, seq, drain, sampling, queued>>
timerVars == <<timerRunning, timerSeen>>
boundVars == <<sids, edits, restarts>>
vars == <<spoolVars, clientVars, proc, config, modelVars, timerVars, boundVars>>

----------------------------------------------------------------------------
States == {"Disabled", "Unconfigured", "Connecting", "Online", "Offline"}

NoDrain == [active |-> FALSE, mid |-> NoMid, lastId |-> -1]

\* CloudConfig::configured(); `cred` is hasPassword(), and the broker's host,
\* which nothing can empty once it is set, is taken as set.
Configured(c) == c.car # NoCar /\ c.cred

\* A session event or telemetry frame of the current session.
Message(kind, s, n) == [car |-> config.car, kind |-> kind, sid |-> s, seq |-> n]

\* updateSampling(), given the inputs after the step.
SamplingWanted(started, active, c) ==
    started /\ active /\ c.enabled /\ Configured(c)

\* The event loop runs, so slots do.
Looping == proc \in {"boot", "up"}

\* MUTANT: a lost link does not show.
AfterLinkLost_StillOnline == state

\* onClientDisconnected(): only a link that was Online degrades to Offline.
AfterLinkLost ==
    IF state = "Online" /\ config.enabled /\ Configured(config)
    THEN "Offline" ELSE state

\* refreshQueuedFrames(), after the step's change to the spool.
Refresh == queued' = IF db' = "open" THEN rowCount' ELSE 0

----------------------------------------------------------------------------
\* dispatch(): live when connected and not draining, else into the spool;
\* a live publish that is refused goes into the spool too.
Dispatch(m, qos) ==
    LET live == connected /\ ~drain.active
    IN  \/ /\ live
           /\ \E mid \in Mids \ {NoMid} : Publish({m}, qos, connected, mid)
           /\ UNCHANGED <<spoolVars, queued>>
        \/ /\ IF live THEN Publish({m}, qos, connected, NoMid) ELSE Unpublished
           /\ AppendRow(m) /\ Refresh

\* A main-thread step that touches the client only through publish().
ClientAfterPublish == UNCHANGED <<mainVars, hops, link, drops, cloud>>

----------------------------------------------------------------------------
\* MUTANT: the whole run is released though one session event was published.
LastAcked_WholeRun(telemetry, first, last) == last.id

\* m_drain.lastId: what the PUBACK of the batch will release.
LastAcked(telemetry, first, last) == IF telemetry THEN last.id ELSE first.id

\* drainNext() on the table S: publish the leading run as one backfill batch,
\* or its first row alone when it is not telemetry of the current device.
\* Nothing is released here.  `shown` is m_queuedFrames so far.
DrainNext(S, shown) ==
    \/ /\ S = {} \/ "peek" \in SqlFaults
       /\ drain' = NoDrain
       /\ Refresh /\ Unpublished
    \/ \E first, last \in PeekRun(S) :
          /\ \A r \in PeekRun(S) : first.id <= r.id /\ r.id <= last.id
          /\ LET telemetry == first.kind = "frame" /\ first.car = config.car
                 batch == IF telemetry THEN PeekRun(S) ELSE {first}
             IN  \E mid \in Mids :
                   /\ Publish({Msg(r) : r \in batch}, 1, TRUE, mid)
                   /\ drain' = IF mid = NoMid
                               THEN NoDrain
                               ELSE [active |-> TRUE, mid |-> mid,
                                     lastId |-> LastAcked(telemetry, first, last)]
          /\ queued' = shown

\* handleConnect(0) and onClientConnected().
ClientConnected ==
    /\ Looping
    /\ HandleConnect(Accepted)
    /\ state' = "Online"
    /\ UNCHANGED spoolVars
    /\ IF SpoolCount > 0
       THEN DrainNext(rows, queued)
       ELSE drain' = NoDrain /\ Unpublished /\ UNCHANGED queued
    /\ UNCHANGED <<proc, config, sessionActive, sid, seq, sampling, timerVars,
                   boundVars>>

\* handleConnect(rc) for a refusal, and onClientError().
ClientError ==
    /\ Looping
    /\ HandleConnect(Refused)
    /\ Unpublished
    /\ state' = IF ~config.enabled THEN state
                ELSE IF Configured(config) THEN "Offline" ELSE "Unconfigured"
    /\ UNCHANGED <<spoolVars, proc, config, sessionActive, sid, seq, drain,
                   sampling, queued, timerVars, boundVars>>

\* handleDisconnect() and, for a link that was up, onClientDisconnected().
ClientDisconnected ==
    /\ Looping
    /\ HandleDisconnect
    /\ drain' = IF connected THEN NoDrain ELSE drain
    /\ state' = IF connected THEN AfterLinkLost ELSE state
    /\ UNCHANGED <<spoolVars, proc, config, sessionActive, sid, seq, sampling,
                   queued, timerVars, boundVars>>

IsBatchAck(mid) == drain.active /\ mid = drain.mid

\* handlePublish() and onClientPublished(): the PUBACK of the batch in flight
\* releases its rows and sends the next batch; any other id is ignored.
ClientPublished ==
    /\ Looping
    /\ hops # <<>>
    /\ HandlePublish(Head(hops).arg)
    /\ IF IsBatchAck(Head(hops).arg)
       THEN /\ ReleaseThrough(drain.lastId)
            /\ IF connected
               THEN DrainNext(rows', IF db' = "open" THEN rowCount' ELSE 0)
               ELSE Refresh /\ UNCHANGED drain /\ Unpublished
       ELSE UNCHANGED <<spoolVars, drain, queued>> /\ Unpublished
    /\ UNCHANGED <<proc, config, state, sessionActive, sid, seq, sampling,
                   timerVars, boundVars>>

StaleHop ==
    /\ Looping
    /\ DropStaleHop
    /\ UNCHANGED <<spoolVars, proc, config, modelVars, timerVars, boundVars>>

----------------------------------------------------------------------------
\* beginSession(), endSession(), and the slots that call them.
BeginSession ==
    /\ sids < MaxSessions
    /\ sids' = sids + 1
    /\ sid' = sids + 1 /\ seq' = 0
    /\ sessionActive' = TRUE
    /\ sampling' = SamplingWanted(proc = "up", TRUE, config)
    /\ Dispatch(Message("start", sids + 1, 0), 1)
    /\ UNCHANGED drain

\* MUTANT: closing a session leaves the sampler running.
EndSession_StillSampling ==
    /\ Dispatch(Message("stop", sid, 0), 1)
    /\ sessionActive' = FALSE
    /\ UNCHANGED <<sids, sid, seq, drain, sampling>>

EndSession ==
    /\ Dispatch(Message("stop", sid, 0), 1)
    /\ sessionActive' = FALSE
    /\ sampling' = FALSE
    /\ UNCHANGED <<sids, sid, seq, drain>>

NoSessionChange ==
    UNCHANGED <<spoolVars, sids, sid, seq, sessionActive, sampling, drain,
                queued>> /\ Unpublished

\* The 100 ms notification tick: emitNotifications() compares the lap timer
\* with the state it last reported, and onLapTimerStateChanged() follows.
NotifyTick ==
    /\ Looping
    /\ timerRunning # timerSeen
    /\ timerSeen' = timerRunning
    /\ \/ timerRunning /\ ~sessionActive /\ config.enabled /\ BeginSession
       \/ timerRunning /\ (sessionActive \/ ~config.enabled) /\ NoSessionChange
       \/ ~timerRunning /\ sessionActive /\ EndSession
       \/ ~timerRunning /\ ~sessionActive /\ NoSessionChange
    /\ UNCHANGED <<proc, config, state, timerRunning, edits, restarts>>
    /\ ClientAfterPublish

\* A finish-line crossing starts the lap timer; clearing the line stops it.
CrossLine ==
    /\ Looping /\ ~timerRunning
    /\ timerRunning' = TRUE
    /\ UNCHANGED <<spoolVars, clientVars, proc, config, modelVars, timerSeen,
                   boundVars>>

ClearLine ==
    /\ Looping /\ timerRunning
    /\ timerRunning' = FALSE
    /\ UNCHANGED <<spoolVars, clientVars, proc, config, modelVars, timerSeen,
                   boundVars>>

\* sessionSaved: RaceBoxModel::resetLapCounters(), then onSessionSaved().  A save
\* needs recorded laps, not a running timer.
SaveSession ==
    /\ Looping /\ (timerRunning \/ sessionActive)
    /\ timerRunning' = FALSE
    /\ IF sessionActive THEN EndSession ELSE NoSessionChange
    /\ UNCHANGED <<proc, config, state, timerSeen, edits, restarts>>
    /\ ClientAfterPublish

\* MUTANT: the sequence number advances only for frames that went out live.
SampleTick_LiveSeq ==
    /\ sampling
    /\ sessionActive /\ config.enabled
    /\ seq < MaxSeq
    /\ Dispatch(Message("frame", sid, seq), 0)
    /\ seq' = IF nextId' = nextId THEN seq + 1 ELSE seq
    /\ UNCHANGED <<proc, config, state, sessionActive, sid, drain, sampling,
                   timerVars, boundVars>>
    /\ ClientAfterPublish

\* onSampleTick()
SampleTick ==
    /\ sampling
    /\ sessionActive /\ config.enabled
    /\ seq < MaxSeq
    /\ Dispatch(Message("frame", sid, seq), 0)
    /\ seq' = seq + 1
    /\ UNCHANGED <<proc, config, state, sessionActive, sid, drain, sampling,
                   timerVars, boundVars>>
    /\ ClientAfterPublish

----------------------------------------------------------------------------
\* MUTANT: an app-initiated disconnect is silent.
AfterDisconnect_Silent(drained) == drain' = drained

\* applyConfiguration() with configuration c, for a started model.  `drained`
\* is the drain state the caller leaves behind; disconnected() resets it when
\* the link was up.
AfterDisconnect(drained) == drain' = IF connected THEN NoDrain ELSE drained

SwitchOff(drained) ==
    /\ ShutdownLink
    /\ AfterDisconnect(drained)
    /\ sampling' = FALSE
    /\ state' = "Disabled"

ApplyEnabled(c) ==
    /\ Open /\ Refresh
    /\ sampling' = SamplingWanted(TRUE, sessionActive, c)
    /\ \/ /\ ~Configured(c)
          /\ state' = "Unconfigured"
          /\ UNCHANGED <<clientVars, drain>>
       \/ /\ Configured(c)
          /\ \/ ConnectToBroker /\ state' = "Connecting"
             \/ ConnectToBrokerFails /\ state' = "Offline"
          /\ AfterDisconnect(drain)

ApplyConfiguration(c) ==
    /\ IF c.enabled
       THEN ApplyEnabled(c)
       ELSE SwitchOff(drain) /\ UNCHANGED <<spoolVars, queued>>
    /\ UNCHANGED <<sessionActive, sid, seq>>

\* start(), off the first frameSwapped.
Start ==
    /\ proc = "boot"
    /\ proc' = "up"
    /\ ApplyConfiguration(config)
    /\ UNCHANGED <<config, timerVars, boundVars>>

\* The settings page changes one field and applies it.
ConfigEdits ==
    {[config EXCEPT !.enabled = ~@], [config EXCEPT !.cred = TRUE]}
    \cup {[config EXCEPT !.car = c] : c \in Cars}

EditConfig ==
    /\ proc = "up"
    /\ edits < MaxEdits /\ edits' = edits + 1
    /\ config' \in ConfigEdits
    /\ ApplyConfiguration(config')
    /\ UNCHANGED <<proc, timerVars, sids, restarts>>

\* MUTANT: unpairing keeps the backlog.
Unpair_KeepsBacklog ==
    /\ proc = "up" /\ config.cred
    /\ edits < MaxEdits /\ edits' = edits + 1
    /\ config' = [config EXCEPT !.cred = FALSE, !.enabled = FALSE]
    /\ sessionActive' = FALSE /\ sid' = 0 /\ seq' = 0
    /\ SwitchOff(NoDrain)
    /\ UNCHANGED <<spoolVars, queued, proc, timerVars, sids, restarts>>

\* unpair(): clearPassword(), setEnabled(false), clearSpool(), and
\* applyConfiguration() on what is left.
Unpair ==
    /\ proc = "up" /\ config.cred
    /\ edits < MaxEdits /\ edits' = edits + 1
    /\ config' = [config EXCEPT !.cred = FALSE, !.enabled = FALSE]
    /\ Clear /\ Refresh
    /\ sessionActive' = FALSE /\ sid' = 0 /\ seq' = 0
    /\ SwitchOff(NoDrain)
    /\ UNCHANGED <<proc, timerVars, sids, restarts>>

----------------------------------------------------------------------------
\* main(): the models are constructed over the stored configuration.
Constructed(c) ==
    IF ~c.enabled THEN "Disabled"
    ELSE IF Configured(c) THEN "Connecting" ELSE "Unconfigured"

Boot ==
    /\ proc = "off"
    /\ proc' = "boot"
    /\ state' = Constructed(config)
    /\ UNCHANGED <<spoolVars, clientVars, config, sessionActive, sid, seq,
                   drain, sampling, queued, timerVars, boundVars>>

\* Everything in memory is gone.
ProcessEnds ==
    /\ proc' = "off"
    /\ ClientGone
    /\ state' = "Disabled"
    /\ sessionActive' = FALSE /\ sid' = 0 /\ seq' = 0 /\ drain' = NoDrain
    /\ sampling' = FALSE /\ queued' = 0
    /\ timerRunning' = FALSE /\ timerSeen' = FALSE
    /\ UNCHANGED <<config, sids, edits>>

\* shutdown(), on aboutToQuit: an open session gets its stop row, straight into
\* the spool, and the link is dropped.  The event loop has ended.
Shutdown ==
    /\ Looping
    /\ restarts < MaxRestarts /\ restarts' = restarts + 1
    /\ proc' = "quit"
    /\ IF proc = "up"
       THEN /\ IF sessionActive
               THEN AppendRow(Message("stop", sid, 0)) /\ Refresh
               ELSE UNCHANGED <<spoolVars, queued>>
            /\ sessionActive' = FALSE /\ sampling' = FALSE
            /\ ShutdownLink
            /\ AfterDisconnect(drain)
            /\ state' = IF connected THEN AfterLinkLost ELSE state
       ELSE UNCHANGED <<spoolVars, clientVars, queued, sessionActive, sampling,
                        drain, state>>
    /\ UNCHANGED <<config, sid, seq, timerVars, sids, edits>>

\* The destructors run and main() returns.
Exit ==
    /\ proc = "quit"
    /\ ProcessEnds /\ UNCHANGED restarts
    /\ CloseCleanly

\* The ignition is switched off.
PowerCut ==
    /\ proc # "off"
    /\ restarts < MaxRestarts /\ restarts' = restarts + 1
    /\ ProcessEnds
    /\ LosePower

----------------------------------------------------------------------------
Init ==
    /\ SpoolInit /\ ClientInit
    /\ proc = "off"
    /\ config \in [enabled : BOOLEAN, car : Devices, cred : BOOLEAN]
    /\ state = "Disabled"
    /\ sessionActive = FALSE /\ sid = 0 /\ seq = 0 /\ drain = NoDrain
    /\ sampling = FALSE /\ queued = 0
    /\ timerRunning = FALSE /\ timerSeen = FALSE
    /\ sids = 0 /\ edits = 0 /\ restarts = 0

\* The network thread and the broker, while the main thread is between slots.
NetworkStep ==
    /\ Network
    /\ UNCHANGED <<spoolVars, proc, config, modelVars, timerVars, boundVars>>

TakesHop ==
    ClientConnected \/ ClientError \/ ClientDisconnected \/ ClientPublished
    \/ StaleHop

Driver == CrossLine \/ ClearLine \/ SaveSession \/ EditConfig \/ Unpair

Process == Boot \/ Start \/ Shutdown \/ Exit \/ PowerCut

Next ==
    TakesHop \/ NotifyTick \/ SampleTick \/ Driver \/ Process \/ NetworkStep

Spec == Init /\ [][Next]_vars

----------------------------------------------------------------------------
\* The types of the state.
Packets == [mid : Nat, qos : {0, 1}, items : SUBSET Messages]

TypeOK ==
    /\ SpoolTypeOK
    /\ gen \in Nat /\ mosq \in BOOLEAN /\ connected \in BOOLEAN
    /\ hops \in Seq([type : HopTypes, arg : Int, gen : Nat])
    /\ link \in {"down", "syn", "up"}
    /\ outbox \in Seq(Packets) /\ wire \in Seq(Packets)
    /\ nextMid \in Nat /\ drops \in Nat
    /\ cloud \subseteq Messages
    /\ proc \in {"off", "boot", "up", "quit"}
    /\ config \in [enabled : BOOLEAN, car : Devices, cred : BOOLEAN]
    /\ state \in States
    /\ sessionActive \in BOOLEAN /\ sid \in Nat /\ seq \in Nat
    /\ drain \in [active : BOOLEAN, mid : Int, lastId : Int]
    /\ sampling \in BOOLEAN /\ queued \in Int
    /\ timerRunning \in BOOLEAN /\ timerSeen \in BOOLEAN
    /\ sids \in Nat /\ edits \in Nat /\ restarts \in Nat

\* A PUBACK that will release rows stands for rows the broker has: when the
\* acknowledgement of the batch in flight waits for the main thread, every row
\* it will delete has been taken (uplinkspool.h: "Rows are deleted on the
\* PUBACK, never on publish").
AckedMeansTaken ==
    \A i \in 1..Len(hops) :
        /\ hops[i].type = "publish" /\ hops[i].gen = gen
        /\ mosq /\ drain.active /\ hops[i].arg = drain.mid
        => \A r \in rows : r.id <= drain.lastId => Msg(r) \in cloud

\* A hop of the current handle is on its way to the main thread.
Pending(type) ==
    \E i \in 1..Len(hops) : hops[i].type = type /\ hops[i].gen = gen

\* A drain never waits for nothing: while it diverts every message into the
\* spool, either its batch is still unacknowledged in the handle, or the PUBACK
\* or a disconnect is on its way (the stranded drain uplinkmodel.cpp's
\* onClientConnected() and icloudclient.h describe).
DrainMoves ==
    drain.active /\ Looping =>
        /\ connected
        /\ \/ \E i \in 1..Len(outbox) : outbox[i].mid = drain.mid
           \/ \E i \in 1..Len(hops) :
                 /\ hops[i].gen = gen
                 /\ \/ hops[i].type = "disconnect"
                    \/ hops[i].type = "publish" /\ hops[i].arg = drain.mid

\* The client believes it is connected only to a handle that got its CONNACK,
\* or that has reported losing the connection since.
ConnectedIsReal ==
    connected => mosq /\ (link = "up" \/ Pending("disconnect"))

\* With the link up and nothing in flight between the threads, a backlog on
\* the card is being drained, never left behind by live frames.
NoStrandedBacklog ==
    Looping /\ connected /\ link = "up" /\ hops = <<>> /\ rows # {}
        => drain.active

\* The settings page tells the truth: ONLINE exactly while connected, OFF exactly
\* when switched off, "not configured" exactly when it is on but lacks a car or a
\* password, so "Offline" and "Connecting" only when it has both, and the number
\* of queued frames is the table's.
StateIsTrue ==
    proc = "up" =>
        /\ state = "Online" => connected /\ config.enabled /\ Configured(config)
        /\ connected => state = "Online"
        /\ state = "Disabled" <=> ~config.enabled
        /\ state = "Unconfigured" <=> config.enabled /\ ~Configured(config)
        /\ queued = SpoolCount

\* The 10 Hz sampler runs exactly when a session is open on a started, enabled,
\* configured uplink, whichever path changed one of the four last
\* (updateSampling()).
SamplerAgrees ==
    sampling <=> SamplingWanted(proc = "up", sessionActive, config)

\* The table tells each session in order: start, frames by seq, stop, and no
\* (sid, seq) twice, which is what the cloud dedupes on.
Place(r) ==
    IF r.kind = "start" THEN -1 ELSE IF r.kind = "frame" THEN r.seq ELSE MaxSeq + 1

RowsTellSessions ==
    \A p, q \in rows : p.sid = q.sid /\ p.id < q.id => Place(p) < Place(q)

\* A packet names one topic and one session, whatever the drain batched into
\* it (peekRun() stops at the first change; the backfill envelope has one sid).
EnvelopeHasOneSession ==
    \A i \in 1..Len(outbox) : \A m, n \in outbox[i].items :
        /\ m.sid = n.sid /\ m.car = n.car
        /\ m.kind = "frame" <=> n.kind = "frame"

\* Seen from outside, spool, drain and client are a durable outbox: a row leaves
\* it delivered, overflowed or unpaired, never otherwise (uplinkspool.h: "Rows
\* are deleted on the PUBACK, never on publish").
Outbox == INSTANCE DurableOutbox WITH
    Capacity <- MaxRows, backlog <- rows, delivered <- cloud,
    paired <- config.cred, powered <- proc # "off"

IsDurableOutbox == Outbox!OutboxSpec

----------------------------------------------------------------------------
\* Fairness.  The Qt event loop serves its queue and its timers; the driver and
\* the power owe nothing.  The network thread retries without end, and the
\* broker answers: after at most MaxDrops failures a connection stays up.
BetweenSlots(A) ==
    A /\ UNCHANGED <<spoolVars, proc, config, modelVars, timerVars, boundVars>>

Fairness ==
    /\ WF_vars(TakesHop) /\ WF_vars(NotifyTick) /\ WF_vars(SampleTick)
    /\ WF_vars(Start)
    /\ WF_vars(BetweenSlots(Reconnect)) /\ WF_vars(BetweenSlots(Connack))
    /\ WF_vars(BetweenSlots(BrokerTakes))

FairSpec == Spec /\ Fairness

\* The uplink is switched on and paired, and the dash keeps running.
Serving == proc = "up" /\ config.enabled /\ Configured(config)

\* A serving uplink ends up online, whatever order its callbacks arrived in.
EventuallyOnline == <>[]Serving => <>[](state = "Online" /\ connected)

\* A serving uplink empties the card, and goes back to publishing live
\* (drainNext(): "Caught up. Live publishing resumes").
BacklogDrains == <>[]Serving => <>[](rows = {} /\ ~drain.active)

----------------------------------------------------------------------------
=============================================================================
