------------------------- MODULE UplinkModel_proof -------------------------
(***************************************************************************)
(* Theorems about UplinkModel, for every value of its constants: first the *)
(* sampler and the spool the uplink drives, then the uplink over its MQTT  *)
(* client: what the main thread believes of the link, the packets, the     *)
(* page, and the batch in flight. From these: the uplink implements the    *)
(* durable outbox, leaves no backlog behind, and keeps its types.          *)
(*                                                                         *)
(* The second half is without StampWindow: with it a callback of a         *)
(* destroyed handle counts as one of the next handle, and none of it holds *)
(* (run stamp_window).                                                     *)
(***************************************************************************)
EXTENDS UplinkModel, SpoolWorkload_proof

\* The sampler's steps: every action either leaves all inputs of
\* updateSampling() alone or re-establishes its answer.
SamplerInputs == <<sampling, sessionActive, proc, config>>

\* beginSession() ends with the sampler agreeing.
LEMMA BeginSampling ==
    ASSUME BeginSession, UNCHANGED <<proc, config>>
    PROVE  SamplerAgrees'
BY DEF BeginSession, SamplerAgrees, SamplingWanted, Configured

\* endSession() ends with the sampler agreeing.
LEMMA EndSampling ==
    ASSUME EndSession
    PROVE  SamplerAgrees'
BY DEF EndSession, SamplerAgrees, SamplingWanted

\* applyConfiguration(), enabled or not, ends with the sampler agreeing.
LEMMA ApplySampling ==
    ASSUME NEW c, ApplyConfiguration(c), config' = c, proc' = "up"
    PROVE  SamplerAgrees'
<1>1. CASE c.enabled
  BY <1>1 DEF ApplyConfiguration, ApplyEnabled, SamplerAgrees, SamplingWanted,
              Configured
<1>2. CASE ~c.enabled
  BY <1>2 DEF ApplyConfiguration, SwitchOff, SamplerAgrees, SamplingWanted
<1>. QED BY <1>1, <1>2

\* Every step of the uplink keeps the sampler in agreement.
LEMMA SamplerStep ==
    ASSUME SamplerAgrees, [Next]_vars
    PROVE  SamplerAgrees'
<1>1. CASE UNCHANGED SamplerInputs
  BY <1>1 DEF SamplerInputs, SamplerAgrees, SamplingWanted, Configured
<1>2. CASE NotifyTick
  <2>1. UNCHANGED <<proc, config>>
    BY <1>2 DEF NotifyTick
  <2>2. BeginSession \/ EndSession \/ NoSessionChange
    BY <1>2 DEF NotifyTick
  <2>3. CASE NoSessionChange
    BY <2>1, <2>3, <1>1 DEF NoSessionChange, SamplerInputs
  <2>. QED BY <2>1, <2>2, <2>3, BeginSampling, EndSampling
<1>3. CASE SaveSession
  <2>1. CASE sessionActive
    BY <1>3, <2>1, EndSampling DEF SaveSession
  <2>2. CASE ~sessionActive
    BY <1>3, <2>2, <1>1 DEF SaveSession, NoSessionChange, SamplerInputs
  <2>. QED BY <2>1, <2>2
<1>4. CASE Start
  BY <1>4, ApplySampling DEF Start
<1>5. CASE EditConfig
  BY <1>5, ApplySampling DEF EditConfig
<1>6. CASE Unpair
  BY <1>6 DEF Unpair, SwitchOff, SamplerAgrees, SamplingWanted
<1>7. CASE Shutdown
  <2>1. CASE proc = "up"
    BY <1>7, <2>1 DEF Shutdown, SamplerAgrees, SamplingWanted
  <2>2. CASE proc # "up"
    BY <1>7, <2>2 DEF Shutdown, SamplerAgrees, SamplingWanted
  <2>. QED BY <2>1, <2>2
<1>8. CASE Exit \/ PowerCut
  BY <1>8 DEF Exit, PowerCut, ProcessEnds, SamplerAgrees, SamplingWanted
<1>9. CASE Boot
  BY <1>9 DEF Boot, SamplerAgrees, SamplingWanted, modelVars
<1>10. CASE TakesHop
  BY <1>1, <1>10 DEF TakesHop, ClientConnected, ClientError, ClientDisconnected,
                    ClientPublished, StaleHop, SamplerInputs, modelVars
<1>11. CASE SampleTick \/ CrossLine \/ ClearLine \/ NetworkStep
  BY <1>1, <1>11 DEF SampleTick, CrossLine, ClearLine, NetworkStep,
                    SamplerInputs, modelVars
<1>12. CASE UNCHANGED vars
  BY <1>1, <1>12 DEF vars, SamplerInputs, modelVars
<1>. QED
  BY <1>2, <1>3, <1>4, <1>5, <1>6, <1>7, <1>8, <1>9, <1>10, <1>11, <1>12
     DEF Next, Driver, Process

\* updateSampling() always gets "the same answer": the 10 Hz sampler runs
\* exactly while a session is open on a started, enabled, configured uplink.
THEOREM SamplerAlwaysAgrees == Spec => []SamplerAgrees
<1>1. Init => SamplerAgrees
  BY DEF Init, SamplerAgrees, SamplingWanted
<1>2. SamplerAgrees /\ [Next]_vars => SamplerAgrees'
  BY SamplerStep
<1>. QED BY <1>1, <1>2, PTL DEF Spec

----------------------------------------------------------------------------
(* The uplink drives its spool by the calls SpoolWorkload lists, so all    *)
(* that is proved of the spool on its own holds of it here.                *)

\* What the uplink hands to the spool is typed.
Handed ==
    /\ config \in [enabled : BOOLEAN, car : Devices, cred : BOOLEAN]
    /\ sid \in Nat /\ seq \in Nat /\ sids \in Nat
    /\ drain.lastId \in Int

\* The invariant the refinement rests on.
HandedInv == Handed /\ SpoolInv

\* A message of the uplink is one the spool takes.
LEMMA MessageTyped ==
    ASSUME Handed, NEW kind \in Kinds, NEW s \in Nat, NEW n \in Nat
    PROVE  Message(kind, s, n) \in Messages
BY DEF Handed, Message, Messages

\* dispatch() appends to the spool or leaves it alone.
LEMMA DispatchCalls ==
    ASSUME NEW m \in Messages, NEW qos, Dispatch(m, qos)
    PROVE  [SpoolNext]_spoolVars
<1>1. CASE UNCHANGED spoolVars
  BY <1>1
<1>2. CASE AppendRow(m)
  BY <1>2 DEF SpoolNext
<1>. QED BY <1>1, <1>2 DEF Dispatch

\* drainNext() leaves an id behind, whatever it read.
LEMMA DrainTyped ==
    ASSUME NEW S, S \subseteq RowSet, NEW shown, DrainNext(S, shown)
    PROVE  drain'.lastId \in Int
<1>1. CASE drain' = NoDrain
  BY <1>1 DEF NoDrain
<1>2. ASSUME NEW first \in PeekRun(S), NEW last \in PeekRun(S), NEW mid, NEW telemetry,
             drain' = [active |-> TRUE, mid |-> mid,
                       lastId |-> LastAcked(telemetry, first, last)]
      PROVE  drain'.lastId \in Int
  <2>1. PeekRun(S) \subseteq S
    BY DEF PeekRun, Oldest
  <2>2. first.id \in Nat /\ last.id \in Nat
    BY <2>1 DEF RowSet
  <2>. QED BY <1>2, <2>2 DEF LastAcked
<1>. QED BY <1>1, <1>2 DEF DrainNext

\* A session's calls: begin, end, or none.
LEMMA SessionCalls ==
    ASSUME Handed, UNCHANGED config,
           BeginSession \/ EndSession \/ NoSessionChange
    PROVE  [SpoolNext]_spoolVars /\ Handed'
<1>1. CASE BeginSession
  <2>1. Message("start", sids + 1, 0) \in Messages
    BY MessageTyped DEF Handed, Kinds
  <2>. QED BY <1>1, <2>1, DispatchCalls DEF BeginSession, Handed
<1>2. CASE EndSession
  <2>1. Message("stop", sid, 0) \in Messages
    BY MessageTyped DEF Handed, Kinds
  <2>. QED BY <1>2, <2>1, DispatchCalls DEF EndSession, Handed
<1>3. CASE NoSessionChange
  BY <1>3 DEF NoSessionChange, Handed
<1>. QED BY <1>1, <1>2, <1>3

\* applyConfiguration() opens the spool or leaves it alone.
LEMMA ApplyCalls ==
    ASSUME Handed, NEW c \in [enabled : BOOLEAN, car : Devices, cred : BOOLEAN],
           ApplyConfiguration(c), config' = c, UNCHANGED sids
    PROVE  [SpoolNext]_spoolVars /\ Handed'
<1>1. CASE c.enabled
  <2>1. Open /\ UNCHANGED <<sid, seq>>
    BY <1>1 DEF ApplyConfiguration, ApplyEnabled
  <2>2. drain' \in {drain, NoDrain}
    BY <1>1 DEF ApplyConfiguration, ApplyEnabled, AfterDisconnect
  <2>. QED BY <2>1, <2>2 DEF SpoolNext, Handed, NoDrain
<1>2. CASE ~c.enabled
  <2>1. UNCHANGED <<spoolVars, sid, seq>>
    BY <1>2 DEF ApplyConfiguration
  <2>2. drain' \in {drain, NoDrain}
    BY <1>2 DEF ApplyConfiguration, SwitchOff, AfterDisconnect
  <2>. QED BY <2>1, <2>2 DEF Handed, NoDrain
<1>. QED BY <1>1, <1>2

\* The hops the main thread takes call drainNext() and releaseThrough().
LEMMA HopCalls ==
    ASSUME HandedInv, TakesHop
    PROVE  [SpoolNext]_spoolVars /\ Handed'
<1>1. rows \subseteq RowSet
  BY DEF HandedInv, SpoolInv, SpoolTypeOK
<1>2. CASE ClientConnected
  <2>1. UNCHANGED <<spoolVars, config, sid, seq, sids>>
    BY <1>2 DEF ClientConnected, boundVars
  <2>2. DrainNext(rows, queued) \/ drain' = NoDrain
    BY <1>2 DEF ClientConnected
  <2>3. drain'.lastId \in Int
    BY <1>1, <2>2, DrainTyped DEF NoDrain
  <2>. QED BY <2>1, <2>3 DEF HandedInv, Handed
<1>3. CASE ClientError \/ StaleHop
  BY <1>3 DEF ClientError, StaleHop, HandedInv, Handed, modelVars, boundVars
<1>4. CASE ClientDisconnected
  BY <1>4 DEF ClientDisconnected, HandedInv, Handed, NoDrain, boundVars
<1>5. CASE ClientPublished
  <2>1. UNCHANGED <<config, sid, seq, sids>>
    BY <1>5 DEF ClientPublished, boundVars
  <2>2. CASE UNCHANGED <<spoolVars, drain>>
    BY <2>1, <2>2 DEF HandedInv, Handed
  <2>3. CASE /\ ReleaseThrough(drain.lastId)
             /\ \/ UNCHANGED drain
                \/ \E shown : DrainNext(rows', shown)
    <3>1. drain.lastId \in Int
      BY DEF HandedInv, Handed
    <3>2. SpoolInv'
      BY <2>3, <3>1, ReleaseInv DEF HandedInv
    <3>3. rows' \subseteq RowSet
      BY <3>2 DEF SpoolInv, SpoolTypeOK
    <3>4. drain'.lastId \in Int
      BY <2>3, <3>1, <3>3, DrainTyped
    <3>. QED BY <2>1, <2>3, <3>1, <3>4 DEF SpoolNext, HandedInv, Handed
  <2>. QED BY <1>5, <2>2, <2>3 DEF ClientPublished
<1>. QED BY <1>2, <1>3, <1>4, <1>5 DEF TakesHop

\* Every step of the uplink is a step of the workload, or leaves the spool be.
LEMMA UplinkCalls ==
    ASSUME HandedInv, [Next]_vars
    PROVE  [SpoolNext]_spoolVars /\ Handed'
<1>. Handed
  BY DEF HandedInv
<1>1. CASE TakesHop
  BY <1>1, HopCalls
<1>2. CASE NotifyTick
  <2>1. UNCHANGED config
    BY <1>2 DEF NotifyTick
  <2>2. BeginSession \/ EndSession \/ NoSessionChange
    BY <1>2 DEF NotifyTick
  <2>. QED BY <2>1, <2>2, SessionCalls
<1>3. CASE SampleTick
  <2>1. Message("frame", sid, seq) \in Messages
    BY MessageTyped DEF Handed, Kinds
  <2>. QED BY <1>3, <2>1, DispatchCalls DEF SampleTick, Handed, boundVars
<1>4. CASE SaveSession
  <2>1. UNCHANGED config
    BY <1>4 DEF SaveSession
  <2>2. EndSession \/ NoSessionChange
    BY <1>4 DEF SaveSession
  <2>. QED BY <2>1, <2>2, SessionCalls
<1>5. CASE Start
  BY <1>5, ApplyCalls DEF Start, Handed, boundVars
<1>6. CASE EditConfig
  <2>1. ConfigEdits \subseteq [enabled : BOOLEAN, car : Devices, cred : BOOLEAN]
    BY DEF ConfigEdits, Handed, Devices
  <2>. QED BY <1>6, <2>1, ApplyCalls DEF EditConfig
<1>7. CASE Unpair
  <2>1. Clear
    BY <1>7 DEF Unpair
  <2>2. config' \in [enabled : BOOLEAN, car : Devices, cred : BOOLEAN]
    BY <1>7 DEF Unpair, Handed
  <2>3. drain' = NoDrain
    BY <1>7 DEF Unpair, SwitchOff, AfterDisconnect
  <2>. QED BY <1>7, <2>1, <2>2, <2>3 DEF Unpair, SpoolNext, Handed, NoDrain
<1>8. CASE Shutdown
  <2>1. UNCHANGED <<config, sid, seq, sids>>
    BY <1>8 DEF Shutdown
  <2>2. drain' \in {drain, NoDrain}
    BY <1>8 DEF Shutdown, AfterDisconnect
  <2>3. Message("stop", sid, 0) \in Messages
    BY MessageTyped DEF Handed, Kinds
  <2>4. UNCHANGED spoolVars \/ AppendRow(Message("stop", sid, 0))
    BY <1>8 DEF Shutdown
  <2>. QED BY <2>1, <2>2, <2>3, <2>4 DEF SpoolNext, Handed, NoDrain
<1>9. CASE Exit \/ PowerCut
  <2>1. /\ UNCHANGED <<config, sids>> /\ sid' = 0 /\ seq' = 0 /\ drain' = NoDrain
        /\ CloseCleanly \/ LosePower
    BY <1>9 DEF Exit, PowerCut, ProcessEnds
  <2>. QED BY <2>1 DEF SpoolNext, Handed, NoDrain
<1>10. CASE Boot \/ CrossLine \/ ClearLine \/ NetworkStep
  BY <1>10 DEF Boot, CrossLine, ClearLine, NetworkStep, Handed, modelVars, boundVars
<1>11. CASE UNCHANGED vars
  BY <1>11 DEF vars, Handed, modelVars, boundVars
<1>. QED
  BY <1>1, <1>2, <1>3, <1>4, <1>5, <1>6, <1>7, <1>8, <1>9, <1>10, <1>11
     DEF Next, Driver, Process

\* The invariant of the spool holds in the whole uplink, whose lost connections,
\* settings, restarts and power cuts reach it as calls.
THEOREM UplinkKeepsSpoolSound == Spec => []HandedInv
<1>1. Init => HandedInv
  BY WorkloadInit DEF Init, HandedInv, Handed, NoDrain
<1>2. HandedInv /\ [Next]_vars => HandedInv'
  BY UplinkCalls, WorkloadStep DEF HandedInv
<1>. QED BY <1>1, <1>2, PTL DEF Spec

\* The uplink implements the spool's specification: it makes no call, and takes
\* no step between two calls, that SpoolWorkload does not allow.
THEOREM UplinkUsesSpool == Spec => SpoolSpec
<1>1. Init => SpoolInit
  BY DEF Init
<1>2. HandedInv /\ [Next]_vars => [SpoolNext]_spoolVars
  BY UplinkCalls
<1>. QED BY <1>1, <1>2, UplinkKeepsSpoolSound, PTL DEF Spec, SpoolSpec

\* In the uplink, an id names one row ...
THEOREM UplinkIdsUnique == Spec => []IdsUnique
BY UplinkUsesSpool, SpoolIdsUnique, PTL

\* ... the cached counter is exact (uplinkspool.h, count()) ...
THEOREM UplinkCountExact == Spec => []CountExact
BY UplinkUsesSpool, SpoolCountExact, PTL

\* ... a power cut undoes one commit ...
THEOREM UplinkUndo == Spec => []UndoIsOneCommit
BY UplinkUsesSpool, SpoolUndo, PTL

\* ... rows leave from the front of the table ...
THEOREM UplinkLeavesFromTheFront == Spec => LeaveFromTheFront
BY UplinkUsesSpool, SpoolLeavesFromTheFront, PTL

\* ... and an append evicts the overflow only.
THEOREM UplinkEvictsOnlyOverflow == Spec => EvictsOnlyOverflow
BY UplinkUsesSpool, SpoolEvictsOnlyOverflow, PTL

----------------------------------------------------------------------------
(* The table tells each session in order.                                  *)

TellsSessions(S) ==
    \A p, q \in S : p.sid = q.sid /\ p.id < q.id => Place(p) < Place(q)

\* The rows on the card, and those a power cut may bring back, tell sessions
\* that began; of the open session they hold what came before this moment.
StoryInv ==
    /\ TellsSessions(rows) /\ TellsSessions(synced[1])
    /\ \A r \in rows \cup synced[1] : r.sid <= sids
    /\ sessionActive =>
          /\ sid <= sids
          /\ \A r \in rows : r.sid = sid =>
                r.kind # "stop" /\ (r.kind = "frame" => r.seq < seq)
    /\ seq <= MaxSeq

\* A step that only takes rows away, with what a power cut would bring back.
Fewer ==
    /\ rows' \subseteq rows
    /\ synced'[1] \subseteq rows \/ synced'[1] \subseteq synced[1]

LEMMA FewerRows ==
    ASSUME Open \/ (\E lastId \in Int : ReleaseThrough(lastId)) \/ Clear
           \/ CloseCleanly \/ UNCHANGED spoolVars
    PROVE  Fewer
<1>1. CASE Open \/ UNCHANGED spoolVars
  BY <1>1 DEF Open, Keep, spoolVars, Fewer
<1>2. ASSUME NEW gone, Commit(<<rows, nextId>>, <<rows \ gone, nextId>>) PROVE Fewer
  BY <1>2 DEF Commit, Fewer
<1>3. ASSUME Keep PROVE Fewer
  BY <1>3 DEF Keep, Fewer
<1>4. CASE \E lastId \in Int : ReleaseThrough(lastId)
  BY <1>2, <1>3, <1>4 DEF ReleaseThrough
<1>5. CASE Clear
  <2>1. rows \ rows = {}
    OBVIOUS
  <2>2. Commit(<<rows, nextId>>, <<rows \ rows, nextId>>) => Fewer
    BY <1>2
  <2>. QED BY <1>3, <1>5, <2>1, <2>2 DEF Clear
<1>6. CASE CloseCleanly
  BY <1>6 DEF CloseCleanly, Fewer
<1>. QED BY <1>1, <1>4, <1>5, <1>6

\* An appended row is the last of its session.
LEMMA AppendTells ==
    ASSUME SpoolInv, TellsSessions(rows), TellsSessions(synced[1]),
           NEW m \in Messages, AppendRow(m),
           \A r \in rows : r.sid = m.sid => Place(r) < Place(Row(nextId, m))
    PROVE  /\ TellsSessions(rows') /\ TellsSessions(synced'[1])
           /\ rows' \subseteq Grown(m)
           /\ synced'[1] \subseteq Grown(m) \/ synced'[1] = synced[1]
<1> DEFINE new == Row(nextId, m)
<1>1. Grown(m) = rows \cup {new} /\ new.sid = m.sid /\ new.id = nextId
  BY DEF Grown, Row
<1>2. nextId \in Nat /\ \A r \in rows : r.id \in Nat /\ r.id < nextId
  BY DEF SpoolInv, SpoolTypeOK, RowSet
<1>3. \A r \in rows : r.sid = new.sid => Place(r) < Place(new)
  BY <1>1
<1> HIDE DEF new
<1>4. TellsSessions(Grown(m))
  BY <1>1, <1>2, <1>3 DEF TellsSessions
<1>5. /\ rows' \subseteq Grown(m)
      /\ synced'[1] \subseteq Grown(m) \/ synced'[1] = synced[1]
  <2>1. PICK o \in OpenResults :
          /\ db' = o.db
          /\ NotAppended(o) \/ Appended(m, o) \/ AppendedOver(m, o)
    BY AppendCases
  <2>2. rows \subseteq Grown(m)
    BY <1>1
  <2>3. CASE NotAppended(o)
    BY <2>2, <2>3 DEF NotAppended, Keep
  <2>4. CASE Appended(m, o) \/ AppendedOver(m, o)
    BY <2>2, <2>4 DEF Appended, AppendedOver, Commit
  <2>. QED BY <2>1, <2>3, <2>4
<1>. QED BY <1>4, <1>5 DEF TellsSessions

\* What dispatch() does to the table.
LEMMA DispatchTells ==
    ASSUME SpoolInv, TellsSessions(rows), TellsSessions(synced[1]),
           NEW m \in Messages, NEW qos,
           Dispatch(m, qos) \/ AppendRow(m) \/ UNCHANGED spoolVars,
           \A r \in rows : r.sid = m.sid => Place(r) < Place(Row(nextId, m))
    PROVE  /\ TellsSessions(rows') /\ TellsSessions(synced'[1])
           /\ rows' \subseteq rows \cup {Row(nextId, m)}
           /\ \/ synced'[1] \subseteq rows \cup {Row(nextId, m)}
              \/ synced'[1] = synced[1]
<1>1. CASE AppendRow(m)
  BY <1>1, AppendTells DEF Grown
<1>2. CASE UNCHANGED spoolVars
  BY <1>2 DEF spoolVars
<1>. QED BY <1>1, <1>2 DEF Dispatch

\* A closing session has its stop row last.
LEMMA StopTells ==
    ASSUME HandedInv, StoryInv, sessionActive, NEW qos,
           \/ Dispatch(Message("stop", sid, 0), qos)
           \/ AppendRow(Message("stop", sid, 0))
           \/ UNCHANGED spoolVars,
           ~sessionActive', UNCHANGED <<sids, seq>>
    PROVE  StoryInv'
<1> DEFINE m == Message("stop", sid, 0)
           new == Row(nextId, m)
<1>1. /\ m \in Messages /\ m.sid = sid /\ new.sid = sid /\ Place(new) = MaxSeq + 1
      /\ rows \subseteq RowSet /\ SpoolInv
  BY MessageTyped DEF HandedInv, Handed, Kinds, Message, Row, Place, SpoolInv, SpoolTypeOK
<1>2. \A r \in rows : r.sid = sid => Place(r) < Place(new)
  <2>1. \A r \in rows : r.sid = sid => r.kind # "stop" /\ (r.kind = "frame" => r.seq < seq)
    BY DEF StoryInv
  <2>2. seq \in Nat /\ seq <= MaxSeq /\ MaxSeq \in Nat
    BY UplinkAssumption DEF StoryInv, HandedInv, Handed, UplinkAssumption
  <2>3. \A r \in rows : r.kind \in {"start", "frame", "stop"} /\ r.seq \in Nat
    BY <1>1 DEF RowSet, Kinds
  <2>. QED BY <1>1, <2>1, <2>2, <2>3 DEF Place
<1>3. /\ TellsSessions(rows') /\ TellsSessions(synced'[1])
      /\ rows' \subseteq rows \cup {new}
      /\ synced'[1] \subseteq rows \cup {new} \/ synced'[1] = synced[1]
  BY <1>1, <1>2, DispatchTells DEF StoryInv
<1> HIDE DEF new, m
<1>4. \A r \in rows' \cup synced'[1] : r \in rows \cup synced[1] \cup {new}
  BY <1>3
<1>. QED BY <1>1, <1>3, <1>4 DEF StoryInv

\* A new session has its start row first.
LEMMA StartTells ==
    ASSUME HandedInv, StoryInv, BeginSession
    PROVE  StoryInv'
<1> DEFINE m == Message("start", sids + 1, 0)
           new == Row(nextId, m)
<1>1. /\ m \in Messages /\ m.sid = sids + 1 /\ new.sid = sids + 1
      /\ new.kind = "start" /\ SpoolInv /\ sids \in Nat
      /\ \A r \in rows \cup synced[1] : r.sid \in Nat /\ r.sid <= sids
  <2>1. \A r \in rows \cup synced[1] : r.sid \in Nat
    BY DEF HandedInv, SpoolInv, SpoolTypeOK, RowSet
  <2>2. sids \in Nat /\ sids + 1 \in Nat /\ Handed
    BY DEF HandedInv, Handed
  <2>. QED
    BY <2>1, <2>2, MessageTyped DEF HandedInv, Kinds, Message, Row, StoryInv
<1>2. \A r \in rows : r.sid # sids + 1
  BY <1>1
<1>3. /\ TellsSessions(rows') /\ TellsSessions(synced'[1])
      /\ rows' \subseteq rows \cup {new}
      /\ synced'[1] \subseteq rows \cup {new} \/ synced'[1] = synced[1]
  BY <1>1, <1>2, DispatchTells DEF StoryInv, BeginSession
<1>4. sids' = sids + 1 /\ sid' = sids + 1 /\ seq' = 0
  BY DEF BeginSession
<1> HIDE DEF new, m
<1>5. \A r \in rows' \cup synced'[1] : r.sid <= sids'
  BY <1>1, <1>3, <1>4
<1>6. \A r \in rows' : r.sid = sid' =>
         r.kind # "stop" /\ (r.kind = "frame" => r.seq < seq')
  BY <1>1, <1>2, <1>3, <1>4
<1>7. sid' <= sids' /\ seq' <= MaxSeq
  BY <1>1, <1>4, UplinkAssumption DEF UplinkAssumption
<1>. QED BY <1>3, <1>5, <1>6, <1>7 DEF StoryInv

\* A frame comes after the frames before it.
LEMMA FrameTells ==
    ASSUME HandedInv, StoryInv, SampleTick
    PROVE  StoryInv'
<1> DEFINE m == Message("frame", sid, seq)
           new == Row(nextId, m)
<1>1. /\ m \in Messages /\ m.sid = sid /\ new.sid = sid
      /\ new.kind = "frame" /\ new.seq = seq /\ Place(new) = seq
      /\ SpoolInv /\ rows \subseteq RowSet /\ seq \in Nat
  BY MessageTyped
     DEF HandedInv, Handed, Kinds, Message, Row, Place, SpoolInv, SpoolTypeOK
<1>2. /\ sessionActive /\ seq < MaxSeq /\ seq' = seq + 1
      /\ UNCHANGED <<sids, sid, sessionActive>> /\ Dispatch(m, 0)
  BY DEF SampleTick, boundVars
<1>3. \A r \in rows : r.sid = sid =>
         r.kind # "stop" /\ (r.kind = "frame" => r.seq < seq)
  BY <1>2 DEF StoryInv
<1>4. \A r \in rows : r.kind \in {"start", "frame", "stop"} /\ r.seq \in Nat
  BY <1>1 DEF RowSet, Kinds
<1>5. \A r \in rows : r.sid = sid => Place(r) < Place(new)
  BY <1>1, <1>3, <1>4 DEF Place
<1>6. /\ TellsSessions(rows') /\ TellsSessions(synced'[1])
      /\ rows' \subseteq rows \cup {new}
      /\ synced'[1] \subseteq rows \cup {new} \/ synced'[1] = synced[1]
  BY <1>1, <1>2, <1>5, DispatchTells DEF StoryInv
<1> HIDE DEF new, m
<1>7. sid <= sids /\ \A r \in rows \cup synced[1] : r.sid <= sids
  BY <1>2 DEF StoryInv
<1>8. \A r \in rows' \cup synced'[1] : r.sid <= sids'
  BY <1>1, <1>2, <1>6, <1>7
<1>9. \A r \in rows' : r.sid = sid' =>
         r.kind # "stop" /\ (r.kind = "frame" => r.seq < seq')
  BY <1>1, <1>2, <1>3, <1>4, <1>6
<1>10. sid' <= sids' /\ seq' <= MaxSeq
  BY <1>1, <1>2, <1>7, UplinkAssumption DEF UplinkAssumption
<1>. QED BY <1>6, <1>8, <1>9, <1>10 DEF StoryInv

\* Rows that go leave the story of the others as it was.
LEMMA FewerTells ==
    ASSUME StoryInv, Fewer, sids' = sids, seq' \in {seq, 0},
           \/ ~sessionActive'
           \/ UNCHANGED <<sessionActive, sid, seq>>
    PROVE  StoryInv'
<1>1. 0 <= MaxSeq
  BY UplinkAssumption DEF UplinkAssumption
<1>. QED BY <1>1 DEF StoryInv, Fewer, TellsSessions

\* Every step of the uplink tells the sessions in order.
LEMMA StoryStep ==
    ASSUME HandedInv, StoryInv, [Next]_vars
    PROVE  StoryInv'
<1>1. CASE TakesHop
  <2>1. UNCHANGED <<sids, sid, seq, sessionActive>>
    BY <1>1 DEF TakesHop, ClientConnected, ClientError, ClientDisconnected,
                ClientPublished, StaleHop, modelVars, boundVars
  <2>2. UNCHANGED spoolVars \/ ReleaseThrough(drain.lastId)
    BY <1>1 DEF TakesHop, ClientConnected, ClientError, ClientDisconnected,
                ClientPublished, StaleHop
  <2>3. drain.lastId \in Int
    BY DEF HandedInv, Handed
  <2>. QED BY <2>1, <2>2, <2>3, FewerRows, FewerTells
<1>2. ASSUME NoSessionChange PROVE StoryInv'
  BY <1>2, FewerRows, FewerTells DEF NoSessionChange
<1>3. ASSUME EndSession, sessionActive PROVE StoryInv'
  BY <1>3, StopTells DEF EndSession
<1>4. CASE NotifyTick \/ SaveSession
  BY <1>2, <1>3, <1>4, StartTells DEF NotifyTick, SaveSession
<1>5. CASE SampleTick
  BY <1>5, FrameTells
<1>6. CASE CrossLine \/ ClearLine \/ Boot \/ NetworkStep \/ UNCHANGED vars
  BY <1>6, FewerRows, FewerTells
     DEF CrossLine, ClearLine, Boot, NetworkStep, vars, modelVars, boundVars
<1>7. ASSUME NEW c, ApplyConfiguration(c), sids' = sids PROVE StoryInv'
  <2>1. Open \/ UNCHANGED spoolVars
    BY <1>7 DEF ApplyConfiguration, ApplyEnabled
  <2>2. UNCHANGED <<sessionActive, sid, seq>>
    BY <1>7 DEF ApplyConfiguration
  <2>. QED BY <1>7, <2>1, <2>2, FewerRows, FewerTells
<1>8. CASE Start \/ EditConfig
  BY <1>7, <1>8 DEF Start, EditConfig, boundVars
<1>9. CASE Unpair
  BY <1>9, FewerRows, FewerTells DEF Unpair
<1>10. CASE Shutdown
  <2>1. CASE proc = "up" /\ sessionActive
    BY <1>10, <2>1, StopTells DEF Shutdown
  <2>2. CASE ~(proc = "up" /\ sessionActive)
    <3>1. /\ UNCHANGED spoolVars /\ UNCHANGED <<sids, seq, sid>>
          /\ ~sessionActive' \/ UNCHANGED sessionActive
      BY <1>10, <2>2 DEF Shutdown
    <3>. QED BY <3>1, FewerRows, FewerTells
  <2>. QED BY <2>1, <2>2
<1>11. CASE Exit
  BY <1>11, FewerRows, FewerTells DEF Exit, ProcessEnds
<1>12. CASE PowerCut
  <2>1. ~sessionActive' /\ seq' = 0 /\ sids' = sids
    BY <1>12 DEF PowerCut, ProcessEnds
  <2>2. rows' \in {rows, synced[1]} /\ synced'[1] = rows'
    BY <1>12 DEF PowerCut, LosePower
  <2>3. 0 <= MaxSeq
    BY UplinkAssumption DEF UplinkAssumption
  <2>. QED BY <2>1, <2>2, <2>3 DEF StoryInv
<1>. QED
  BY <1>1, <1>4, <1>5, <1>6, <1>8, <1>9, <1>10, <1>11, <1>12
     DEF Next, Driver, Process

\* The table tells each session in order, through evictions, releases, restarts
\* and power cuts, and never the same (sid, seq) twice.
THEOREM UplinkTellsSessions == Spec => []RowsTellSessions
<1>1. Init => StoryInv
  BY UplinkAssumption
     DEF Init, SpoolInit, StoryInv, TellsSessions, UplinkAssumption
<1>2. HandedInv /\ StoryInv /\ [Next]_vars => StoryInv'
  BY StoryStep
<1>3. StoryInv => RowsTellSessions
  BY DEF StoryInv, TellsSessions, RowsTellSessions
<1>. QED BY <1>1, <1>2, <1>3, UplinkKeepsSpoolSound, PTL DEF Spec

----------------------------------------------------------------------------
USE ClientAssumption DEF ClientAssumption

----------------------------------------------------------------------------
(* What the steps do to the handle, the link and the hops.                 *)

HopSet == [type : HopTypes, arg : Int, gen : Nat]

HandleTyped ==
    /\ gen \in Nat /\ mosq \in BOOLEAN /\ connected \in BOOLEAN
    /\ hops \in Seq(HopSet)
    /\ link \in {"down", "syn", "up"}

\* A hop that makes the main thread believe in the link, or stop believing.
RaisesLink(h) == h.type = "connect" /\ h.arg = Accepted /\ h.gen = gen
DropsLink(h) == h.type = "disconnect" /\ h.gen = gen

\* Once the first n hops are handled, the main thread does not believe in
\* the link.
DownAfter(n) ==
    \/ ~connected /\ \A i \in 1..n : ~RaisesLink(hops[i])
    \/ \E j \in 1..n :
          /\ DropsLink(hops[j])
          /\ \A i \in (j+1)..n : ~RaisesLink(hops[i])

\* The hops of the current handle tell the link's story in order: a refusal
\* finds the main thread disconnected, and so does a link that is not up.
LinkInv ==
    /\ HandleTyped
    /\ \A i \in 1..Len(hops) : hops[i].gen <= gen
    /\ ~mosq => link = "down" /\ ~connected
    /\ mosq => /\ link # "up" => DownAfter(Len(hops))
               /\ \A i \in 1..Len(hops) :
                     /\ hops[i].type = "connect" /\ hops[i].arg # Accepted
                     /\ hops[i].gen = gen
                     => DownAfter(i - 1)

----------------------------------------------------------------------------
linkVars == <<gen, mosq, connected, hops, link>>

\* The main thread takes the oldest hop.
HopTaken ==
    /\ hops # <<>> /\ hops' = Tail(hops)
    /\ UNCHANGED <<gen, mosq, link>>
    /\ connected' = IF Stale(Head(hops)) \/ Head(hops).type = "publish"
                    THEN connected
                    ELSE Head(hops).type = "connect" /\ Head(hops).arg = Accepted

\* teardown(), with or without a new handle after it.
Retired ==
    /\ gen' \in {gen + 1, gen + 2}
    /\ hops' = hops
    /\ connected' = FALSE
    /\ \/ mosq' = TRUE /\ link' = "syn"
       \/ mosq' = FALSE /\ link' = "down"

LinkGone ==
    /\ gen' = 0 /\ mosq' = FALSE /\ connected' = FALSE /\ hops' = <<>>
    /\ link' = "down"

\* A handle that is torn down leaves no hop behind.
LEMMA NoLateHop ==
    ASSUME ~StampWindow, HandleTyped, RetireHandle
    PROVE  hops' = hops
<1>1. \A taken : LateHops(taken) = {<<>>}
  BY DEF LateHops
<1>2. hops \o <<>> = hops
  BY DEF HandleTyped
<1>. QED BY <1>1, <1>2 DEF RetireHandle

\* connectToBroker() and shutdownLink() end the handle there is.
LEMMA RetireEffect ==
    ASSUME ~StampWindow, HandleTyped,
           ShutdownLink \/ ConnectToBroker \/ ConnectToBrokerFails
    PROVE  Retired
<1>1. CASE ShutdownLink
  BY <1>1, NoLateHop DEF ShutdownLink, FreshHandle, Retired
<1>2. CASE ConnectToBroker
  BY <1>2, NoLateHop DEF ConnectToBroker, FreshHandle, Retired
<1>3. CASE ConnectToBrokerFails
  BY <1>3, NoLateHop DEF ConnectToBrokerFails, FreshHandle, Retired
<1>. QED BY <1>1, <1>2, <1>3

\* applyConfiguration() retires the handle or leaves the client alone.
LEMMA ApplyEffect ==
    ASSUME ~StampWindow, HandleTyped, NEW c, ApplyConfiguration(c)
    PROVE  Retired \/ UNCHANGED linkVars
<1>1. \/ ShutdownLink \/ ConnectToBroker \/ ConnectToBrokerFails
      \/ UNCHANGED clientVars
  BY DEF ApplyConfiguration, ApplyEnabled, SwitchOff
<1>. QED BY <1>1, RetireEffect DEF clientVars, mainVars, libVars, linkVars

\* What every step of the uplink does to the link.
LEMMA LinkCalls ==
    ASSUME ~StampWindow, HandleTyped, [Next]_vars
    PROVE  HopTaken \/ Retired \/ LinkGone \/ Network \/ UNCHANGED linkVars
<1>1. CASE TakesHop
  BY <1>1 DEF TakesHop, ClientConnected, ClientError, ClientDisconnected,
              ClientPublished, StaleHop, HandleConnect, HandleDisconnect,
              HandlePublish, DropStaleHop, TakeHop, HopTaken, Accepted, Refused
<1>2. CASE NotifyTick \/ SampleTick \/ SaveSession
  BY <1>2 DEF NotifyTick, SampleTick, SaveSession, ClientAfterPublish,
              mainVars, linkVars
<1>3. CASE CrossLine \/ ClearLine \/ Boot \/ UNCHANGED vars
  BY <1>3 DEF CrossLine, ClearLine, Boot, vars, clientVars, mainVars, libVars,
              linkVars
<1>4. CASE EditConfig
  BY <1>4, ApplyEffect DEF EditConfig
<1>5. CASE Start
  BY <1>5, ApplyEffect DEF Start
<1>6. CASE Unpair
  BY <1>6, RetireEffect DEF Unpair, SwitchOff
<1>7. CASE Shutdown
  BY <1>7, RetireEffect DEF Shutdown, clientVars, mainVars, libVars, linkVars
<1>8. CASE Exit \/ PowerCut
  BY <1>8 DEF Exit, PowerCut, ProcessEnds, ClientGone, FreshHandle, LinkGone
<1>9. CASE NetworkStep
  BY <1>9 DEF NetworkStep
<1>. QED
  BY <1>1, <1>2, <1>3, <1>4, <1>5, <1>6, <1>7, <1>8, <1>9
     DEF Next, Driver, Process

----------------------------------------------------------------------------
(* The link's invariant. *)

\* Handling the oldest hop keeps the story true for the rest.
LEMMA TakenKeepsLink == LinkInv /\ HopTaken => LinkInv'
<1> SUFFICES ASSUME LinkInv, HopTaken PROVE LinkInv'
  OBVIOUS
<1>1. /\ hops \in Seq(HopSet) /\ hops # <<>> /\ hops' = Tail(hops)
      /\ hops' \in Seq(HopSet) /\ Len(hops') = Len(hops) - 1
      /\ Len(hops) \in Nat \ {0} /\ Head(hops) = hops[1]
      /\ \A i \in 1..Len(hops') : hops'[i] = hops[i + 1]
      /\ \A i \in 1..Len(hops) : hops[i] \in HopSet
  BY DEF LinkInv, HandleTyped, HopTaken
<1>2. HandleTyped'
  BY <1>1 DEF LinkInv, HandleTyped, HopTaken
<1>3. \A i \in 1..Len(hops') : (hops[i].gen <= gen)'
  BY <1>1 DEF LinkInv, HopTaken
<1>4. ~mosq' => link' = "down" /\ ~connected'
  BY DEF LinkInv, HopTaken, Stale
<1>5. ASSUME mosq, NEW n \in 0..Len(hops'), DownAfter(n + 1)
      PROVE  DownAfter(n)'
  <2>1. \A i \in 1..n : i + 1 \in 1..(n + 1) /\ hops'[i] = hops[i + 1]
    BY <1>1
  <2>2. CASE ~connected /\ \A i \in 1..(n + 1) : ~RaisesLink(hops[i])
    <3>1. ~RaisesLink(hops[1])
      BY <2>2
    <3>2. ~connected'
      BY <1>1, <1>5, <2>2, <3>1 DEF HopTaken, Stale, RaisesLink
    <3>. QED BY <2>1, <2>2, <3>2 DEF DownAfter, RaisesLink, HopTaken
  <2>3. ASSUME NEW j \in 1..(n + 1), DropsLink(hops[j]),
               \A i \in (j + 1)..(n + 1) : ~RaisesLink(hops[i])
        PROVE  DownAfter(n)'
    <3>1. CASE j = 1
      <4>1. ~connected'
        BY <1>1, <1>5, <2>3, <3>1 DEF HopTaken, Stale, DropsLink
      <4>. QED BY <2>1, <2>3, <3>1, <4>1 DEF DownAfter, RaisesLink, HopTaken
    <3>2. CASE j > 1
      <4>1. j - 1 \in 1..n /\ hops'[j - 1] = hops[j]
        BY <1>1, <3>2
      <4>2. \A i \in ((j - 1) + 1)..n : i + 1 \in (j + 1)..(n + 1) /\ i \in 1..n
        BY <3>2
      <4>3. DropsLink(hops[j - 1])'
        BY <2>3, <4>1 DEF DropsLink, HopTaken
      <4>4. \A i \in ((j - 1) + 1)..n : ~RaisesLink(hops[i])'
        BY <2>1, <2>3, <4>2 DEF RaisesLink, HopTaken
      <4>. QED BY <4>1, <4>3, <4>4 DEF DownAfter
    <3>. QED BY <3>1, <3>2
  <2>. QED BY <1>5, <2>2, <2>3 DEF DownAfter
<1>6. mosq' => (link # "up" => DownAfter(Len(hops)))'
  <2>1. ASSUME mosq, link # "up" PROVE DownAfter(Len(hops))'
    <3>1. DownAfter(Len(hops') + 1)
      BY <1>1, <2>1 DEF LinkInv
    <3>2. Len(hops') \in 0..Len(hops')
      BY <1>1
    <3>3. \A n \in 0..Len(hops') : DownAfter(n + 1) => DownAfter(n)'
      BY <1>5, <2>1
    <3>. QED BY <3>1, <3>2, <3>3 DEF DownAfter
  <2>. QED BY <2>1 DEF HopTaken
<1>7. ASSUME mosq', NEW i \in 1..Len(hops'),
             (/\ hops[i].type = "connect" /\ hops[i].arg # Accepted
              /\ hops[i].gen = gen)'
      PROVE  DownAfter(i - 1)'
  <2>1. i + 1 \in 1..Len(hops) /\ hops'[i] = hops[i + 1] /\ i - 1 \in 0..Len(hops')
    BY <1>1
  <2>2. DownAfter((i + 1) - 1)
    BY <1>7, <2>1 DEF LinkInv, HopTaken, Accepted
  <2>3. DownAfter((i - 1) + 1)
    BY <2>1, <2>2
  <2>. QED BY <1>5, <1>7, <2>1, <2>3 DEF HopTaken
<1>. QED BY <1>2, <1>3, <1>4, <1>6, <1>7 DEF LinkInv

\* A new handle starts its own story: no hop in the queue is part of it.
LEMMA RetiredKeepsLink == LinkInv /\ Retired => LinkInv'
<1> SUFFICES ASSUME LinkInv, Retired PROVE LinkInv'
  OBVIOUS
<1>1. /\ hops \in Seq(HopSet) /\ hops' = hops /\ gen \in Nat /\ gen' > gen
      /\ Len(hops) \in Nat
      /\ \A i \in 1..Len(hops) : hops[i].gen \in Nat /\ hops[i].gen <= gen
  <2>1. hops \in Seq(HopSet) /\ hops' = hops /\ gen \in Nat /\ gen' > gen
    BY DEF LinkInv, HandleTyped, Retired
  <2>2. \A i \in 1..Len(hops) : hops[i] \in HopSet
    BY <2>1
  <2>. QED BY <2>1, <2>2 DEF LinkInv, HopSet
<1>2. HandleTyped'
  <2>1. gen' \in Nat /\ hops' \in Seq(HopSet)
    BY <1>1 DEF Retired
  <2>2. /\ mosq' \in BOOLEAN /\ connected' \in BOOLEAN
        /\ link' \in {"down", "syn", "up"}
    BY DEF Retired
  <2>. QED BY <2>1, <2>2 DEF HandleTyped
<1>3. \A i \in 1..Len(hops) : hops'[i].gen # gen' /\ hops'[i].gen <= gen'
  BY <1>1, <1>2 DEF HandleTyped
<1>4. DownAfter(Len(hops))'
  BY <1>1, <1>3 DEF DownAfter, RaisesLink, Retired
<1>. QED BY <1>1, <1>2, <1>3, <1>4 DEF LinkInv, Retired

\* Hops the network thread posts come after all there are.
LEMMA PostTyped ==
    ASSUME HandleTyped, NEW new \in Seq(HopSet), hops' = hops \o new
    PROVE  /\ hops' \in Seq(HopSet) /\ Len(hops') = Len(hops) + Len(new)
           /\ Len(hops) \in Nat /\ Len(new) \in Nat
           /\ \A i \in 1..Len(hops) : hops'[i] = hops[i]
           /\ \A i \in 1..Len(new) : hops'[Len(hops) + i] = new[i]
BY DEF HandleTyped

\* ... and leave the story of those before them as it was.
LEMMA PostKeepsPrefix ==
    ASSUME HandleTyped, NEW new \in Seq(HopSet), hops' = hops \o new,
           UNCHANGED <<gen, connected>>, NEW n \in 0..Len(hops), DownAfter(n)
    PROVE  DownAfter(n)'
<1>1. \A i \in 1..n : hops'[i] = hops[i]
  BY PostTyped
<1>. QED BY <1>1 DEF DownAfter, RaisesLink, DropsLink

\* A hop of the handle's own thread.
LEMMA HopTyped ==
    ASSUME HandleTyped, NEW type \in HopTypes, NEW arg \in Int
    PROVE  Hop(type, arg, gen) \in HopSet
BY DEF Hop, HopSet, HandleTyped

\* The network thread's steps as far as the link goes: a change of the link, and
\* the hops it posts for it.
LinkLost ==
    /\ mosq /\ link # "down" /\ link' = "down"
    /\ \/ hops' = hops \o <<Hop("disconnect", 1, gen)>>
       \/ /\ link = "syn"
          /\ hops' = hops \o <<Hop("connect", Refused, gen),
                               Hop("disconnect", 1, gen)>>

LinkUp ==
    /\ link' = "up"
    /\ hops' = hops \o <<Hop("connect", Accepted, gen)>>

Acked ==
    /\ link = "up" /\ link' = "up"
    /\ \/ hops' = hops
       \/ \E mid \in Nat : hops' = hops \o <<Hop("publish", mid, gen)>>

\* What the messages in the handle and on the wire are.
PacketsTyped ==
    /\ outbox \in Seq(Packets) /\ wire \in Seq(Packets)
    /\ nextMid \in Nat \ {0}
    /\ cloud \subseteq Messages

LEMMA NetworkEffect ==
    ASSUME LinkInv, PacketsTyped, Network
    PROVE  /\ UNCHANGED <<gen, mosq, connected>>
           /\ mosq
           /\ \/ LinkLost \/ LinkUp \/ Acked
              \/ link = "down" /\ link' = "syn" /\ hops' = hops
<1>1. link # "down" => mosq
  BY DEF LinkInv, HandleTyped
<1>2. wire # <<>> => Head(wire).mid \in Nat
  <2>1. wire # <<>> => Head(wire) \in Packets
    BY DEF PacketsTyped
  <2>. QED BY <2>1 DEF Packets
<1>3. CASE Reconnect
  BY <1>3 DEF Reconnect, NetUnchanged, mainVars
<1>4. CASE Connack
  BY <1>1, <1>4 DEF Connack, Post, NetUnchanged, mainVars, LinkUp
<1>5. CASE ConnackRefused
  BY <1>1, <1>5 DEF ConnackRefused, Post, NetUnchanged, mainVars, LinkLost
<1>6. CASE LoseConnection
  BY <1>1, <1>6 DEF LoseConnection, Post, NetUnchanged, mainVars, LinkLost
<1>7. CASE BrokerTakes
  BY <1>1, <1>2, <1>7 DEF BrokerTakes, Post, NetUnchanged, mainVars, Acked
<1>. QED BY <1>3, <1>4, <1>5, <1>6, <1>7 DEF Network

\* A new tail of the queue keeps the invariant when it keeps the story.
LEMMA PostKeepsLink ==
    ASSUME LinkInv, mosq, UNCHANGED <<gen, mosq, connected>>,
           link' \in {"down", "syn", "up"},
           NEW new \in Seq(HopSet), hops' = hops \o new,
           \A i \in 1..Len(new) : new[i].gen = gen,
           \A i \in 1..Len(new) :
              new[i].type = "connect" /\ new[i].arg # Accepted =>
                 i = 1 /\ DownAfter(Len(hops)),
           link' # "up" => DownAfter(Len(hops))'
    PROVE  LinkInv'
<1> DEFINE n == Len(hops)
<1>. HandleTyped
  BY DEF LinkInv
<1>1. /\ hops' \in Seq(HopSet) /\ Len(hops') = n + Len(new)
      /\ n \in Nat /\ Len(new) \in Nat
      /\ \A i \in 1..n : hops'[i] = hops[i]
      /\ \A i \in 1..Len(new) : hops'[n + i] = new[i]
  BY PostTyped
<1>2. HandleTyped'
  BY <1>1 DEF HandleTyped
<1>3. ASSUME NEW i \in 1..Len(hops')
      PROVE  \/ i \in 1..n /\ hops'[i] = hops[i]
             \/ i - n \in 1..Len(new) /\ hops'[i] = new[i - n]
  <2>1. CASE i <= n
    BY <1>1, <2>1
  <2>2. CASE i > n
    <3>1. i - n \in 1..Len(new) /\ n + (i - n) = i
      BY <1>1, <2>2
    <3>. QED BY <1>1, <3>1
  <2>. QED BY <1>1, <2>1, <2>2
<1>4. \A i \in 1..Len(hops') : hops'[i].gen <= gen'
  BY <1>1, <1>3 DEF LinkInv, HandleTyped
<1>5. \A k \in 0..n : DownAfter(k) => DownAfter(k)'
  BY PostKeepsPrefix
<1>6. ASSUME NEW i \in 1..Len(hops'),
             hops'[i].type = "connect" /\ hops'[i].arg # Accepted /\ hops'[i].gen = gen
      PROVE  DownAfter(i - 1)'
  <2>1. CASE i \in 1..n /\ hops'[i] = hops[i]
    <3>1. DownAfter(i - 1) /\ i - 1 \in 0..n
      BY <1>1, <1>6, <2>1 DEF LinkInv
    <3>. QED BY <1>5, <3>1
  <2>2. CASE i - n \in 1..Len(new) /\ hops'[i] = new[i - n]
    <3>1. i - n = 1 /\ DownAfter(n)
      BY <1>6, <2>2
    <3>2. i - 1 \in 0..n /\ i - 1 = n
      BY <1>1, <3>1
    <3>3. DownAfter(i - 1)
      BY <3>1, <3>2
    <3>. QED BY <1>5, <3>2, <3>3
  <2>. QED BY <1>3, <2>1, <2>2
<1>. QED BY <1>2, <1>4, <1>6 DEF LinkInv, Accepted

\* A disconnect posted last ends the belief in the link.
LEMMA PostedDown ==
    ASSUME HandleTyped, UNCHANGED gen,
           NEW new \in Seq(HopSet), hops' = hops \o new, Len(new) > 0,
           new[Len(new)].type = "disconnect", new[Len(new)].gen = gen
    PROVE  DownAfter(Len(hops))'
<1>1. /\ Len(hops') = Len(hops) + Len(new) /\ Len(new) \in 1..Len(new)
      /\ Len(hops) \in Nat /\ hops'[Len(hops) + Len(new)] = new[Len(new)]
  BY PostTyped
<1>2. PICK j \in 1..Len(hops') : j = Len(hops') /\ hops'[j] = new[Len(new)]
  BY <1>1
<1>3. DropsLink(hops[j])'
  BY <1>2 DEF DropsLink
<1>4. \A i \in (j + 1)..Len(hops') : FALSE
  BY <1>1, <1>2
<1>. QED BY <1>2, <1>3, <1>4 DEF DownAfter

\* The network thread posts what happened to the link after it happened.
LEMMA NetworkKeepsLink == LinkInv /\ PacketsTyped /\ Network => LinkInv'
<1> SUFFICES ASSUME LinkInv, PacketsTyped, Network PROVE LinkInv'
  OBVIOUS
<1> DEFINE n == Len(hops)
<1>1. UNCHANGED <<gen, mosq, connected>> /\ mosq
  BY NetworkEffect
<1>2. HandleTyped /\ hops \in Seq(HopSet) /\ n \in Nat
  BY DEF LinkInv, HandleTyped
<1>3. /\ Hop("disconnect", 1, gen) \in HopSet
      /\ Hop("connect", Refused, gen) \in HopSet
      /\ Hop("connect", Accepted, gen) \in HopSet
      /\ \A mid \in Nat : Hop("publish", mid, gen) \in HopSet
  BY <1>2, HopTyped DEF HopTypes, Refused, Accepted
<1>4. CASE LinkLost
  <2>1. CASE hops' = hops \o <<Hop("disconnect", 1, gen)>>
    <3> DEFINE new == <<Hop("disconnect", 1, gen)>>
    <3>1. /\ new \in Seq(HopSet) /\ Len(new) = 1
          /\ new[1].type = "disconnect" /\ new[1].gen = gen
      BY <1>3 DEF Hop
    <3> HIDE DEF new
    <3>2. hops' = hops \o new
      BY <2>1 DEF new
    <3>3. DownAfter(Len(hops))'
      BY <1>1, <1>2, <3>1, <3>2, PostedDown
    <3>4. \A i \in 1..Len(new) : new[i].gen = gen /\ new[i].type # "connect"
      BY <3>1
    <3>. QED BY <1>1, <1>4, <3>1, <3>2, <3>3, <3>4, PostKeepsLink DEF LinkLost
  <2>2. CASE /\ link = "syn"
             /\ hops' = hops \o <<Hop("connect", Refused, gen),
                                  Hop("disconnect", 1, gen)>>
    <3> DEFINE new == <<Hop("connect", Refused, gen), Hop("disconnect", 1, gen)>>
    <3>1. /\ new \in Seq(HopSet) /\ Len(new) = 2
          /\ new[2].type = "disconnect" /\ new[2].gen = gen
          /\ new[1].gen = gen
      BY <1>3 DEF Hop
    <3> HIDE DEF new
    <3>2. hops' = hops \o new
      BY <2>2 DEF new
    <3>3. DownAfter(Len(hops))'
      <4>1. Len(new) > 0 /\ new[Len(new)].type = "disconnect" /\ new[Len(new)].gen = gen
        BY <3>1
      <4>. QED BY <1>1, <1>2, <3>1, <3>2, <4>1, PostedDown
    <3>4. DownAfter(n)
      BY <1>1, <2>2 DEF LinkInv
    <3>5. /\ \A i \in 1..Len(new) : new[i].gen = gen
          /\ \A i \in 1..Len(new) : new[i].type = "connect" => i = 1
      BY <3>1
    <3>. QED
      BY <1>1, <1>4, <3>1, <3>2, <3>3, <3>4, <3>5, PostKeepsLink DEF LinkLost
  <2>. QED BY <1>4, <2>1, <2>2 DEF LinkLost
<1>5. CASE LinkUp
  <2> DEFINE new == <<Hop("connect", Accepted, gen)>>
  <2>1. /\ new \in Seq(HopSet) /\ Len(new) = 1
        /\ new[1].arg = Accepted /\ new[1].gen = gen
    BY <1>3 DEF Hop
  <2>2. hops' = hops \o new /\ link' = "up"
    BY <1>5 DEF LinkUp
  <2> HIDE DEF new
  <2>. QED BY <1>1, <2>1, <2>2, PostKeepsLink
<1>6. CASE Acked
  <2>1. CASE hops' = hops
    BY <1>1, <1>6, <2>1 DEF Acked, LinkInv, HandleTyped, DownAfter, RaisesLink,
                           DropsLink
  <2>2. ASSUME NEW mid \in Nat, hops' = hops \o <<Hop("publish", mid, gen)>>
        PROVE  LinkInv'
    <3> DEFINE new == <<Hop("publish", mid, gen)>>
    <3>1. /\ new \in Seq(HopSet) /\ Len(new) = 1
          /\ new[1].type = "publish" /\ new[1].gen = gen
      BY <1>3 DEF Hop
    <3>2. hops' = hops \o new /\ link' = "up"
      BY <1>6, <2>2 DEF Acked
    <3> HIDE DEF new
    <3>3. \A i \in 1..Len(new) : new[i].gen = gen /\ new[i].type # "connect"
      BY <3>1
    <3>4. mosq /\ UNCHANGED <<gen, mosq, connected>> /\ ~(link' # "up")
      BY <1>1, <3>2
    <3>. QED BY <3>1, <3>2, <3>3, <3>4, PostKeepsLink
  <2>. QED BY <1>6, <2>1, <2>2 DEF Acked
<1>7. CASE link = "down" /\ link' = "syn" /\ hops' = hops
  BY <1>1, <1>7 DEF LinkInv, HandleTyped, DownAfter, RaisesLink, DropsLink
<1>. QED BY <1>4, <1>5, <1>6, <1>7, NetworkEffect

\* Every step of the uplink keeps the link's story true.
LEMMA LinkStep ==
    ASSUME ~StampWindow, LinkInv, PacketsTyped, [Next]_vars
    PROVE  LinkInv'
<1>1. HandleTyped
  BY DEF LinkInv
<1>2. CASE LinkGone
  <2>1. hops' \in Seq(HopSet) /\ Len(hops') = 0
    BY <1>2 DEF LinkGone
  <2>2. gen' = 0 /\ mosq' = FALSE /\ connected' = FALSE /\ link' = "down"
    BY <1>2 DEF LinkGone
  <2>3. HandleTyped'
    BY <2>1, <2>2 DEF HandleTyped
  <2>. QED BY <2>1, <2>2, <2>3 DEF LinkInv
<1>3. CASE UNCHANGED linkVars
  BY <1>3 DEF linkVars, LinkInv, HandleTyped, DownAfter, RaisesLink, DropsLink
<1>. QED
  BY <1>1, <1>2, <1>3, LinkCalls, TakenKeepsLink, RetiredKeepsLink,
     NetworkKeepsLink

----------------------------------------------------------------------------
(* The messages in the handle and on the wire.                             *)

\* What may share a packet.
OneTopic(items) ==
    \A m, n \in items :
        /\ m.sid = n.sid /\ m.car = n.car
        /\ m.kind = "frame" <=> n.kind = "frame"

\* A packet of this handle: about one session and topic, under an id that has
\* been handed out.
OldPackets(next) == {p \in Packets : p.mid < next /\ OneTopic(p.items)}

\* No packet in the handle or on the wire has the next message id, nor has a
\* PUBACK of this handle.
PacketInv ==
    /\ PacketsTyped
    /\ outbox \in Seq(OldPackets(nextMid)) /\ wire \in Seq(OldPackets(nextMid))
    /\ \A i \in 1..Len(hops) :
          mosq /\ hops[i].type = "publish" /\ hops[i].gen = gen
          => hops[i].arg < nextMid

\* publish() that the library took.
Sent(packet) ==
    /\ mosq
    /\ packet \in Packets /\ packet.mid = nextMid /\ OneTopic(packet.items)
    /\ nextMid' = nextMid + 1
    /\ wire' \in {wire, Append(wire, packet)}
    /\ outbox' \in {outbox, Append(outbox, packet)}

\* publish() comes down to refused, or sent under the next id.
LEMMA PublishEffect ==
    ASSUME PacketsTyped, NEW items \in SUBSET Messages, OneTopic(items),
           NEW qos \in {0, 1}, NEW mid,
           Publish(items, qos, connected, mid) \/ Publish(items, qos, TRUE, mid)
    PROVE  \/ mid = NoMid /\ Unpublished
           \/ /\ mid = nextMid
              /\ \E packet \in Packets :
                    /\ Sent(packet) /\ packet.items = items
                    /\ qos = 1 => outbox' = Append(outbox, packet)
<1> DEFINE packet == [mid |-> nextMid, qos |-> qos, items |-> items]
<1>1. CASE mid = NoMid /\ Unpublished
  BY <1>1
<1>2. CASE /\ mosq
           /\ mid = nextMid
           /\ nextMid' = nextMid + 1
           /\ wire' = IF link = "down" THEN wire ELSE Append(wire, packet)
           /\ outbox' = IF qos = 1 THEN Append(outbox, packet) ELSE outbox
  <2>1. /\ packet \in Packets /\ packet.mid = nextMid /\ packet.items = items
        /\ OneTopic(packet.items)
    BY DEF PacketsTyped, Packets
  <2> HIDE DEF packet
  <2>2. Sent(packet) /\ (qos = 1 => outbox' = Append(outbox, packet))
    BY <1>2, <2>1 DEF Sent
  <2>. QED BY <1>2, <2>1, <2>2
<1>. QED BY <1>1, <1>2 DEF Publish

\* What a main-thread step does to the packets.
MaySend == Unpublished \/ \E packet \in Packets : Sent(packet)

\* A message on its own shares its packet with nothing.
LEMMA SingleSend ==
    ASSUME PacketsTyped, NEW m \in Messages, NEW qos \in {0, 1}, NEW mid,
           Publish({m}, qos, connected, mid)
    PROVE  MaySend
<1>1. {m} \in SUBSET Messages /\ OneTopic({m})
  BY DEF OneTopic
<1>. QED BY <1>1, PublishEffect DEF MaySend

\* dispatch() sends its message, or hands it to the spool.
LEMMA DispatchSends ==
    ASSUME PacketsTyped, NEW m \in Messages, NEW qos \in {0, 1}, Dispatch(m, qos)
    PROVE  MaySend
<1>1. CASE \E mid \in Mids \ {NoMid} : Publish({m}, qos, connected, mid)
  BY <1>1, SingleSend
<1>2. CASE Publish({m}, qos, connected, NoMid)
  BY <1>2, SingleSend
<1>3. CASE Unpublished
  BY <1>3 DEF MaySend
<1>. QED BY <1>1, <1>2, <1>3 DEF Dispatch

\* Whatever the drain batches is about one session and topic.
LEMMA RunHasOneTopic ==
    ASSUME NEW S, S \subseteq RowSet
    PROVE  /\ {Msg(r) : r \in PeekRun(S)} \in SUBSET Messages
           /\ OneTopic({Msg(r) : r \in PeekRun(S)})
<1>1. PeekRun(S) \subseteq S
  BY DEF PeekRun, Oldest
<1>2. \A r \in PeekRun(S) : r \in RowSet /\ r.id \in Nat /\ Msg(r) \in Messages
  BY <1>1 DEF RowSet, Msg, Messages
<1>3. ASSUME NEW p \in PeekRun(S), NEW q \in PeekRun(S)
      PROVE  SameTopic(p, q) /\ p.sid = q.sid
  <2>1. CASE p.id <= q.id
    BY <1>2, <2>1 DEF PeekRun
  <2>2. CASE q.id <= p.id
    BY <1>2, <2>2 DEF PeekRun
  <2>. QED BY <1>2, <2>1, <2>2
<1>4. ASSUME NEW p \in PeekRun(S), NEW q \in PeekRun(S)
      PROVE  /\ Msg(p).sid = Msg(q).sid /\ Msg(p).car = Msg(q).car
             /\ Msg(p).kind = "frame" <=> Msg(q).kind = "frame"
  BY <1>3 DEF SameTopic, Msg
<1>. QED BY <1>2, <1>4 DEF OneTopic

\* The drain's batch: what it carries, and what its PUBACK will release.
Batch(S, items, lastId) ==
    \E first, last \in PeekRun(S) :
        /\ \A r \in PeekRun(S) : first.id <= r.id /\ r.id <= last.id
        /\ \/ items = {Msg(r) : r \in PeekRun(S)} /\ lastId = last.id
           \/ items = {Msg(first)} /\ lastId = first.id

\* drainNext() stops the drain, or sends a batch and waits for it.
LEMMA DrainSends ==
    ASSUME PacketsTyped, NEW S, S \subseteq RowSet, NEW shown, DrainNext(S, shown)
    PROVE  \/ drain' = NoDrain /\ Unpublished
           \/ /\ drain'.active /\ drain'.mid = nextMid
              /\ \E packet \in Packets :
                    /\ Sent(packet) /\ outbox' = Append(outbox, packet)
                    /\ Batch(S, packet.items, drain'.lastId)
<1>1. CASE drain' = NoDrain /\ Unpublished
  BY <1>1
<1>2. ASSUME NEW items \in SUBSET Messages, NEW lastId, NEW mid,
             OneTopic(items), Batch(S, items, lastId), Publish(items, 1, TRUE, mid),
             drain' = IF mid = NoMid
                      THEN NoDrain
                      ELSE [active |-> TRUE, mid |-> mid, lastId |-> lastId]
      PROVE  \/ drain' = NoDrain /\ Unpublished
             \/ /\ drain'.active /\ drain'.mid = nextMid
                /\ \E packet \in Packets :
                      /\ Sent(packet) /\ outbox' = Append(outbox, packet)
                      /\ Batch(S, packet.items, drain'.lastId)
  <2>1. CASE mid = NoMid /\ Unpublished
    BY <1>2, <2>1
  <2>2. ASSUME mid = nextMid, NEW packet \in Packets, Sent(packet),
               packet.items = items, outbox' = Append(outbox, packet)
        PROVE  /\ drain'.active /\ drain'.mid = nextMid
               /\ Batch(S, packet.items, drain'.lastId)
    <3>1. mid # NoMid
      BY <2>2 DEF PacketsTyped, NoMid
    <3>. QED BY <1>2, <2>2, <3>1
  <2>3. \/ mid = NoMid /\ Unpublished
        \/ /\ mid = nextMid
           /\ \E packet \in Packets :
                 /\ Sent(packet) /\ packet.items = items
                 /\ outbox' = Append(outbox, packet)
    <3>1. 1 \in {0, 1}
      OBVIOUS
    <3>2. Publish(items, 1, TRUE, mid) /\ OneTopic(items)
      BY <1>2
    <3>3. \/ mid = NoMid /\ Unpublished
          \/ /\ mid = nextMid
             /\ \E packet \in Packets :
                   /\ Sent(packet) /\ packet.items = items
                   /\ 1 = 1 => outbox' = Append(outbox, packet)
      BY <3>1, <3>2, PublishEffect, Zenon
    <3>. QED BY <3>3
  <2>. QED BY <2>1, <2>2, <2>3
<1>3. ASSUME NEW first \in PeekRun(S), NEW last \in PeekRun(S), NEW mid,
             \A r \in PeekRun(S) : first.id <= r.id /\ r.id <= last.id,
             LET telemetry == first.kind = "frame" /\ first.car = config.car
                 batch == IF telemetry THEN PeekRun(S) ELSE {first}
             IN  /\ Publish({Msg(r) : r \in batch}, 1, TRUE, mid)
                 /\ drain' = IF mid = NoMid
                             THEN NoDrain
                             ELSE [active |-> TRUE, mid |-> mid,
                                   lastId |-> LastAcked(telemetry, first, last)]
      PROVE  \E items \in SUBSET Messages : \E lastId :
                /\ OneTopic(items) /\ Batch(S, items, lastId)
                /\ Publish(items, 1, TRUE, mid)
                /\ drain' = IF mid = NoMid
                            THEN NoDrain
                            ELSE [active |-> TRUE, mid |-> mid, lastId |-> lastId]
  <2>1. CASE first.kind = "frame" /\ first.car = config.car
    <3> DEFINE items == {Msg(r) : r \in PeekRun(S)}
    <3>1. /\ Publish(items, 1, TRUE, mid)
          /\ drain' = IF mid = NoMid
                      THEN NoDrain
                      ELSE [active |-> TRUE, mid |-> mid, lastId |-> last.id]
      BY <1>3, <2>1 DEF LastAcked
    <3>2. items \in SUBSET Messages /\ OneTopic(items) /\ Batch(S, items, last.id)
      BY <1>3, RunHasOneTopic DEF Batch
    <3> HIDE DEF items
    <3>. QED BY <3>1, <3>2
  <2>2. CASE ~(first.kind = "frame" /\ first.car = config.car)
    <3> DEFINE items == {Msg(r) : r \in {first}}
    <3>1. /\ Publish(items, 1, TRUE, mid)
          /\ drain' = IF mid = NoMid
                      THEN NoDrain
                      ELSE [active |-> TRUE, mid |-> mid, lastId |-> first.id]
      BY <1>3, <2>2 DEF LastAcked
    <3>2. items = {Msg(first)}
      OBVIOUS
    <3>3. items \in SUBSET Messages /\ OneTopic(items) /\ Batch(S, items, first.id)
      BY <1>3, <3>2, RunHasOneTopic DEF Batch, OneTopic
    <3> HIDE DEF items
    <3>. QED BY <3>1, <3>3
  <2>. QED BY <2>1, <2>2
<1>. QED BY <1>1, <1>2, <1>3 DEF DrainNext

\* The steps that start the packets over.
Emptied ==
    /\ outbox' = <<>> /\ wire' = <<>> /\ nextMid' = 1
    /\ cloud \subseteq cloud' /\ cloud' \subseteq Messages
    /\ hops' = <<>> \/ Retired

\* The messages on the wire are messages.
LEMMA ItemsTyped ==
    ASSUME PacketsTyped, NEW n \in 0..Len(wire)
    PROVE  Items(wire, n) \subseteq Messages
<1>1. \A i \in 1..n : wire[i] \in Packets
  BY DEF PacketsTyped
<1>. QED BY <1>1 DEF Items, Packets

\* teardown() and the end of the process start them over.
LEMMA EmptiedEffect ==
    ASSUME ~StampWindow, HandleTyped, PacketsTyped,
           ShutdownLink \/ ConnectToBroker \/ ConnectToBrokerFails \/ ClientGone
    PROVE  Emptied
<1>1. outbox' = <<>> /\ wire' = <<>> /\ nextMid' = 1
  BY DEF ShutdownLink, ConnectToBroker, ConnectToBrokerFails, ClientGone,
         FreshHandle
<1>2. hops' = <<>> \/ Retired
  BY RetireEffect DEF ClientGone
<1>3. \E taken \in 0..Len(wire) : cloud' = cloud \cup Items(wire, taken)
  BY DEF ShutdownLink, ConnectToBroker, ConnectToBrokerFails, ClientGone,
         RetireHandle
<1>. QED BY <1>1, <1>2, <1>3, ItemsTyped DEF Emptied, PacketsTyped

\* applyConfiguration() starts them over, or leaves the client alone.
LEMMA ApplyPackets ==
    ASSUME ~StampWindow, HandleTyped, PacketsTyped, NEW c, ApplyConfiguration(c)
    PROVE  Emptied \/ UNCHANGED clientVars
<1>1. \/ ShutdownLink \/ ConnectToBroker \/ ConnectToBrokerFails
      \/ UNCHANGED clientVars
  BY DEF ApplyConfiguration, ApplyEnabled, SwitchOff
<1>. QED BY <1>1, EmptiedEffect

\* A main-thread step that may send one packet and take one hop.
OneSend ==
    /\ MaySend
    /\ UNCHANGED <<gen, mosq, cloud>>
    /\ hops' = hops \/ (hops # <<>> /\ hops' = Tail(hops))

\* beginSession() and endSession() send one packet each.
LEMMA SessionSends ==
    ASSUME PacketsTyped, Handed, BeginSession \/ EndSession \/ NoSessionChange
    PROVE  MaySend
<1>. 1 \in {0, 1}
  OBVIOUS
<1>1. CASE BeginSession
  <2>1. Message("start", sids + 1, 0) \in Messages
    BY MessageTyped DEF Handed, Kinds
  <2>. QED BY <1>1, <2>1, DispatchSends DEF BeginSession
<1>2. CASE EndSession
  <2>1. Message("stop", sid, 0) \in Messages
    BY MessageTyped DEF Handed, Kinds
  <2>. QED BY <1>2, <2>1, DispatchSends DEF EndSession
<1>3. CASE NoSessionChange
  BY <1>3 DEF NoSessionChange, MaySend
<1>. QED BY <1>1, <1>2, <1>3

\* So does drainNext().
LEMMA DrainMaySend ==
    ASSUME PacketsTyped, NEW S, S \subseteq RowSet, NEW shown, DrainNext(S, shown)
    PROVE  MaySend
BY DrainSends DEF MaySend

\* The table a PUBACK leaves behind is a table.
LEMMA ReleasedRows ==
    ASSUME HandedInv, ReleaseThrough(drain.lastId)
    PROVE  SpoolInv' /\ rows' \subseteq RowSet
<1>1. drain.lastId \in Int
  BY DEF HandedInv, Handed
<1>2. SpoolInv'
  BY <1>1, ReleaseInv DEF HandedInv
<1>. QED BY <1>2 DEF SpoolInv, SpoolTypeOK

\* The hops the main thread takes send at most one packet.
LEMMA HopSends ==
    ASSUME HandedInv, PacketsTyped, TakesHop
    PROVE  OneSend
<1>1. rows \subseteq RowSet
  BY DEF HandedInv, SpoolInv, SpoolTypeOK
<1>2. UNCHANGED <<gen, mosq, cloud>> /\ hops # <<>> /\ hops' = Tail(hops)
  BY DEF TakesHop, ClientConnected, ClientError, ClientDisconnected,
         ClientPublished, StaleHop, HandleConnect, HandleDisconnect,
         HandlePublish, DropStaleHop, TakeHop
<1>3. ASSUME ClientConnected PROVE MaySend
  BY <1>1, <1>3, DrainMaySend DEF ClientConnected, MaySend
<1>4. ASSUME ClientError \/ ClientDisconnected \/ StaleHop PROVE MaySend
  BY <1>4 DEF ClientError, ClientDisconnected, StaleHop, HandleDisconnect,
              DropStaleHop, MaySend
<1>5. ASSUME ClientPublished PROVE MaySend
  <2>1. CASE Unpublished
    BY <2>1 DEF MaySend
  <2>2. ASSUME ReleaseThrough(drain.lastId), NEW shown, DrainNext(rows', shown)
        PROVE  MaySend
    BY <2>2, ReleasedRows, DrainMaySend
  <2>. QED BY <1>5, <2>1, <2>2 DEF ClientPublished
<1>. QED BY <1>2, <1>3, <1>4, <1>5 DEF TakesHop, OneSend

\* What every step of the uplink does to the packets.
LEMMA PacketCalls ==
    ASSUME ~StampWindow, HandedInv, HandleTyped, PacketsTyped, [Next]_vars
    PROVE  OneSend \/ Emptied \/ Network
<1>. Handed
  BY DEF HandedInv
<1>1. CASE TakesHop
  BY <1>1, HopSends
<1>2. CASE NotifyTick
  <2>1. BeginSession \/ EndSession \/ NoSessionChange
    BY <1>2 DEF NotifyTick
  <2>. QED
    BY <1>2, <2>1, SessionSends DEF NotifyTick, ClientAfterPublish, mainVars, OneSend
<1>3. CASE SaveSession
  <2>1. EndSession \/ NoSessionChange
    BY <1>3 DEF SaveSession
  <2>. QED
    BY <1>3, <2>1, SessionSends DEF SaveSession, ClientAfterPublish, mainVars, OneSend
<1>4. CASE SampleTick
  <2>1. Message("frame", sid, seq) \in Messages /\ 0 \in {0, 1}
    BY MessageTyped DEF Handed, Kinds
  <2>. QED
    BY <1>4, <2>1, DispatchSends DEF SampleTick, ClientAfterPublish, mainVars, OneSend
<1>5. CASE UNCHANGED clientVars
  BY <1>5 DEF clientVars, mainVars, libVars, OneSend, MaySend, Unpublished
<1>6. CASE CrossLine \/ ClearLine \/ Boot \/ UNCHANGED vars
  BY <1>5, <1>6 DEF CrossLine, ClearLine, Boot, vars
<1>7. CASE EditConfig
  BY <1>5, <1>7, ApplyPackets DEF EditConfig
<1>8. CASE Start
  BY <1>5, <1>8, ApplyPackets DEF Start
<1>9. CASE Unpair
  BY <1>9, EmptiedEffect DEF Unpair, SwitchOff
<1>10. CASE Shutdown
  BY <1>5, <1>10, EmptiedEffect DEF Shutdown
<1>11. CASE Exit \/ PowerCut
  BY <1>11, EmptiedEffect DEF Exit, PowerCut, ProcessEnds
<1>12. CASE NetworkStep
  BY <1>12 DEF NetworkStep
<1>. QED
  BY <1>1, <1>2, <1>3, <1>4, <1>6, <1>7, <1>8, <1>9, <1>10, <1>11, <1>12
     DEF Next, Driver, Process

----------------------------------------------------------------------------
(* Their invariant. *)

LEMMA SeqOfMore ==
    ASSUME NEW S, NEW T, S \subseteq T, NEW s \in Seq(S)
    PROVE  s \in Seq(T)
OBVIOUS

\* Forgetting an acknowledged message leaves the others.
LEMMA WithoutOne ==
    ASSUME NEW S, NEW s \in Seq(S), NEW i \in 1..Len(s)
    PROVE  /\ Without(s, i) \in Seq(S)
           /\ Len(Without(s, i)) = Len(s) - 1
           /\ \A j \in 1..(Len(s) - 1) :
                 Without(s, i)[j] = IF j < i THEN s[j] ELSE s[j + 1]
<1> DEFINE before == SubSeq(s, 1, i - 1)
           after == SubSeq(s, i + 1, Len(s))
<1>1. /\ before \in Seq(S) /\ Len(before) = i - 1
      /\ \A j \in 1..(i - 1) : before[j] = s[j]
  OBVIOUS
<1>2. /\ after \in Seq(S) /\ Len(after) = Len(s) - i
      /\ \A j \in 1..(Len(s) - i) : after[j] = s[i + j]
  OBVIOUS
<1>3. Without(s, i) = before \o after
  BY DEF Without
<1> HIDE DEF before, after
<1>4. /\ Without(s, i) \in Seq(S) /\ Len(Without(s, i)) = Len(s) - 1
      /\ \A j \in 1..(i - 1) : Without(s, i)[j] = before[j]
      /\ \A j \in 1..(Len(s) - i) : Without(s, i)[(i - 1) + j] = after[j]
  BY <1>1, <1>2, <1>3
<1>5. ASSUME NEW j \in 1..(Len(s) - 1), j >= i
      PROVE  Without(s, i)[j] = s[j + 1]
  <2>1. PICK k \in 1..(Len(s) - i) : (i - 1) + k = j /\ i + k = j + 1
    <3>1. /\ j - (i - 1) \in 1..(Len(s) - i)
          /\ (i - 1) + (j - (i - 1)) = j /\ i + (j - (i - 1)) = j + 1
      BY <1>5
    <3>. QED BY <3>1
  <2>2. Without(s, i)[(i - 1) + k] = after[k] /\ after[k] = s[i + k]
    BY <1>2, <1>4
  <2>. QED BY <2>1, <2>2
<1>. QED BY <1>1, <1>4, <1>5

\* Sending keeps the packets typed and uses up the next id.
LEMMA SendKeepsPackets ==
    ASSUME PacketInv, MaySend
    PROVE  /\ nextMid' \in {nextMid, nextMid + 1}
           /\ outbox' \in Seq(OldPackets(nextMid')) /\ wire' \in Seq(OldPackets(nextMid'))
           /\ outbox' \in Seq(Packets) /\ wire' \in Seq(Packets)
<1>1. OldPackets(nextMid) \subseteq Packets /\ nextMid \in Nat \ {0}
  BY DEF OldPackets, PacketInv, PacketsTyped
<1>2. CASE Unpublished
  BY <1>1, <1>2 DEF Unpublished, PacketInv, PacketsTyped
<1>3. ASSUME NEW packet \in Packets, Sent(packet)
      PROVE  /\ nextMid' = nextMid + 1
             /\ outbox' \in Seq(OldPackets(nextMid + 1))
             /\ wire' \in Seq(OldPackets(nextMid + 1))
             /\ outbox' \in Seq(Packets) /\ wire' \in Seq(Packets)
  <2>1. OldPackets(nextMid) \subseteq OldPackets(nextMid + 1)
    BY <1>1 DEF OldPackets, Packets
  <2>2. packet \in OldPackets(nextMid + 1)
    BY <1>1, <1>3 DEF OldPackets, Sent
  <2>3. /\ outbox \in Seq(OldPackets(nextMid + 1))
        /\ wire \in Seq(OldPackets(nextMid + 1))
    BY <2>1, SeqOfMore DEF PacketInv
  <2>4. /\ outbox' \in Seq(OldPackets(nextMid + 1))
        /\ wire' \in Seq(OldPackets(nextMid + 1))
    <3>1. /\ Append(outbox, packet) \in Seq(OldPackets(nextMid + 1))
          /\ Append(wire, packet) \in Seq(OldPackets(nextMid + 1))
      BY <2>2, <2>3
    <3>. QED BY <1>3, <2>3, <3>1 DEF Sent
  <2>5. OldPackets(nextMid + 1) \subseteq Packets
    BY DEF OldPackets
  <2>. QED BY <1>3, <2>4, <2>5, SeqOfMore DEF Sent
<1>. QED BY <1>2, <1>3 DEF MaySend, Unpublished, PacketInv, PacketsTyped

LEMMA OneSendKeepsPackets ==
    ASSUME HandleTyped, PacketInv, OneSend
    PROVE  PacketInv'
<1>1. /\ nextMid' \in {nextMid, nextMid + 1}
      /\ outbox' \in Seq(OldPackets(nextMid')) /\ wire' \in Seq(OldPackets(nextMid'))
      /\ outbox' \in Seq(Packets) /\ wire' \in Seq(Packets)
  BY SendKeepsPackets DEF OneSend
<1>2. PacketsTyped'
  BY <1>1 DEF PacketInv, PacketsTyped, OneSend
<1>3. hops \in Seq(HopSet)
  BY DEF HandleTyped
<1>4. \A i \in 1..Len(hops) : hops[i].arg \in Int
  <2>1. \A i \in 1..Len(hops) : hops[i] \in HopSet
    BY <1>3
  <2>. QED BY <2>1 DEF HopSet
<1>5. \A i \in 1..Len(hops) :
         mosq /\ hops[i].type = "publish" /\ hops[i].gen = gen
         => hops[i].arg < nextMid'
  BY <1>1, <1>4 DEF PacketInv, PacketsTyped
<1>6. CASE hops' = hops
  BY <1>1, <1>2, <1>5, <1>6 DEF PacketInv, OneSend
<1>7. CASE hops # <<>> /\ hops' = Tail(hops)
  <2>1. /\ Len(hops') = Len(hops) - 1 /\ Len(hops) \in Nat
        /\ \A i \in 1..Len(hops') : i + 1 \in 1..Len(hops) /\ hops'[i] = hops[i + 1]
    BY <1>3, <1>7
  <2>. QED BY <1>1, <1>2, <1>5, <2>1 DEF PacketInv, OneSend
<1>. QED BY <1>6, <1>7 DEF OneSend

LEMMA EmptiedKeepsPackets ==
    ASSUME LinkInv, PacketInv, Emptied
    PROVE  PacketInv'
<1>1. PacketsTyped'
  BY DEF Emptied, PacketsTyped
<1>2. \A i \in 1..Len(hops') : hops'[i].gen # gen'
  <2>1. CASE hops' = <<>>
    BY <2>1
  <2>2. CASE Retired
    <3>1. hops \in Seq(HopSet) /\ gen \in Nat /\ hops' = hops /\ gen' > gen
      BY <2>2 DEF Retired, LinkInv, HandleTyped
    <3>2. \A i \in 1..Len(hops) : hops[i] \in HopSet
      BY <3>1
    <3>. QED BY <3>1, <3>2 DEF LinkInv, HopSet
  <2>. QED BY <2>1, <2>2 DEF Emptied
<1>3. outbox' \in Seq(OldPackets(nextMid')) /\ wire' \in Seq(OldPackets(nextMid'))
  BY DEF Emptied
<1>. QED BY <1>1, <1>2, <1>3 DEF PacketInv

LEMMA NetworkKeepsPackets ==
    ASSUME LinkInv, PacketInv, Network
    PROVE  PacketInv'
<1>1. /\ hops \in Seq(HopSet) /\ HandleTyped /\ PacketsTyped
      /\ outbox \in Seq(OldPackets(nextMid)) /\ wire \in Seq(OldPackets(nextMid))
  BY DEF LinkInv, HandleTyped, PacketInv
<1>2. UNCHANGED <<gen, mosq, nextMid>>
  BY DEF Network, Reconnect, Connack, ConnackRefused, LoseConnection, BrokerTakes,
         NetUnchanged, mainVars
<1>3. outbox' \in Seq(OldPackets(nextMid)) /\ wire' \in Seq(OldPackets(nextMid))
  <2>1. CASE BrokerTakes
    <3>1. wire' \in Seq(OldPackets(nextMid))
      BY <1>1, <2>1 DEF BrokerTakes
    <3>2. outbox' = outbox \/ \E i \in 1..Len(outbox) : outbox' = Without(outbox, i)
      BY <2>1 DEF BrokerTakes
    <3>. QED BY <1>1, <3>1, <3>2, WithoutOne
  <2>2. CASE Reconnect \/ Connack \/ ConnackRefused \/ LoseConnection
    <3>1. /\ wire \o outbox \in Seq(OldPackets(nextMid))
          /\ <<>> \in Seq(OldPackets(nextMid))
      BY <1>1
    <3>2. outbox' = outbox /\ wire' \in {wire, wire \o outbox, <<>>}
      BY <2>2 DEF Reconnect, Connack, ConnackRefused, LoseConnection
    <3>. QED BY <1>1, <3>1, <3>2
  <2>. QED BY <2>1, <2>2 DEF Network
<1>4. outbox' \in Seq(Packets) /\ wire' \in Seq(Packets)
  <2>1. OldPackets(nextMid) \subseteq Packets
    BY DEF OldPackets
  <2>. QED BY <1>3, <2>1, SeqOfMore
<1>5. cloud' \subseteq Messages
  <2>1. CASE BrokerTakes
    <3>1. Head(wire) \in Packets
      BY <1>1, <2>1 DEF BrokerTakes, PacketsTyped
    <3>. QED BY <1>1, <2>1, <3>1 DEF BrokerTakes, Packets, PacketsTyped
  <2>2. CASE LoseConnection
    BY <1>1, <2>2, ItemsTyped DEF LoseConnection, PacketsTyped
  <2>3. CASE Reconnect \/ Connack \/ ConnackRefused
    BY <1>1, <2>3 DEF Reconnect, Connack, ConnackRefused, PacketsTyped
  <2>. QED BY <2>1, <2>2, <2>3 DEF Network
<1>6. \E new \in Seq(HopSet) :
         /\ hops' = hops \o new
         /\ \A i \in 1..Len(new) :
               mosq /\ new[i].type = "publish" => new[i].arg < nextMid
  <2>0. /\ Hop("disconnect", 1, gen) \in HopSet
        /\ Hop("connect", Refused, gen) \in HopSet
        /\ Hop("connect", Accepted, gen) \in HopSet
        /\ \A mid \in Nat : Hop("publish", mid, gen) \in HopSet
    BY <1>1, HopTyped DEF HopTypes, Refused, Accepted
  <2>1. CASE hops' = hops
    <3> DEFINE new == <<>>
    <3>1. /\ hops' = hops \o new /\ new \in Seq(HopSet)
          /\ \A i \in 1..Len(new) : FALSE
      BY <1>1, <2>1
    <3> HIDE DEF new
    <3>. QED BY <3>1
  <2>2. CASE BrokerTakes /\ hops' = hops \o <<Hop("publish", Head(wire).mid, gen)>>
    <3> DEFINE new == <<Hop("publish", Head(wire).mid, gen)>>
    <3>1. Head(wire) \in OldPackets(nextMid)
      BY <1>1, <2>2 DEF BrokerTakes
    <3>2. Head(wire).mid \in Nat /\ Head(wire).mid < nextMid
      BY <3>1 DEF OldPackets, Packets
    <3>3. new \in Seq(HopSet) /\ Len(new) = 1 /\ new[1].arg < nextMid
      BY <2>0, <3>2 DEF Hop
    <3> HIDE DEF new
    <3>4. hops' = hops \o new /\ \A i \in 1..Len(new) : new[i].arg < nextMid
      BY <2>2, <3>3 DEF new
    <3>. QED BY <3>3, <3>4
  <2>3. ASSUME NEW h \in HopSet, h.type # "publish", hops' = hops \o <<h>>
        PROVE  \E new \in Seq(HopSet) :
                  /\ hops' = hops \o new
                  /\ \A i \in 1..Len(new) : new[i].type # "publish"
    <3> DEFINE new == <<h>>
    <3>1. new \in Seq(HopSet) /\ \A i \in 1..Len(new) : new[i].type # "publish"
      BY <2>3
    <3>. QED BY <2>3, <3>1
  <2>4. CASE \/ hops' = hops \o <<Hop("connect", Accepted, gen)>>
             \/ hops' = hops \o <<Hop("disconnect", 1, gen)>>
    <3>1. /\ Hop("connect", Accepted, gen).type # "publish"
          /\ Hop("disconnect", 1, gen).type # "publish"
      BY DEF Hop
    <3>. QED BY <2>0, <2>3, <2>4, <3>1
  <2>5. CASE hops' = hops \o <<Hop("connect", Refused, gen), Hop("disconnect", 1, gen)>>
    <3> DEFINE new == <<Hop("connect", Refused, gen), Hop("disconnect", 1, gen)>>
    <3>1. /\ new \in Seq(HopSet) /\ Len(new) = 2
          /\ new[1].type # "publish" /\ new[2].type # "publish"
      BY <2>0 DEF Hop
    <3> HIDE DEF new
    <3>2. hops' = hops \o new /\ \A i \in 1..Len(new) : new[i].type # "publish"
      BY <2>5, <3>1 DEF new
    <3>. QED BY <3>1, <3>2
  <2>. QED
    BY <2>1, <2>2, <2>4, <2>5
       DEF Network, Reconnect, Connack, ConnackRefused, LoseConnection, BrokerTakes, Post
<1>7. \A i \in 1..Len(hops') :
         mosq /\ hops'[i].type = "publish" /\ hops'[i].gen = gen
         => hops'[i].arg < nextMid
  <2>1. PICK new \in Seq(HopSet) :
         /\ hops' = hops \o new
         /\ \A i \in 1..Len(new) :
               mosq /\ new[i].type = "publish" => new[i].arg < nextMid
    BY <1>6
  <2>2. /\ Len(hops') = Len(hops) + Len(new) /\ Len(hops) \in Nat /\ Len(new) \in Nat
        /\ \A i \in 1..Len(hops) : hops'[i] = hops[i]
        /\ \A i \in 1..Len(new) : hops'[Len(hops) + i] = new[i]
    BY <1>1, <2>1, PostTyped
  <2>3. ASSUME NEW i \in 1..Len(hops'), i > Len(hops)
        PROVE  i - Len(hops) \in 1..Len(new) /\ hops'[i] = new[i - Len(hops)]
    <3>1. i - Len(hops) \in 1..Len(new) /\ Len(hops) + (i - Len(hops)) = i
      BY <2>2, <2>3
    <3>. QED BY <2>2, <3>1
  <2>4. \A i \in 1..Len(hops') : i \in 1..Len(hops) \/ i > Len(hops)
    BY <2>2
  <2>. QED BY <2>1, <2>2, <2>3, <2>4 DEF PacketInv
<1>8. PacketsTyped'
  BY <1>2, <1>4, <1>5 DEF PacketInv, PacketsTyped
<1>. QED BY <1>2, <1>3, <1>7, <1>8 DEF PacketInv

----------------------------------------------------------------------------
(* The page. *)

\* The page tells the truth because a handle exists only while the uplink is
\* started, switched on and configured.
PageInv ==
    /\ mosq => proc = "up" /\ config.enabled /\ Configured(config)
    /\ queued = SpoolCount
    /\ proc = "up" =>
          /\ state = "Online" <=> connected
          /\ state = "Disabled" <=> ~config.enabled
          /\ state = "Unconfigured" <=> config.enabled /\ ~Configured(config)

\* The number of queued frames follows the table.
LEMMA QueuedFollows ==
    ASSUME queued = SpoolCount, Refresh \/ UNCHANGED <<spoolVars, queued>>
    PROVE  (queued = SpoolCount)'
BY DEF Refresh, SpoolCount, spoolVars

LEMMA DispatchRefreshes ==
    ASSUME NEW m, NEW qos, Dispatch(m, qos)
    PROVE  Refresh \/ UNCHANGED <<spoolVars, queued>>
BY DEF Dispatch

LEMMA SessionRefreshes ==
    ASSUME BeginSession \/ EndSession \/ NoSessionChange
    PROVE  Refresh \/ UNCHANGED <<spoolVars, queued>>
BY DispatchRefreshes DEF BeginSession, EndSession, NoSessionChange

\* The hops the main thread takes keep the page true.
LEMMA HopKeepsPage ==
    ASSUME LinkInv, PageInv, TakesHop
    PROVE  PageInv'
<1>1. UNCHANGED <<proc, config, mosq>>
  BY DEF TakesHop, ClientConnected, ClientError, ClientDisconnected,
         ClientPublished, StaleHop, HandleConnect, HandleDisconnect,
         HandlePublish, DropStaleHop, TakeHop
<1>2. (queued = SpoolCount)'
  <2>1. CASE ClientConnected
    <3>1. Refresh \/ UNCHANGED <<spoolVars, queued>>
      BY <2>1 DEF ClientConnected, DrainNext
    <3>. QED BY <3>1, QueuedFollows DEF PageInv
  <2>2. CASE ClientError \/ ClientDisconnected \/ StaleHop
    BY <2>2, QueuedFollows DEF ClientError, ClientDisconnected, StaleHop, modelVars,
                               PageInv
  <2>3. CASE ClientPublished
    <3>1. \/ Refresh \/ UNCHANGED <<spoolVars, queued>>
          \/ queued' = IF db' = "open" THEN rowCount' ELSE 0
      BY <2>3 DEF ClientPublished, DrainNext
    <3>. QED BY <3>1, QueuedFollows DEF PageInv, Refresh
  <2>. QED BY <2>1, <2>2, <2>3 DEF TakesHop
<1>3. CASE ClientConnected
  <2>1. mosq /\ state' = "Online" /\ connected' = TRUE
    BY <1>3 DEF ClientConnected, HandleConnect, Stale, Accepted
  <2>. QED BY <1>1, <1>2, <2>1 DEF PageInv, Configured
<1>4. CASE ClientError
  <2>1. /\ mosq /\ ~connected'
        /\ state' = IF ~config.enabled THEN state
                    ELSE IF Configured(config) THEN "Offline" ELSE "Unconfigured"
    <3>1. mosq /\ connected' = (Refused = Accepted)
      BY <1>4 DEF ClientError, HandleConnect, Stale
    <3>2. Refused # Accepted
      BY DEF Refused, Accepted
    <3>3. state' = IF ~config.enabled THEN state
                   ELSE IF Configured(config) THEN "Offline" ELSE "Unconfigured"
      BY <1>4 DEF ClientError
    <3>. QED BY <3>1, <3>2, <3>3
  <2>. QED BY <1>1, <1>2, <2>1 DEF PageInv, Configured
<1>5. CASE ClientDisconnected
  <2>1. /\ mosq /\ connected' = FALSE
        /\ state' = IF connected THEN AfterLinkLost ELSE state
    BY <1>5 DEF ClientDisconnected, HandleDisconnect, Stale
  <2>. QED BY <1>1, <1>2, <2>1 DEF PageInv, Configured, AfterLinkLost
<1>6. CASE ClientPublished \/ StaleHop
  <2>1. UNCHANGED <<connected, state>>
    BY <1>6 DEF ClientPublished, StaleHop, HandlePublish, DropStaleHop, modelVars
  <2>. QED BY <1>1, <1>2, <2>1 DEF PageInv, Configured
<1>. QED BY <1>3, <1>4, <1>5, <1>6 DEF TakesHop

\* Applying configuration c starts the page over.
LEMMA ApplyKeepsPage ==
    ASSUME HandleTyped, PageInv, NEW c, ApplyConfiguration(c), config' = c,
           proc' = "up",
           mosq /\ c.enabled => Configured(c), connected => mosq
    PROVE  PageInv'
<1>1. (queued = SpoolCount)'
  BY QueuedFollows DEF ApplyConfiguration, ApplyEnabled, PageInv
<1>2. CASE ~c.enabled
  <2>1. /\ mosq' = FALSE /\ connected' = FALSE /\ state' = "Disabled"
    BY <1>2 DEF ApplyConfiguration, SwitchOff, ShutdownLink
  <2>. QED BY <1>1, <1>2, <2>1 DEF PageInv
<1>3. CASE c.enabled /\ ~Configured(c)
  <2>1. UNCHANGED <<mosq, connected>> /\ state' = "Unconfigured"
    BY <1>3 DEF ApplyConfiguration, ApplyEnabled, clientVars, mainVars
  <2>2. ~mosq /\ ~connected
    BY <1>3
  <2>. QED BY <1>1, <1>3, <2>1, <2>2 DEF PageInv, Configured
<1>4. CASE c.enabled /\ Configured(c)
  <2>1. /\ connected' = FALSE
        /\ state' \in {"Connecting", "Offline"}
    BY <1>4 DEF ApplyConfiguration, ApplyEnabled, ConnectToBroker,
                ConnectToBrokerFails
  <2>. QED BY <1>1, <1>4, <2>1 DEF PageInv, Configured
<1>. QED BY <1>2, <1>3, <1>4

\* Every step of the uplink keeps the page true.
LEMMA PageStep ==
    ASSUME LinkInv, PacketsTyped, HandedInv, PageInv, [Next]_vars
    PROVE  PageInv'
<1>. HandleTyped /\ (connected => mosq)
  BY DEF LinkInv, HandleTyped
<1>1. CASE TakesHop
  BY <1>1, HopKeepsPage
<1>2. CASE NotifyTick \/ SampleTick \/ SaveSession
  <2>1. UNCHANGED <<mosq, connected, proc, config, state>>
    BY <1>2 DEF NotifyTick, SampleTick, SaveSession, ClientAfterPublish, mainVars
  <2>2. (queued = SpoolCount)'
    BY <1>2, SessionRefreshes, DispatchRefreshes, QueuedFollows
       DEF NotifyTick, SampleTick, SaveSession, PageInv
  <2>. QED BY <2>1, <2>2 DEF PageInv, Configured
<1>3. CASE Start
  <2>1. ~mosq
    BY <1>3 DEF Start, PageInv
  <2>. QED BY <1>3, <2>1, ApplyKeepsPage DEF Start
<1>4. CASE EditConfig
  <2>1. config \in [enabled : BOOLEAN, car : Devices, cred : BOOLEAN]
    BY DEF HandedInv, Handed
  <2>2. mosq => config.car # NoCar /\ config.cred
    BY DEF PageInv, Configured
  <2>3. CASE config' = [config EXCEPT !.enabled = ~@]
    <3>1. config'.car = config.car /\ config'.cred = config.cred
      BY <2>1, <2>3
    <3>. QED BY <1>4, <2>2, <3>1, ApplyKeepsPage DEF EditConfig, Configured
  <2>4. CASE config' = [config EXCEPT !.cred = TRUE]
    <3>1. config'.car = config.car /\ config'.cred
      BY <2>1, <2>4
    <3>. QED BY <1>4, <2>2, <3>1, ApplyKeepsPage DEF EditConfig, Configured
  <2>5. ASSUME NEW car \in Cars, config' = [config EXCEPT !.car = car]
        PROVE  PageInv'
    <3>1. config'.car = car /\ config'.cred = config.cred /\ car # NoCar
      BY <2>1, <2>5, SpoolAssumption DEF SpoolAssumption
    <3>. QED BY <1>4, <2>2, <3>1, ApplyKeepsPage DEF EditConfig, Configured
  <2>6. config' \in ConfigEdits
    BY <1>4 DEF EditConfig
  <2>. QED BY <2>3, <2>4, <2>5, <2>6 DEF ConfigEdits
<1>5. CASE Unpair
  <2>1. config \in [enabled : BOOLEAN, car : Devices, cred : BOOLEAN]
    BY DEF HandedInv, Handed
  <2>2. /\ mosq' = FALSE /\ connected' = FALSE /\ state' = "Disabled"
        /\ ~config'.enabled /\ Refresh
    BY <1>5, <2>1 DEF Unpair, SwitchOff, ShutdownLink
  <2>. QED BY <2>2, QueuedFollows DEF PageInv
<1>6. CASE Shutdown
  <2>1. proc' = "quit" /\ ~mosq'
    BY <1>6 DEF Shutdown, ShutdownLink, PageInv, clientVars, mainVars
  <2>2. Refresh \/ UNCHANGED <<spoolVars, queued>>
    BY <1>6 DEF Shutdown
  <2>. QED BY <2>1, <2>2, QueuedFollows DEF PageInv
<1>7. CASE Exit \/ PowerCut
  BY <1>7 DEF Exit, PowerCut, ProcessEnds, ClientGone, CloseCleanly, LosePower,
              PageInv, SpoolCount
<1>8. CASE Boot
  <2>1. /\ UNCHANGED <<mosq, queued, rows, db, rowCount>>
        /\ proc = "off" /\ proc' = "boot"
    BY <1>8 DEF Boot, clientVars, mainVars, spoolVars
  <2>. QED BY <2>1 DEF PageInv, SpoolCount
<1>9. CASE NetworkStep
  <2>1. UNCHANGED <<mosq, connected, proc, config, state, queued, db, rowCount>>
    BY <1>9, NetworkEffect DEF NetworkStep, spoolVars, modelVars
  <2>. QED BY <2>1 DEF PageInv, Configured, SpoolCount
<1>10. CASE CrossLine \/ ClearLine \/ UNCHANGED vars
  <2>1. UNCHANGED <<mosq, connected, proc, config, state, queued, db, rowCount>>
    BY <1>10 DEF CrossLine, ClearLine, vars, clientVars, mainVars, spoolVars, modelVars
  <2>. QED BY <2>1 DEF PageInv, Configured, SpoolCount
<1>. QED
  BY <1>1, <1>2, <1>3, <1>4, <1>5, <1>6, <1>7, <1>8, <1>9, <1>10
     DEF Next, Driver, Process

----------------------------------------------------------------------------
\* What holds of link, packets and page together.
ClientInv ==
    /\ ~StampWindow
    /\ HandedInv /\ LinkInv /\ PacketInv /\ PageInv

LEMMA ClientStart == ~StampWindow /\ Init => ClientInv
<1> SUFFICES ASSUME ~StampWindow, Init PROVE ClientInv
  OBVIOUS
<1>1. HandedInv
  BY WorkloadInit DEF Init, HandedInv, Handed, NoDrain
<1>2. LinkInv
  <2>1. /\ gen = 0 /\ mosq = FALSE /\ connected = FALSE /\ link = "down"
        /\ hops \in Seq(HopSet) /\ Len(hops) = 0
    BY DEF Init, ClientInit
  <2>2. HandleTyped
    BY <2>1 DEF HandleTyped
  <2>. QED BY <2>1, <2>2 DEF LinkInv
<1>3. PacketInv
  BY DEF Init, ClientInit, PacketInv, PacketsTyped
<1>4. PageInv
  BY DEF Init, ClientInit, SpoolInit, PageInv, SpoolCount
<1>. QED BY <1>1, <1>2, <1>3, <1>4 DEF ClientInv

LEMMA ClientStep == ClientInv /\ [Next]_vars => ClientInv'
<1> SUFFICES ASSUME ClientInv, [Next]_vars PROVE ClientInv'
  OBVIOUS
<1>. /\ ~StampWindow /\ HandedInv /\ LinkInv /\ PacketInv /\ PageInv
     /\ PacketsTyped /\ HandleTyped
  BY DEF ClientInv, PacketInv, LinkInv
<1>1. HandedInv'
  BY UplinkCalls, WorkloadStep DEF HandedInv
<1>2. LinkInv'
  BY LinkStep
<1>3. PacketInv'
  BY PacketCalls, OneSendKeepsPackets, EmptiedKeepsPackets, NetworkKeepsPackets
<1>4. PageInv'
  BY PageStep
<1>. QED BY <1>1, <1>2, <1>3, <1>4 DEF ClientInv

\* The main thread's picture of its MQTT client is right, whichever order the
\* callbacks arrive in and whatever connections, settings and processes end.
THEOREM ClientIsSound == ~StampWindow /\ Spec => []ClientInv
BY ClientStart, ClientStep, PTL DEF Spec

\* The client believes it is connected only to a handle that got its CONNACK,
\* or whose disconnect is on its way.
THEOREM ConnectedAlwaysReal == ~StampWindow /\ Spec => []ConnectedIsReal
<1>1. ClientInv => ConnectedIsReal
  BY DEF ClientInv, LinkInv, HandleTyped, DownAfter, DropsLink, ConnectedIsReal,
         Pending
<1>. QED BY <1>1, ClientIsSound, PTL

\* The settings page tells the truth about the link and the backlog.
THEOREM StateAlwaysTrue == ~StampWindow /\ Spec => []StateIsTrue
<1>1. ClientInv => StateIsTrue
  BY DEF ClientInv, LinkInv, PageInv, StateIsTrue
<1>. QED BY <1>1, ClientIsSound, PTL

\* A packet is about one session and one topic, however the drain batches.
THEOREM EnvelopeAlwaysOneSession ==
    ~StampWindow /\ Spec => []EnvelopeHasOneSession
<1>1. ClientInv => EnvelopeHasOneSession
  <2>1. ClientInv => \A i \in 1..Len(outbox) : outbox[i] \in OldPackets(nextMid)
    BY DEF ClientInv, PacketInv
  <2>. QED BY <2>1 DEF OldPackets, OneTopic, EnvelopeHasOneSession
<1>. QED BY <1>1, ClientIsSound, PTL

----------------------------------------------------------------------------
(* The batch in flight. *)

\* The elements of a sequence.
In(s) == {s[i] : i \in 1..Len(s)}

LEMMA InAppend ==
    ASSUME NEW S, NEW s \in Seq(S), NEW x \in S
    PROVE  In(Append(s, x)) = In(s) \cup {x}
<1>1. /\ Len(Append(s, x)) = Len(s) + 1 /\ Len(s) \in Nat
      /\ \A i \in 1..Len(s) : Append(s, x)[i] = s[i]
      /\ Append(s, x)[Len(s) + 1] = x
  OBVIOUS
<1>2. Len(s) + 1 \in 1..(Len(s) + 1) /\ 1..Len(s) \subseteq 1..(Len(s) + 1)
  BY <1>1
<1>3. \A i \in 1..(Len(s) + 1) : i \in 1..Len(s) \/ i = Len(s) + 1
  BY <1>1
<1>. QED BY <1>1, <1>2, <1>3 DEF In

LEMMA InConcat ==
    ASSUME NEW S, NEW s \in Seq(S), NEW t \in Seq(S)
    PROVE  In(s \o t) = In(s) \cup In(t)
<1>1. /\ Len(s \o t) = Len(s) + Len(t) /\ Len(s) \in Nat /\ Len(t) \in Nat
      /\ \A i \in 1..Len(s) : (s \o t)[i] = s[i]
      /\ \A i \in 1..Len(t) : (s \o t)[Len(s) + i] = t[i]
  OBVIOUS
<1>2. /\ 1..Len(s) \subseteq 1..(Len(s) + Len(t))
      /\ \A i \in 1..Len(t) : Len(s) + i \in 1..(Len(s) + Len(t))
  BY <1>1
<1>3. \A i \in 1..(Len(s) + Len(t)) :
         i \in 1..Len(s) \/ \E j \in 1..Len(t) : i = Len(s) + j
  <2>1. \A i \in 1..(Len(s) + Len(t)) :
           i \in 1..Len(s) \/ (i - Len(s) \in 1..Len(t) /\ i = Len(s) + (i - Len(s)))
    BY <1>1
  <2>. QED BY <2>1
<1>4. In(s \o t) \subseteq In(s) \cup In(t)
  BY <1>1, <1>3 DEF In
<1>5. In(s) \cup In(t) \subseteq In(s \o t)
  BY <1>1, <1>2 DEF In
<1>. QED BY <1>4, <1>5

LEMMA InTail ==
    ASSUME NEW S, NEW s \in Seq(S), s # <<>>
    PROVE  In(s) = In(Tail(s)) \cup {Head(s)} /\ Head(s) \in In(s)
<1>1. /\ Len(Tail(s)) = Len(s) - 1 /\ Len(s) \in Nat /\ Len(s) >= 1
      /\ Head(s) = s[1]
      /\ \A i \in 1..(Len(s) - 1) : Tail(s)[i] = s[i + 1]
  OBVIOUS
<1>2. /\ 1 \in 1..Len(s)
      /\ \A i \in 1..(Len(s) - 1) : i + 1 \in 1..Len(s)
  BY <1>1
<1>3. \A i \in 1..Len(s) : i = 1 \/ \E j \in 1..(Len(s) - 1) : i = j + 1
  <2>1. \A i \in 1..Len(s) : i = 1 \/ (i - 1 \in 1..(Len(s) - 1) /\ i = (i - 1) + 1)
    BY <1>1
  <2>. QED BY <2>1
<1>4. In(s) \subseteq In(Tail(s)) \cup {Head(s)}
  BY <1>1, <1>3 DEF In
<1>5. In(Tail(s)) \subseteq In(s) /\ Head(s) \in In(s)
  BY <1>1, <1>2 DEF In
<1>. QED BY <1>4, <1>5

LEMMA InWithout ==
    ASSUME NEW S, NEW s \in Seq(S), NEW i \in 1..Len(s)
    PROVE  In(s) = In(Without(s, i)) \cup {s[i]}
<1>1. /\ Len(Without(s, i)) = Len(s) - 1 /\ Len(s) \in Nat
      /\ \A j \in 1..(Len(s) - 1) :
            Without(s, i)[j] = IF j < i THEN s[j] ELSE s[j + 1]
  BY WithoutOne
<1>2. \A j \in 1..(Len(s) - 1) : j \in 1..Len(s) /\ j + 1 \in 1..Len(s)
  BY <1>1
<1>3. In(Without(s, i)) \subseteq In(s) /\ s[i] \in In(s)
  BY <1>1, <1>2 DEF In
<1>4. ASSUME NEW j \in 1..Len(s), j # i
      PROVE  s[j] \in In(Without(s, i))
  <2>1. CASE j < i
    <3>1. j \in 1..(Len(s) - 1)
      BY <2>1
    <3>. QED BY <1>1, <2>1, <3>1 DEF In
  <2>2. CASE j > i
    <3>1. PICK k \in 1..(Len(s) - 1) : k + 1 = j /\ ~(k < i)
      <4>1. j - 1 \in 1..(Len(s) - 1) /\ (j - 1) + 1 = j /\ ~(j - 1 < i)
        BY <2>2
      <4>. QED BY <4>1
    <3>2. Without(s, i)[k] = s[k + 1]
      BY <1>1, <3>1
    <3>. QED BY <1>1, <3>1, <3>2 DEF In
  <2>. QED BY <1>4, <2>1, <2>2
<1>5. In(s) \subseteq In(Without(s, i)) \cup {s[i]}
  BY <1>4 DEF In
<1>. QED BY <1>3, <1>5

\* items hold every row the drain will release.
Carried(items) == \A r \in rows : r.id <= drain.lastId => Msg(r) \in items

\* The PUBACK of the batch, on its way to the main thread.
IsAckHop(h) == h.type = "publish" /\ h.gen = gen /\ h.arg = drain.mid

\* While a batch is in flight the main thread believes in the link; wherever
\* the batch is, it carries every row its PUBACK will release; and something
\* is still to come that ends the wait.
DrainInv ==
    drain.active =>
        /\ connected
        /\ drain.mid \in Nat /\ drain.mid < nextMid
        /\ drain.lastId < nextId
        /\ \A p \in In(outbox) \cup In(wire) :
              p.mid = drain.mid => Carried(p.items)
        /\ (\E h \in In(hops) : IsAckHop(h)) => Carried(cloud)
        /\ \/ \E p \in In(outbox) : p.mid = drain.mid
           \/ \E h \in In(hops) : DropsLink(h) \/ IsAckHop(h)

\* A batch carries every row up to the one its PUBACK names.
LEMMA BatchCarries ==
    ASSUME NEW S, S \subseteq RowSet, IsFiniteSet(S), OneRowPerId(S),
           NEW items, NEW lastId, Batch(S, items, lastId)
    PROVE  /\ \A r \in S : r.id <= lastId => Msg(r) \in items
           /\ \E r \in S : lastId = r.id
<1>1. PICK first \in PeekRun(S), last \in PeekRun(S) :
         /\ \A r \in PeekRun(S) : first.id <= r.id /\ r.id <= last.id
         /\ \/ items = {Msg(r) : r \in PeekRun(S)} /\ lastId = last.id
            \/ items = {Msg(first)} /\ lastId = first.id
  BY DEF Batch
<1>2. BatchSize \in Int
  BY SpoolAssumption DEF SpoolAssumption
<1>3. PeekRun(S) \subseteq Oldest(BatchSize, S) /\ Oldest(BatchSize, S) \subseteq S
  BY DEF PeekRun, Oldest
<1>4. \A r \in S : r.id \in Nat
  BY DEF RowSet
<1>5. ASSUME NEW top \in PeekRun(S), NEW r \in S, r.id <= top.id
      PROVE  r \in PeekRun(S)
  <2>1. r \in Oldest(BatchSize, S)
    <3>1. r \notin Oldest(BatchSize, S) => top.id < r.id
      BY <1>2, <1>3, OldestIsFront
    <3>. QED BY <1>3, <1>4, <1>5, <3>1
  <2>2. ASSUME NEW p \in Oldest(BatchSize, S), NEW q \in Oldest(BatchSize, S),
               p.id <= r.id, q.id <= r.id
        PROVE  SameTopic(p, q) /\ p.sid = q.sid
    <3>1. p.id <= top.id /\ q.id <= top.id
      BY <1>3, <1>4, <1>5, <2>2
    <3>. QED BY <3>1 DEF PeekRun
  <2>. QED BY <2>1, <2>2 DEF PeekRun
<1>6. ASSUME NEW r \in S, r.id <= first.id
      PROVE  r = first
  <2>1. first.id <= r.id
    BY <1>1, <1>5, <1>6
  <2>2. first.id = r.id
    BY <1>3, <1>4, <1>6, <2>1
  <2>. QED BY <1>3, <2>2 DEF OneRowPerId
<1>. QED BY <1>1, <1>3, <1>5, <1>6

\* What a step does to the batch in flight: none is left, a new one starts, or
\* the one there is waits on.
DrainStarts ==
    /\ drain'.active /\ drain'.mid = nextMid
    /\ connected' /\ UNCHANGED <<gen, mosq, cloud>>
    /\ hops # <<>> /\ hops' = Tail(hops)
    /\ \E packet \in Packets :
          /\ Sent(packet) /\ outbox' = Append(outbox, packet)
          /\ Batch(rows', packet.items, drain'.lastId)

TableGrows ==
    /\ \A r \in rows' : r \in rows \/ r.id >= nextId
    /\ nextId' >= nextId

DrainWaits ==
    /\ UNCHANGED <<drain, connected, gen, mosq, cloud>> /\ Unpublished
    /\ TableGrows
    /\ \/ hops' = hops
       \/ /\ hops # <<>> /\ hops' = Tail(hops)
          /\ ~DropsLink(Head(hops)) /\ ~IsAckHop(Head(hops))

\* An append leaves the rows a batch will release as they are, or takes them.
LEMMA AppendGrows ==
    ASSUME SpoolInv, NEW m \in Messages, AppendRow(m)
    PROVE  TableGrows
<1>1. nextId \in Nat
  BY DEF SpoolInv, SpoolTypeOK
<1>2. rows' \subseteq Grown(m) /\ nextId' \in {nextId, nextId + 1}
  BY AppendEffect
<1>3. \A r \in Grown(m) : r \in rows \/ r.id = nextId
  BY DEF Grown, Row
<1>. QED BY <1>1, <1>2, <1>3 DEF TableGrows

LEMMA SameTable ==
    ASSUME SpoolInv, UNCHANGED <<rows, nextId>>
    PROVE  TableGrows
BY DEF SpoolInv, SpoolTypeOK, TableGrows

\* A main thread that waits for a batch diverts what it dispatches.
LEMMA DispatchDiverts ==
    ASSUME SpoolInv, drain.active, NEW m \in Messages, NEW qos, Dispatch(m, qos)
    PROVE  Unpublished /\ TableGrows
BY AppendGrows DEF Dispatch

LEMMA SessionDiverts ==
    ASSUME HandedInv, drain.active, BeginSession \/ EndSession \/ NoSessionChange
    PROVE  Unpublished /\ TableGrows /\ UNCHANGED drain
<1>. Handed /\ SpoolInv
  BY DEF HandedInv
<1>1. CASE BeginSession
  <2>1. Message("start", sids + 1, 0) \in Messages
    BY MessageTyped DEF Handed, Kinds
  <2>. QED BY <1>1, <2>1, DispatchDiverts DEF BeginSession
<1>2. CASE EndSession
  <2>1. Message("stop", sid, 0) \in Messages
    BY MessageTyped DEF Handed, Kinds
  <2>. QED BY <1>2, <2>1, DispatchDiverts DEF EndSession
<1>3. CASE NoSessionChange
  BY <1>3, SameTable DEF NoSessionChange, spoolVars
<1>. QED BY <1>1, <1>2, <1>3

\* Only a CONNACK starts a drain.
LEMMA IdleStays ==
    ASSUME ~drain.active, [Next]_vars
    PROVE  ClientConnected \/ ~drain'.active
<1>. ~NoDrain.active
  BY DEF NoDrain
<1>1. CASE ClientError \/ ClientDisconnected \/ ClientPublished \/ StaleHop
  BY <1>1 DEF ClientError, ClientDisconnected, ClientPublished, StaleHop,
              IsBatchAck, modelVars
<1>2. CASE NotifyTick \/ SampleTick \/ SaveSession
  BY <1>2 DEF NotifyTick, SampleTick, SaveSession, BeginSession, EndSession,
              NoSessionChange
<1>3. CASE CrossLine \/ ClearLine \/ Boot \/ NetworkStep \/ UNCHANGED vars
  BY <1>3 DEF CrossLine, ClearLine, Boot, NetworkStep, vars, modelVars
<1>4. ASSUME NEW c, ApplyConfiguration(c)
      PROVE  ~drain'.active
  BY <1>4 DEF ApplyConfiguration, ApplyEnabled, SwitchOff, AfterDisconnect
<1>5. CASE Start \/ EditConfig
  BY <1>4, <1>5 DEF Start, EditConfig
<1>6. CASE Unpair \/ Shutdown \/ Exit \/ PowerCut
  BY <1>6 DEF Unpair, SwitchOff, Shutdown, AfterDisconnect, Exit, PowerCut,
              ProcessEnds
<1>. QED BY <1>1, <1>2, <1>3, <1>5, <1>6 DEF Next, TakesHop, Driver, Process

\* The hops the main thread takes.
LEMMA HopDrains ==
    ASSUME ClientInv, DrainInv, TakesHop, drain.active \/ ClientConnected
    PROVE  ~drain'.active \/ DrainStarts \/ DrainWaits
<1>. /\ PacketsTyped /\ HandleTyped /\ SpoolInv /\ rows \subseteq RowSet
     /\ LinkInv /\ HandedInv
  BY DEF ClientInv, PacketInv, LinkInv, HandedInv, SpoolInv, SpoolTypeOK
<1>1. ASSUME NEW S, S \subseteq RowSet, NEW shown, DrainNext(S, shown), rows' = S,
             connected', UNCHANGED <<gen, mosq, cloud>>,
             hops # <<>> /\ hops' = Tail(hops)
      PROVE  ~drain'.active \/ DrainStarts
  <2>1. CASE drain' = NoDrain
    BY <2>1 DEF NoDrain
  <2>. QED BY <1>1, <2>1, DrainSends DEF DrainStarts
<1>2. CASE ClientConnected
  <2>1. /\ connected' /\ UNCHANGED <<gen, mosq, cloud>>
        /\ hops # <<>> /\ hops' = Tail(hops) /\ rows' = rows
    BY <1>2 DEF ClientConnected, HandleConnect, TakeHop, spoolVars, Accepted
  <2>2. DrainNext(rows, queued) \/ drain' = NoDrain
    BY <1>2 DEF ClientConnected
  <2>. QED BY <1>1, <2>1, <2>2 DEF NoDrain
<1>3. ASSUME drain.active
      PROVE  /\ connected /\ mosq
             /\ hops # <<>> => hops[1] = Head(hops) /\ Len(hops) \in Nat \ {0}
  BY <1>3 DEF DrainInv, LinkInv, HandleTyped
<1>4. ASSUME drain.active PROVE ~ClientError
  <2>1. SUFFICES ASSUME ClientError PROVE FALSE
    OBVIOUS
  <2>2. /\ hops # <<>> /\ Head(hops).type = "connect" /\ Head(hops).gen = gen
        /\ Head(hops).arg # Accepted
    BY <2>1 DEF ClientError, HandleConnect, TakeHop, Stale, Accepted, Refused
  <2>3. 1 \in 1..Len(hops) /\ hops[1] = Head(hops)
    BY <1>3, <1>4, <2>2
  <2>4. DownAfter(1 - 1)
    BY <1>3, <1>4, <2>2, <2>3 DEF LinkInv
  <2>. QED BY <1>3, <1>4, <2>4 DEF DownAfter
<1>5. CASE ClientDisconnected /\ drain.active
  BY <1>3, <1>5 DEF ClientDisconnected, NoDrain
<1>6. CASE ClientPublished /\ drain.active
  <2>1. /\ connected' = connected /\ UNCHANGED <<gen, mosq, cloud>>
        /\ hops # <<>> /\ hops' = Tail(hops) /\ Head(hops).type = "publish"
        /\ connected
    BY <1>3, <1>6 DEF ClientPublished, HandlePublish, TakeHop
  <2>2. CASE IsBatchAck(Head(hops).arg)
    <3>1. ReleaseThrough(drain.lastId) /\ \E shown : DrainNext(rows', shown)
      BY <1>6, <2>1, <2>2 DEF ClientPublished
    <3>2. rows' \subseteq RowSet
      BY <3>1, ReleasedRows
    <3>. QED BY <1>1, <2>1, <3>1, <3>2
  <2>3. CASE ~IsBatchAck(Head(hops).arg)
    <3>1. UNCHANGED <<spoolVars, drain>> /\ Unpublished
      BY <1>6, <2>3 DEF ClientPublished
    <3>2. ~DropsLink(Head(hops)) /\ ~IsAckHop(Head(hops))
      BY <1>6, <2>1, <2>3 DEF DropsLink, IsAckHop, IsBatchAck
    <3>3. TableGrows
      BY <3>1, SameTable DEF spoolVars
    <3>. QED BY <2>1, <3>1, <3>2, <3>3 DEF DrainWaits
  <2>. QED BY <2>2, <2>3
<1>7. CASE StaleHop /\ drain.active
  <2>1. /\ UNCHANGED <<drain, connected, gen, mosq, cloud, rows, nextId>>
        /\ Unpublished /\ hops # <<>> /\ hops' = Tail(hops) /\ Stale(Head(hops))
    BY <1>7 DEF StaleHop, DropStaleHop, TakeHop, modelVars, spoolVars
  <2>2. ~DropsLink(Head(hops)) /\ ~IsAckHop(Head(hops))
    BY <1>3, <1>7, <2>1 DEF Stale, DropsLink, IsAckHop
  <2>. QED BY <2>1, <2>2, SameTable DEF DrainWaits
<1>. QED BY <1>2, <1>4, <1>5, <1>6, <1>7 DEF TakesHop

\* What every step of the uplink does to the batch in flight.
LEMMA DrainCalls ==
    ASSUME ClientInv, DrainInv, [Next]_vars
    PROVE  \/ ~drain'.active \/ DrainStarts \/ DrainWaits
           \/ drain.active /\ Network /\ UNCHANGED <<drain, rows, nextId>>
<1>. HandedInv /\ Handed /\ SpoolInv
  BY DEF ClientInv, HandedInv
<1>1. CASE ~drain.active
  BY <1>1, IdleStays, HopDrains DEF TakesHop
<1>2. CASE drain.active
  <2>. drain.active /\ connected
    BY <1>2 DEF DrainInv
  <2>. ~NoDrain.active
    BY DEF NoDrain
  <2>1. CASE TakesHop
    BY <2>1, HopDrains
  <2>2. CASE NotifyTick
    <3>1. BeginSession \/ EndSession \/ NoSessionChange
      BY <2>2 DEF NotifyTick
    <3>. QED
      BY <2>2, <3>1, SessionDiverts DEF NotifyTick, ClientAfterPublish, mainVars, DrainWaits
  <2>3. CASE SaveSession
    <3>1. EndSession \/ NoSessionChange
      BY <2>3 DEF SaveSession
    <3>. QED
      BY <2>3, <3>1, SessionDiverts DEF SaveSession, ClientAfterPublish, mainVars, DrainWaits
  <2>4. CASE SampleTick
    <3>1. Message("frame", sid, seq) \in Messages
      BY MessageTyped DEF Handed, Kinds
    <3>. QED
      BY <2>4, <3>1, DispatchDiverts DEF SampleTick, ClientAfterPublish, mainVars, DrainWaits
  <2>5. CASE UNCHANGED <<spoolVars, clientVars, drain>>
    <3>1. TableGrows
      BY <2>5, SameTable DEF spoolVars
    <3>. QED BY <2>5, <3>1 DEF clientVars, mainVars, libVars, Unpublished, DrainWaits
  <2>6. CASE CrossLine \/ ClearLine \/ Boot \/ UNCHANGED vars
    BY <2>5, <2>6 DEF CrossLine, ClearLine, Boot, vars, modelVars
  <2>7. ASSUME NEW c, ApplyConfiguration(c)
        PROVE  ~drain'.active \/ DrainWaits
    <3>1. CASE drain' = NoDrain
      BY <3>1
    <3>2. CASE Open /\ UNCHANGED <<clientVars, drain>>
      <4>1. TableGrows
        BY <3>2, SameTable DEF Open, Keep
      <4>. QED BY <3>2, <4>1 DEF clientVars, mainVars, libVars, Unpublished, DrainWaits
    <3>. QED
      BY <2>7, <3>1, <3>2 DEF ApplyConfiguration, ApplyEnabled, SwitchOff, AfterDisconnect
  <2>8. CASE Start \/ EditConfig
    BY <2>7, <2>8 DEF Start, EditConfig
  <2>9. CASE Unpair \/ Exit \/ PowerCut
    BY <2>9 DEF Unpair, SwitchOff, AfterDisconnect, Exit, PowerCut, ProcessEnds
  <2>10. CASE Shutdown
    <3>1. proc = "up"
      BY DEF ClientInv, LinkInv, HandleTyped, PageInv
    <3>. QED BY <2>10, <3>1 DEF Shutdown, AfterDisconnect
  <2>11. CASE NetworkStep
    BY <2>11 DEF NetworkStep, spoolVars, modelVars
  <2>. QED
    BY <2>1, <2>2, <2>3, <2>4, <2>6, <2>8, <2>9, <2>10, <2>11
       DEF Next, Driver, Process
<1>. QED BY <1>1, <1>2

\* What waits in the queue, the handle and on the wire, element by element.
LEMMA DrainTypes ==
    ASSUME ClientInv
    PROVE  /\ hops \in Seq(HopSet) /\ In(hops) \subseteq HopSet
           /\ outbox \in Seq(OldPackets(nextMid)) /\ wire \in Seq(OldPackets(nextMid))
           /\ In(outbox) \subseteq OldPackets(nextMid)
           /\ In(wire) \subseteq OldPackets(nextMid)
           /\ nextMid \in Nat \ {0}
           /\ nextId \in Nat /\ rows \subseteq RowSet /\ IsFiniteSet(rows)
           /\ OneRowPerId(rows) /\ \A r \in rows : r.id \in Nat /\ r.id < nextId
           /\ drain.lastId \in Int
<1>1. /\ hops \in Seq(HopSet)
      /\ outbox \in Seq(OldPackets(nextMid)) /\ wire \in Seq(OldPackets(nextMid))
      /\ nextMid \in Nat \ {0}
  BY DEF ClientInv, LinkInv, HandleTyped, PacketInv, PacketsTyped
<1>2. /\ In(hops) \subseteq HopSet
      /\ In(outbox) \subseteq OldPackets(nextMid)
      /\ In(wire) \subseteq OldPackets(nextMid)
  BY <1>1 DEF In
<1>3. /\ nextId \in Nat /\ rows \subseteq RowSet /\ IsFiniteSet(rows)
      /\ OneRowPerId(rows) /\ \A r \in rows : r.id < nextId
      /\ drain.lastId \in Int
  BY DEF ClientInv, HandedInv, Handed, SpoolInv, SpoolTypeOK, IdsUnique
<1>4. \A r \in rows : r.id \in Nat
  BY <1>3 DEF RowSet
<1>. QED BY <1>1, <1>2, <1>3, <1>4

\* A batch that starts carries its rows under an id nothing else has.
LEMMA StartKeepsDrain ==
    ASSUME ClientInv, ClientInv', DrainStarts
    PROVE  DrainInv'
<1>1. PICK packet \in Packets :
         /\ Sent(packet) /\ outbox' = Append(outbox, packet)
         /\ Batch(rows', packet.items, drain'.lastId)
  BY DEF DrainStarts
<1>2. /\ mosq /\ packet.mid = nextMid /\ nextMid' = nextMid + 1
      /\ wire' \in {wire, Append(wire, packet)}
      /\ drain'.mid = nextMid
  BY <1>1 DEF Sent, DrainStarts
<1>3. /\ rows' \subseteq RowSet /\ IsFiniteSet(rows') /\ OneRowPerId(rows')
      /\ \A r \in rows' : r.id < nextId'
  BY DEF ClientInv, HandedInv, SpoolInv, SpoolTypeOK, IdsUnique
<1>4. /\ \A r \in rows' : r.id <= drain'.lastId => Msg(r) \in packet.items
      /\ drain'.lastId < nextId'
  BY <1>1, <1>3, BatchCarries
<1>5. /\ In(outbox') = In(outbox) \cup {packet}
      /\ In(wire') \subseteq In(wire) \cup {packet}
  <2>1. outbox \in Seq(Packets) /\ wire \in Seq(Packets)
    BY DEF ClientInv, PacketInv, PacketsTyped
  <2>. QED BY <1>1, <1>2, <2>1, InAppend
<1>6. \A p \in In(outbox) \cup In(wire) : p.mid # nextMid
  BY DrainTypes DEF OldPackets, Packets
<1>7. \A h \in In(hops') : ~(h.type = "publish" /\ h.gen = gen /\ h.arg = nextMid)
  <2>1. In(hops') \subseteq In(hops)
    BY DrainTypes, InTail DEF DrainStarts
  <2>2. \A h \in In(hops) : ~(h.type = "publish" /\ h.gen = gen /\ h.arg = nextMid)
    BY <1>2, DrainTypes DEF ClientInv, PacketInv, In
  <2>. QED BY <2>1, <2>2
<1>8. \A p \in In(outbox') \cup In(wire') : p.mid = drain'.mid => Carried(p.items)'
  BY <1>2, <1>4, <1>5, <1>6 DEF Carried
<1>9. ~ \E h \in In(hops') : IsAckHop(h)'
  BY <1>2, <1>7 DEF IsAckHop, DrainStarts
<1>10. connected' /\ drain'.mid \in Nat /\ drain'.mid < nextMid'
  BY <1>2, DrainTypes DEF DrainStarts
<1>11. \E p \in In(outbox') : p.mid = drain'.mid
  BY <1>2, <1>5
<1>. QED BY <1>4, <1>8, <1>9, <1>10, <1>11 DEF DrainInv

\* Rows that arrive while a batch is in flight are not released by its PUBACK.
LEMMA WaitKeepsDrain ==
    ASSUME ClientInv, ClientInv', DrainInv, DrainWaits, drain.active
    PROVE  DrainInv'
<1>1. /\ drain' = drain /\ connected' = connected /\ gen' = gen /\ cloud' = cloud
      /\ outbox' = outbox /\ wire' = wire /\ nextMid' = nextMid
  BY DEF DrainWaits, Unpublished
<1>2. \A r \in rows' : r.id \in Nat
  <2>1. rows' \subseteq RowSet
    BY DEF ClientInv, HandedInv, SpoolInv, SpoolTypeOK
  <2>. QED BY <2>1 DEF RowSet
<1>3. drain.lastId < nextId' /\ \A r \in rows' : r.id <= drain.lastId => r \in rows
  <2>1. nextId' \in Nat
    BY DEF ClientInv, HandedInv, SpoolInv, SpoolTypeOK
  <2>2. drain.lastId < nextId
    BY DEF DrainInv
  <2>. QED BY <1>2, <2>1, <2>2, DrainTypes DEF DrainWaits, TableGrows
<1>4. \A items : Carried(items) => Carried(items)'
  BY <1>1, <1>3 DEF Carried
<1>5. /\ In(hops') \subseteq In(hops)
      /\ \A h \in In(hops) : DropsLink(h) \/ IsAckHop(h) => h \in In(hops')
  <2>1. CASE hops' = hops
    BY <2>1
  <2>2. CASE /\ hops # <<>> /\ hops' = Tail(hops)
             /\ ~DropsLink(Head(hops)) /\ ~IsAckHop(Head(hops))
    <3>1. In(hops) = In(hops') \cup {Head(hops)}
      BY <2>2, DrainTypes, InTail
    <3>. QED BY <2>2, <3>1
  <2>. QED BY <2>1, <2>2 DEF DrainWaits
<1>6. \A h : (IsAckHop(h)' <=> IsAckHop(h)) /\ (DropsLink(h)' <=> DropsLink(h))
  BY <1>1 DEF IsAckHop, DropsLink
<1>7. \A p \in In(outbox') \cup In(wire') : p.mid = drain'.mid => Carried(p.items)'
  BY <1>1, <1>4 DEF DrainInv
<1>8. (\E h \in In(hops') : IsAckHop(h)') => Carried(cloud)'
  BY <1>1, <1>4, <1>5, <1>6 DEF DrainInv
<1>9. \/ \E p \in In(outbox') : p.mid = drain'.mid
      \/ \E h \in In(hops') : DropsLink(h)' \/ IsAckHop(h)'
  BY <1>1, <1>5, <1>6 DEF DrainInv
<1>. QED BY <1>1, <1>3, <1>7, <1>8, <1>9 DEF DrainInv

\* The network thread and the broker move the batch on, or tell of its end.
LEMMA NetworkKeepsDrain ==
    ASSUME ClientInv, DrainInv, drain.active, Network,
           UNCHANGED <<drain, rows, nextId>>
    PROVE  DrainInv'
<1>1. /\ UNCHANGED <<gen, mosq, connected, nextMid>>
      /\ drain' = drain /\ rows' = rows /\ nextId' = nextId
  BY DEF Network, Reconnect, Connack, ConnackRefused, LoseConnection, BrokerTakes,
         NetUnchanged, mainVars
<1>2. \A a, b : a \subseteq b /\ Carried(a) => Carried(b)'
  BY <1>1 DEF Carried
<1>3. \A h : (IsAckHop(h)' <=> IsAckHop(h)) /\ (DropsLink(h)' <=> DropsLink(h))
  BY <1>1 DEF IsAckHop, DropsLink
<1>4. HandleTyped
  BY DEF ClientInv, LinkInv
<1>5. /\ Hop("disconnect", 1, gen) \in HopSet
      /\ Hop("connect", Refused, gen) \in HopSet
      /\ Hop("connect", Accepted, gen) \in HopSet
      /\ \A mid \in Nat : Hop("publish", mid, gen) \in HopSet
  BY <1>4, HopTyped DEF HopTypes, Refused, Accepted
<1>6. \A arg : ~IsAckHop(Hop("disconnect", arg, gen)) /\ ~IsAckHop(Hop("connect", arg, gen))
  BY DEF IsAckHop, Hop
<1>7. ASSUME outbox' = outbox, In(wire') \subseteq In(outbox) \cup In(wire),
             cloud \subseteq cloud', In(hops) \subseteq In(hops'),
             \A h \in In(hops') : h \in In(hops) \/ ~IsAckHop(h)
      PROVE  DrainInv'
  <2>1. \A p \in In(outbox') \cup In(wire') : p.mid = drain'.mid => Carried(p.items)'
    BY <1>1, <1>2, <1>7 DEF DrainInv
  <2>2. (\E h \in In(hops') : IsAckHop(h)') => Carried(cloud)'
    BY <1>1, <1>2, <1>3, <1>7 DEF DrainInv
  <2>3. \/ \E p \in In(outbox') : p.mid = drain'.mid
        \/ \E h \in In(hops') : DropsLink(h)' \/ IsAckHop(h)'
    BY <1>1, <1>3, <1>7 DEF DrainInv
  <2>. QED BY <1>1, <2>1, <2>2, <2>3 DEF DrainInv
<1>8. CASE Reconnect
  BY <1>7, <1>8 DEF Reconnect
<1>9. \A h \in HopSet : In(hops \o <<h>>) = In(hops) \cup {h}
  <2>1. SUFFICES ASSUME NEW h \in HopSet PROVE In(hops \o <<h>>) = In(hops) \cup {h}
    OBVIOUS
  <2>2. hops \in Seq(HopSet)
    BY DrainTypes
  <2>3. hops \o <<h>> = Append(hops, h)
    BY <2>2
  <2>4. In(Append(hops, h)) = In(hops) \cup {h}
    BY <2>2, InAppend
  <2>. QED BY <2>3, <2>4
<1>10. CASE Connack
  <2>1. In(wire \o outbox) = In(wire) \cup In(outbox)
    BY DrainTypes, InConcat
  <2>2. /\ wire' = wire \o outbox /\ outbox' = outbox /\ cloud' = cloud
        /\ hops' = hops \o <<Hop("connect", Accepted, gen)>>
    BY <1>10 DEF Connack, Post
  <2>. QED BY <1>5, <1>6, <1>7, <1>9, <2>1, <2>2
<1>11. In(<<>>) = {}
  BY DEF In
<1>12. CASE LoseConnection
  <2>2. /\ wire' = <<>> /\ outbox' = outbox /\ cloud \subseteq cloud'
        /\ hops' = hops \o <<Hop("disconnect", 1, gen)>>
    BY <1>12 DEF LoseConnection, Post
  <2>. QED BY <1>5, <1>6, <1>7, <1>9, <1>11, <2>2
<1>13. CASE ConnackRefused
  <2> DEFINE new == <<Hop("connect", Refused, gen), Hop("disconnect", 1, gen)>>
  <2>1. new \in Seq(HopSet) /\ In(new) = {Hop("connect", Refused, gen), Hop("disconnect", 1, gen)}
    <3>1. new \in Seq(HopSet) /\ Len(new) = 2
      BY <1>5
    <3>2. 1..Len(new) = {1, 2}
      BY <3>1
    <3>. QED BY <3>1, <3>2 DEF In
  <2>2. /\ wire' = <<>> /\ outbox' = outbox /\ cloud' = cloud
        /\ hops' = hops \o new
    BY <1>13 DEF ConnackRefused, Post
  <2> HIDE DEF new
  <2>3. In(hops') = In(hops) \cup {Hop("connect", Refused, gen), Hop("disconnect", 1, gen)}
    BY <2>1, <2>2, DrainTypes, InConcat
  <2>. QED BY <1>6, <1>7, <1>11, <2>2, <2>3
<1>14. CASE BrokerTakes
  <2> DEFINE packet == Head(wire)
             ack == Hop("publish", packet.mid, gen)
  <2>1. wire # <<>> /\ In(wire) = In(Tail(wire)) \cup {packet} /\ packet \in In(wire)
    BY <1>14, DrainTypes, InTail DEF BrokerTakes
  <2>2. packet.mid \in Nat /\ ack \in HopSet
    BY <1>5, <2>1, DrainTypes DEF OldPackets, Packets
  <2>3. wire' = Tail(wire) /\ cloud' = cloud \cup packet.items
    BY <1>14 DEF BrokerTakes
  <2>4. CASE outbox' = outbox /\ hops' = hops
    BY <1>7, <2>1, <2>3, <2>4
  <2>5. ASSUME NEW i \in 1..Len(outbox), outbox[i].mid = packet.mid,
               outbox' = Without(outbox, i), hops' = hops \o <<ack>>
        PROVE  DrainInv'
    <3>1. In(outbox) = In(outbox') \cup {outbox[i]}
      BY <2>5, DrainTypes, InWithout
    <3>2. In(hops') = In(hops) \cup {ack}
      BY <1>9, <2>2, <2>5
    <3>3. IsAckHop(ack) <=> packet.mid = drain.mid
      BY DEF IsAckHop, Hop
    <3> HIDE DEF ack, packet
    <3>4. \A p \in In(outbox') \cup In(wire') : p.mid = drain'.mid => Carried(p.items)'
      BY <1>1, <1>2, <2>1, <2>3, <3>1 DEF DrainInv
    <3>5. (\E h \in In(hops') : IsAckHop(h)') => Carried(cloud)'
      <4>1. packet.mid = drain.mid => Carried(packet.items)
        BY <2>1 DEF DrainInv
      <4>2. (\E h \in In(hops) : IsAckHop(h)) => Carried(cloud)
        BY DEF DrainInv
      <4>. QED BY <1>2, <1>3, <2>3, <3>2, <3>3, <4>1, <4>2
    <3>6. \/ \E p \in In(outbox') : p.mid = drain'.mid
          \/ \E h \in In(hops') : DropsLink(h)' \/ IsAckHop(h)'
      <4>1. CASE packet.mid = drain.mid
        BY <1>3, <3>2, <3>3, <4>1
      <4>2. CASE packet.mid # drain.mid
        BY <1>1, <1>3, <2>5, <3>1, <3>2, <4>2 DEF DrainInv
      <4>. QED BY <4>1, <4>2
    <3>. QED BY <1>1, <3>4, <3>5, <3>6 DEF DrainInv
  <2>. QED BY <1>14, <2>4, <2>5 DEF BrokerTakes, Post
<1>. QED BY <1>8, <1>10, <1>12, <1>13, <1>14 DEF Network

\* Every step of the uplink keeps the batch in flight sound.
LEMMA DrainStep == ClientInv /\ DrainInv /\ [Next]_vars => DrainInv'
<1> SUFFICES ASSUME ClientInv, DrainInv, [Next]_vars PROVE DrainInv'
  OBVIOUS
<1>1. ClientInv'
  BY ClientStep
<1>2. CASE ~drain'.active
  BY <1>2 DEF DrainInv
<1>3. CASE DrainStarts
  BY <1>1, <1>3, StartKeepsDrain
<1>4. CASE DrainWaits
  <2>1. drain' = drain
    BY <1>4 DEF DrainWaits
  <2>. QED BY <1>1, <1>2, <1>4, <2>1, WaitKeepsDrain
<1>. QED BY <1>2, <1>3, <1>4, DrainCalls, NetworkKeepsDrain

\* At all times link, packets, page and the batch in flight are sound.
THEOREM DrainIsSound == ~StampWindow /\ Spec => [](ClientInv /\ DrainInv)
<1>1. ~StampWindow /\ Init => ClientInv /\ DrainInv
  BY ClientStart DEF Init, DrainInv, NoDrain
<1>2. (ClientInv /\ DrainInv) /\ [Next]_vars => (ClientInv /\ DrainInv)'
  BY ClientStep, DrainStep
<1>. QED BY <1>1, <1>2, PTL DEF Spec

\* The PUBACK that is about to release rows stands for rows the broker has.
THEOREM AckAlwaysMeansTaken == ~StampWindow /\ Spec => []AckedMeansTaken
<1>1. ClientInv /\ DrainInv => AckedMeansTaken
  BY DEF DrainInv, Carried, In, IsAckHop, AckedMeansTaken
<1>. QED BY <1>1, DrainIsSound, PTL

\* A drain never waits for nothing.
THEOREM DrainAlwaysMoves == ~StampWindow /\ Spec => []DrainMoves
<1>1. ClientInv /\ DrainInv => DrainMoves
  BY DEF DrainInv, In, IsAckHop, DropsLink, DrainMoves
<1>. QED BY <1>1, DrainIsSound, PTL

----------------------------------------------------------------------------
(* Seen from outside, the uplink is a durable outbox.                      *)

\* The faults left out: a failed COUNT(*) makes the eviction wrong, and a table
\* that cannot be opened or deleted from survives UNPAIR.
OutboxFaults == SqlFaults \cap {"count", "open", "clear"} = {}

\* Neither the credential nor the power changes.
Steady ==
    /\ config'.cred = config.cred
    /\ proc' # "off" <=> proc # "off"

LEMMA SteadyOutbox ==
    ASSUME Steady
    PROVE  /\ config'.cred = config.cred
           /\ (proc' # "off") = (proc # "off")
BY DEF Steady

\* What the broker has, it keeps.
LEMMA CloudGrows ==
    ASSUME ClientInv, [Next]_vars
    PROVE  cloud \subseteq cloud'
<1>1. CASE Network
  BY <1>1 DEF Network, Reconnect, Connack, ConnackRefused, LoseConnection, BrokerTakes
<1>2. OneSend \/ Emptied \/ Network
  BY PacketCalls DEF ClientInv, LinkInv, PacketInv
<1>. QED BY <1>1, <1>2 DEF OneSend, Emptied

\* A step that leaves the table alone is a step of the outbox.
LEMMA KeepIsDeliver ==
    ASSUME Steady, rows' = rows
    PROVE  Outbox!Deliver
BY SteadyOutbox DEF Outbox!Deliver

\* append() is Accept, or does not happen.
LEMMA AppendIsAccept ==
    ASSUME SpoolInv, OutboxFaults, NEW m \in Messages, AppendRow(m),
           Steady, proc # "off"
    PROVE  Outbox!Accept \/ Outbox!Deliver
<1>1. CASE rows' = rows
  BY <1>1, KeepIsDeliver
<1>2. CASE nextId' = nextId + 1
  <2> DEFINE row == Row(nextId, m)
  <2>1. /\ rows' \subseteq rows \cup {row} /\ row.id = nextId
        /\ rows' = rows \cup {row} \/ Cardinality(rows') >= MaxRows
    BY <1>2, AppendEffect DEF Grown, Row, OutboxFaults
  <2>2. \A p \in (rows \cup {row}) \ rows' : \A q \in rows' : p.id < q.id
    <3>1. nextId \in Nat
      BY DEF SpoolInv, SpoolTypeOK
    <3>. QED BY <1>2, <3>1, AppendEffect DEF Grown, GoneFromFront
  <2>3. nextId \in Nat /\ \A r \in rows : r.id \in Nat /\ r.id < nextId
    BY DEF SpoolInv, SpoolTypeOK, RowSet
  <2> HIDE DEF row
  <2>4. row \in rows'
    <3>1. CASE rows' = {}
      <4>1. Cardinality(rows') = 0
        BY <3>1, FS_EmptySet
      <4>. QED BY <2>1, <4>1, SpoolAssumption DEF SpoolAssumption
    <3>2. CASE rows' # {}
      BY <2>1, <2>2, <2>3, <3>2
    <3>. QED BY <3>1, <3>2
  <2>5. row \in rows' \ rows
    BY <2>1, <2>3, <2>4
  <2>6. Outbox!FrontRemoved(rows \cup {row}, rows')
    BY <2>1, <2>2 DEF Outbox!FrontRemoved
  <2>7. rows \subseteq rows' \/ Cardinality(rows') >= MaxRows
    BY <2>1
  <2>8. \A r \in rows : r.id < row.id
    BY <2>1, <2>3
  <2>9. Outbox!Cardinality(rows') = Cardinality(rows')
    BY Zenon DEF Outbox!Cardinality, Cardinality
  <2>. QED BY <2>5, <2>6, <2>7, <2>8, <2>9, SteadyOutbox DEF Outbox!Accept
<1>. QED BY <1>1, <1>2, AppendEffect

\* The rows a PUBACK releases are forgotten: the broker has them.
LEMMA ReleaseIsForget ==
    ASSUME ClientInv, AckedMeansTaken, ClientPublished
    PROVE  Outbox!Forget \/ Outbox!Deliver
<1>1. Steady /\ proc # "off"
  BY DEF ClientPublished, Looping, Steady
<1>2. CASE rows' = rows
  BY <1>1, <1>2, KeepIsDeliver
<1>3. CASE IsBatchAck(Head(hops).arg) /\ ReleaseThrough(drain.lastId)
  <2>1. drain.lastId \in Int /\ SpoolInv
    BY DEF ClientInv, HandedInv, Handed
  <2>2. /\ rows' \subseteq rows /\ GoneFromFront(rows, rows')
        /\ \A r \in rows \ rows' : r.id <= drain.lastId
    BY <1>3, <2>1, ReleaseEffect
  <2>3. 1 \in 1..Len(hops) /\ hops[1] = Head(hops)
    BY DrainTypes DEF ClientPublished
  <2>4. /\ Head(hops).type = "publish" /\ Head(hops).gen = gen /\ mosq
        /\ drain.active /\ Head(hops).arg = drain.mid
    BY <1>3 DEF ClientPublished, HandlePublish, Stale, IsBatchAck
  <2>5. \A r \in rows : r.id <= drain.lastId => Msg(r) \in cloud
    BY <2>3, <2>4 DEF AckedMeansTaken
  <2>6. \A r \in rows \ rows' : Outbox!Content(r) \in cloud
    BY <2>2, <2>5 DEF Msg, Outbox!Content
  <2>. QED
    BY <1>1, <2>2, <2>6, SteadyOutbox DEF Outbox!Forget, Outbox!FrontRemoved, GoneFromFront
<1>. QED BY <1>2, <1>3 DEF ClientPublished, spoolVars

\* Only append() and its owners' clocks touch the table in a session.
LEMMA SessionIsAccept ==
    ASSUME HandedInv, OutboxFaults, Steady, proc # "off",
           BeginSession \/ EndSession \/ NoSessionChange
    PROVE  Outbox!Accept \/ Outbox!Deliver
<1>. Handed /\ SpoolInv
  BY DEF HandedInv
<1>1. ASSUME NEW m \in Messages, NEW qos, Dispatch(m, qos)
      PROVE  Outbox!Accept \/ Outbox!Deliver
  BY <1>1, AppendIsAccept, KeepIsDeliver DEF Dispatch, spoolVars
<1>2. CASE BeginSession
  <2>1. Message("start", sids + 1, 0) \in Messages
    BY MessageTyped DEF Handed, Kinds
  <2>. QED BY <1>1, <1>2, <2>1 DEF BeginSession
<1>3. CASE EndSession
  <2>1. Message("stop", sid, 0) \in Messages
    BY MessageTyped DEF Handed, Kinds
  <2>. QED BY <1>1, <1>3, <2>1 DEF EndSession
<1>4. CASE NoSessionChange
  BY <1>4, KeepIsDeliver DEF NoSessionChange, spoolVars
<1>. QED BY <1>2, <1>3, <1>4

\* The end of the process costs the newest row, or brings old ones back.
LEMMA EndIsSwitchOff ==
    ASSUME SpoolInv, proc # "off", proc' = "off", config' = config,
           CloseCleanly \/ LosePower
    PROVE  Outbox!SwitchOff
<1>1. (proc # "off") /\ ~(proc' # "off") /\ config'.cred = config.cred
  OBVIOUS
<1>2. CASE rows' = rows
  BY <1>1, <1>2 DEF Outbox!SwitchOff
<1>3. CASE rows' = synced[1]
  <2>1. CASE rows \subseteq synced[1] /\ GoneFromFront(synced[1], rows)
    BY <1>1, <1>3, <2>1 DEF Outbox!SwitchOff, Outbox!FrontRemoved, GoneFromFront
  <2>2. ASSUME synced[2] + 1 = nextId,
               NEW new \in rows, new.id = synced[2], synced[1] = rows \ {new}
        PROVE  Outbox!SwitchOff
    <3>1. \A r \in rows : r.id \in Nat /\ r.id < nextId
      BY DEF SpoolInv, SpoolTypeOK, RowSet
    <3>2. synced[2] \in Nat
      BY DEF SpoolInv, SpoolTypeOK
    <3>3. \A r \in rows : r.id <= new.id
      BY <2>2, <3>1, <3>2
    <3>. QED BY <1>1, <1>3, <2>2, <3>3 DEF Outbox!SwitchOff
  <2>. QED BY <2>1, <2>2 DEF SpoolInv, UndoIsOneCommit
<1>. QED BY <1>2, <1>3 DEF CloseCleanly, LosePower

\* applyConfiguration() leaves the rows alone.
LEMMA ApplyKeepsRows ==
    ASSUME NEW c, ApplyConfiguration(c)
    PROVE  rows' = rows
BY DEF ApplyConfiguration, ApplyEnabled, Open, Keep, spoolVars

\* Every step of the uplink is a step of the durable outbox.
LEMMA OutboxStep ==
    ASSUME ClientInv, AckedMeansTaken, SamplerAgrees, OutboxFaults,
           db # "failed", [Next]_vars
    PROVE  Outbox!OutboxNext \/ UNCHANGED Outbox!outboxVars
<1>. HandedInv /\ Handed /\ SpoolInv
  BY DEF ClientInv, HandedInv
<1>1. config \in [enabled : BOOLEAN, car : Devices, cred : BOOLEAN]
  BY DEF Handed
<1>2. CASE ClientConnected \/ ClientError \/ ClientDisconnected \/ StaleHop
  <2>1. UNCHANGED <<rows, config, proc>>
    BY <1>2 DEF ClientConnected, ClientError, ClientDisconnected, StaleHop, spoolVars
  <2>. QED BY <2>1, KeepIsDeliver, CloudGrows DEF Steady, Outbox!OutboxNext
<1>3. CASE ClientPublished
  BY <1>3, ReleaseIsForget, CloudGrows DEF Outbox!OutboxNext
<1>4. CASE NotifyTick \/ SaveSession
  <2>1. Steady /\ proc # "off" /\ (BeginSession \/ EndSession \/ NoSessionChange)
    BY <1>4 DEF NotifyTick, SaveSession, Looping, Steady
  <2>. QED BY <2>1, SessionIsAccept, CloudGrows DEF Outbox!OutboxNext
<1>5. CASE SampleTick
  <2>1. Message("frame", sid, seq) \in Messages
    BY MessageTyped DEF Handed, Kinds
  <2>2. Steady /\ proc # "off"
    BY <1>5 DEF SampleTick, SamplerAgrees, SamplingWanted, Steady
  <2>3. Dispatch(Message("frame", sid, seq), 0)
    BY <1>5 DEF SampleTick
  <2>4. Outbox!Accept \/ Outbox!Deliver
    BY <2>1, <2>2, <2>3, AppendIsAccept, KeepIsDeliver DEF Dispatch, spoolVars
  <2>. QED BY <2>4, CloudGrows DEF Outbox!OutboxNext
<1>6. CASE CrossLine \/ ClearLine \/ NetworkStep \/ Start
  <2>1. rows' = rows /\ Steady
    BY <1>6, ApplyKeepsRows DEF CrossLine, ClearLine, NetworkStep, Start, spoolVars, Steady
  <2>. QED BY <2>1, KeepIsDeliver, CloudGrows DEF Outbox!OutboxNext
<1>7. CASE EditConfig
  <2>1. rows' = rows /\ proc = "up" /\ proc' = "up" /\ config' \in ConfigEdits
    BY <1>7, ApplyKeepsRows DEF EditConfig
  <2>2. CASE config'.cred = config.cred
    BY <2>1, <2>2, KeepIsDeliver, CloudGrows DEF Steady, Outbox!OutboxNext
  <2>3. CASE config' = [config EXCEPT !.cred = TRUE] /\ config'.cred # config.cred
    <3>1. ~config.cred /\ config'.cred
      BY <1>1, <2>3
    <3>2. Outbox!Pair
      BY <2>1, <3>1 DEF Outbox!Pair
    <3>. QED BY <3>2, CloudGrows DEF Outbox!OutboxNext
  <2>. QED BY <1>1, <2>1, <2>2, <2>3 DEF ConfigEdits
<1>8. CASE Unpair
  <2>1. rows' = {}
    BY <1>8 DEF Unpair, Clear, OpenResults, Commit, OutboxFaults
  <2>2. /\ proc = "up" /\ proc' = "up" /\ config.cred /\ ~config'.cred
    BY <1>1, <1>8 DEF Unpair
  <2>3. Outbox!Unpair
    BY <2>1, <2>2 DEF Outbox!Unpair
  <2>. QED BY <2>3, CloudGrows DEF Outbox!OutboxNext
<1>9. CASE Boot
  <2>1. proc = "off" /\ proc' = "boot" /\ rows' = rows /\ config' = config
    BY <1>9 DEF Boot, spoolVars
  <2>2. Outbox!SwitchOn
    BY <2>1 DEF Outbox!SwitchOn
  <2>. QED BY <2>2, CloudGrows DEF Outbox!OutboxNext
<1>10. CASE Shutdown
  <2>1. Steady /\ proc # "off"
    BY <1>10 DEF Shutdown, Looping, Steady
  <2>2. rows' = rows \/ AppendRow(Message("stop", sid, 0))
    BY <1>10 DEF Shutdown, spoolVars
  <2>3. Message("stop", sid, 0) \in Messages
    BY MessageTyped DEF Handed, Kinds
  <2>. QED
    BY <2>1, <2>2, <2>3, KeepIsDeliver, AppendIsAccept, CloudGrows DEF Outbox!OutboxNext
<1>11. CASE Exit \/ PowerCut
  <2>1. /\ proc # "off" /\ proc' = "off" /\ config' = config
        /\ CloseCleanly \/ LosePower
    BY <1>11 DEF Exit, PowerCut, ProcessEnds
  <2>. QED BY <2>1, EndIsSwitchOff, CloudGrows DEF Outbox!OutboxNext
<1>12. CASE UNCHANGED vars
  BY <1>12 DEF vars, spoolVars, clientVars, Outbox!outboxVars
<1>. QED
  BY <1>2, <1>3, <1>4, <1>5, <1>6, <1>7, <1>8, <1>9, <1>10, <1>11, <1>12
     DEF Next, TakesHop, Driver, Process

\* Where open() does not fail, it never latches.
NeverLatched == OutboxFaults /\ db # "failed"

LEMMA NeverLatches ==
    ASSUME HandedInv, NeverLatched, [Next]_vars
    PROVE  NeverLatched'
<1>1. \A o \in OpenResults : o.db # "failed"
  BY DEF OpenResults, NeverLatched, OutboxFaults
<1>2. [SpoolNext]_spoolVars
  BY UplinkCalls
<1>3. db' # "failed"
  BY <1>1, <1>2 DEF SpoolNext, spoolVars, Open, AppendRow, ReleaseThrough, Clear,
                    CloseCleanly, LosePower, NeverLatched
<1>. QED BY <1>3 DEF NeverLatched, OutboxFaults

\* The uplink is a durable outbox: whatever connections are lost, settings
\* changed and power cut, a row leaves the card because the broker has it,
\* because newer rows filled the table, or because the dash was unpaired, and a
\* power cut costs at most the newest.
THEOREM UplinkIsDurableOutbox ==
    ~StampWindow /\ OutboxFaults /\ Spec => IsDurableOutbox
<1>1. Init => Outbox!OutboxInit
  <2>1. SUFFICES ASSUME Init PROVE Outbox!OutboxInit
    OBVIOUS
  <2>2. rows = {} /\ cloud = {} /\ config.cred \in BOOLEAN /\ (proc # "off") = FALSE
    BY <2>1 DEF Init, SpoolInit, ClientInit
  <2>. QED BY <2>2 DEF Outbox!OutboxInit
<1>2. OutboxFaults /\ Init => NeverLatched
  BY DEF Init, SpoolInit, NeverLatched
<1>3. ClientInv /\ NeverLatched /\ [Next]_vars => NeverLatched'
  BY NeverLatches DEF ClientInv
<1>4. /\ ClientInv /\ AckedMeansTaken /\ SamplerAgrees /\ NeverLatched
      /\ [Next]_vars
      => [Outbox!OutboxNext]_(Outbox!outboxVars)
  BY OutboxStep DEF NeverLatched
<1>. QED
  BY <1>1, <1>2, <1>3, <1>4, DrainIsSound, AckAlwaysMeansTaken, SamplerAlwaysAgrees, PTL
     DEF Spec, IsDurableOutbox, Outbox!OutboxSpec

----------------------------------------------------------------------------
(* A backlog is never left behind.                                         *)

\* The faults left out: a table that cannot be counted, opened or read looks
\* empty to the main thread.
DrainFaults == SqlFaults \cap {"count", "open", "peek"} = {}

\* Over a live handle the table is open, and a backlog nothing drains has the
\* loss of the link on its way.
BacklogInv ==
    /\ DrainFaults
    /\ db # "failed"
    /\ mosq => db = "open"
    /\ connected /\ rows # {} /\ ~drain.active =>
          \E h \in In(hops) : DropsLink(h)

LEMMA Opens ==
    ASSUME BacklogInv, db \in {"closed", "open", "failed"}
    PROVE  \A o \in OpenResults : o.db = "open"
BY DEF BacklogInv, DrainFaults, OpenResults

\* A live handle has the table open.
LEMMA HandleHasTable ==
    ASSUME BacklogInv, ~StampWindow, HandleTyped, db \in {"closed", "open", "failed"},
           [Next]_vars
    PROVE  db' # "failed" /\ (mosq' => db' = "open")
<1> DEFINE Goal == db' # "failed" /\ (mosq' => db' = "open")
<1>. db # "failed" /\ (mosq => db = "open")
  BY DEF BacklogInv
<1>1. ASSUME \/ UNCHANGED spoolVars \/ Open \/ Clear
             \/ \E m : AppendRow(m)
             \/ \E lastId : ReleaseThrough(lastId)
      PROVE  /\ db' # "failed" /\ (db = "open" => db' = "open")
             /\ Open => db' = "open"
  <2>1. Open => \E o \in OpenResults : db' = o.db
    BY DEF Open
  <2>2. CASE UNCHANGED spoolVars \/ Open
    BY <2>1, <2>2, Opens DEF spoolVars
  <2>3. CASE Clear
    BY <2>1, <2>3, Opens DEF Clear
  <2>4. ASSUME NEW m, AppendRow(m) PROVE \E o \in OpenResults : db' = o.db
    BY <2>4 DEF AppendRow
  <2>5. ASSUME NEW lastId, ReleaseThrough(lastId) PROVE \E o \in OpenResults : db' = o.db
    BY <2>5 DEF ReleaseThrough
  <2>. QED BY <1>1, <2>1, <2>2, <2>3, <2>4, <2>5, Opens
<1>2. CASE TakesHop
  <2>1. mosq' = mosq
    BY <1>2 DEF TakesHop, ClientConnected, ClientError, ClientDisconnected,
                ClientPublished, StaleHop, HandleConnect, HandleDisconnect,
                HandlePublish, DropStaleHop, TakeHop
  <2>2. UNCHANGED spoolVars \/ ReleaseThrough(drain.lastId)
    BY <1>2 DEF TakesHop, ClientConnected, ClientError, ClientDisconnected,
                ClientPublished, StaleHop
  <2>. QED BY <1>1, <2>1, <2>2
<1>3. CASE NotifyTick \/ SampleTick \/ SaveSession
  <2>1. mosq' = mosq
    BY <1>3 DEF NotifyTick, SampleTick, SaveSession, ClientAfterPublish, mainVars
  <2>2. UNCHANGED spoolVars \/ \E m : AppendRow(m)
    BY <1>3 DEF NotifyTick, SampleTick, SaveSession, BeginSession, EndSession,
                NoSessionChange, Dispatch
  <2>. QED BY <1>1, <2>1, <2>2
<1>4. CASE CrossLine \/ ClearLine \/ Boot \/ NetworkStep \/ UNCHANGED vars
  <2>1. UNCHANGED <<mosq, db>>
    BY <1>4 DEF CrossLine, ClearLine, Boot, NetworkStep, vars, clientVars, mainVars,
                spoolVars, Network, Reconnect, Connack, ConnackRefused,
                LoseConnection, BrokerTakes, NetUnchanged
  <2>. QED BY <2>1
<1>5. ASSUME NEW c, ApplyConfiguration(c) PROVE Goal
  <2>1. CASE c.enabled
    <3>1. Open
      BY <1>5, <2>1 DEF ApplyConfiguration, ApplyEnabled
    <3>. QED BY <1>1, <3>1
  <2>2. CASE ~c.enabled
    <3>1. UNCHANGED spoolVars /\ ~mosq'
      BY <1>5, <2>2 DEF ApplyConfiguration, SwitchOff, ShutdownLink
    <3>. QED BY <1>1, <3>1
  <2>. QED BY <2>1, <2>2
<1>6. CASE Start \/ EditConfig
  BY <1>5, <1>6 DEF Start, EditConfig
<1>7. CASE Unpair
  BY <1>1, <1>7 DEF Unpair, SwitchOff, ShutdownLink
<1>8. CASE Shutdown
  <2>1. UNCHANGED spoolVars \/ \E m : AppendRow(m)
    BY <1>8 DEF Shutdown
  <2>2. ~mosq' \/ (mosq' = mosq)
    BY <1>8 DEF Shutdown, ShutdownLink, clientVars, mainVars
  <2>. QED BY <1>1, <2>1, <2>2
<1>9. CASE Exit \/ PowerCut
  BY <1>9 DEF Exit, PowerCut, ProcessEnds, ClientGone, CloseCleanly, LosePower
<1>. QED
  BY <1>2, <1>3, <1>4, <1>6, <1>7, <1>8, <1>9 DEF Next, Driver, Process

\* A believed link that is not up has its loss on its way.
LEMMA LossIsPending ==
    ASSUME LinkInv, connected, mosq, link # "up"
    PROVE  \E h \in In(hops) : DropsLink(h)
BY DEF LinkInv, DownAfter, In

\* What publish() means when it gives no id, over a believed link.
LEMMA RefusedMeansDown ==
    ASSUME mosq, nextMid \in Nat, NEW items, NEW qos, NEW isConnected, isConnected,
           Publish(items, qos, isConnected, NoMid)
    PROVE  link = "down"
BY DEF Publish, NoMid

\* drainNext() stops over a backlog only because the link is down.
LEMMA DrainStopsDown ==
    ASSUME DrainFaults, mosq, nextMid \in Nat, NEW S, S # {}, NEW shown,
           DrainNext(S, shown), ~drain'.active
    PROVE  link = "down"
<1>1. \E items, mid :
         /\ Publish(items, 1, TRUE, mid)
         /\ mid # NoMid => drain'.active
  <2>1. ~(S = {} \/ "peek" \in SqlFaults)
    BY DEF DrainFaults
  <2>2. PICK first \in PeekRun(S), last \in PeekRun(S), mid \in Mids :
           LET telemetry == first.kind = "frame" /\ first.car = config.car
               batch == IF telemetry THEN PeekRun(S) ELSE {first}
           IN  /\ Publish({Msg(r) : r \in batch}, 1, TRUE, mid)
               /\ drain' = IF mid = NoMid
                           THEN NoDrain
                           ELSE [active |-> TRUE, mid |-> mid,
                                 lastId |-> LastAcked(telemetry, first, last)]
    BY <2>1 DEF DrainNext
  <2>3. mid # NoMid => drain'.active
    BY <2>2
  <2>. QED BY <2>2, <2>3
<1>2. \E items : Publish(items, 1, TRUE, NoMid)
  BY <1>1
<1>. QED BY <1>2, RefusedMeansDown

\* All the network thread does to the queue is post at its end.
LEMMA NetworkPosts ==
    ASSUME HandleTyped, PacketsTyped, Network
    PROVE  \E new \in Seq(HopSet) : hops' = hops \o new
<1>1. /\ Hop("disconnect", 1, gen) \in HopSet
      /\ Hop("connect", Refused, gen) \in HopSet
      /\ Hop("connect", Accepted, gen) \in HopSet
      /\ \A mid \in Nat : Hop("publish", mid, gen) \in HopSet
  BY HopTyped DEF HopTypes, Refused, Accepted
<1>2. CASE hops' = hops
  <2>1. hops' = hops \o <<>> /\ <<>> \in Seq(HopSet)
    BY <1>2 DEF HandleTyped
  <2>. QED BY <2>1
<1>3. ASSUME NEW new, new \in Seq(HopSet), hops' = hops \o new
      PROVE  \E posted \in Seq(HopSet) : hops' = hops \o posted
  BY <1>3
<1>4. CASE ConnackRefused
  <2>1. <<Hop("connect", Refused, gen), Hop("disconnect", 1, gen)>> \in Seq(HopSet)
    BY <1>1
  <2>. QED BY <1>3, <1>4, <2>1 DEF ConnackRefused, Post
<1>5. CASE Connack
  <2>1. <<Hop("connect", Accepted, gen)>> \in Seq(HopSet)
    BY <1>1
  <2>. QED BY <1>3, <1>5, <2>1 DEF Connack, Post
<1>6. CASE LoseConnection
  <2>1. <<Hop("disconnect", 1, gen)>> \in Seq(HopSet)
    BY <1>1
  <2>. QED BY <1>3, <1>6, <2>1 DEF LoseConnection, Post
<1>7. CASE BrokerTakes
  <2>1. Head(wire).mid \in Nat
    <3>1. Head(wire) \in Packets
      BY <1>7 DEF PacketsTyped, BrokerTakes
    <3>. QED BY <3>1 DEF Packets
  <2>2. <<Hop("publish", Head(wire).mid, gen)>> \in Seq(HopSet)
    BY <1>1, <2>1
  <2>. QED BY <1>2, <1>3, <1>7, <2>2 DEF BrokerTakes, Post
<1>. QED BY <1>2, <1>4, <1>5, <1>6, <1>7 DEF Network, Reconnect

\* An empty counter over an open table is an empty table.
LEMMA EmptyCount ==
    ASSUME SpoolInv, DrainFaults, db = "open", ~(SpoolCount > 0)
    PROVE  rows = {}
<1>1. rowCount = Cardinality(rows) /\ ~(rowCount > 0) /\ IsFiniteSet(rows)
  BY DEF SpoolInv, SpoolTypeOK, CountExact, DrainFaults, SpoolCount
<1>2. Cardinality(rows) \in Nat /\ (Cardinality(rows) = 0 <=> rows = {})
  BY <1>1, FS_CardinalityType, FS_EmptySet
<1>. QED BY <1>1, <1>2

\* What a step may do to a backlog nothing drains.
LEMMA BacklogCalls ==
    ASSUME ClientInv, DrainInv, BacklogInv, [Next]_vars,
           connected', rows' # {}, ~drain'.active
    PROVE  \/ link' # "up"
           \/ /\ connected /\ rows # {} /\ ~drain.active /\ gen' = gen
              /\ \A h \in In(hops) : DropsLink(h) => h \in In(hops')
<1>. HandedInv /\ Handed /\ SpoolInv /\ HandleTyped /\ nextMid \in Nat
  BY DEF ClientInv, HandedInv, LinkInv, PacketInv, PacketsTyped
<1>0. hops # <<>> => In(hops) = In(Tail(hops)) \cup {Head(hops)}
  BY DrainTypes, InTail
<1>1. CASE ClientConnected
  <2>1. mosq /\ link' = link /\ rows' = rows
    BY <1>1 DEF ClientConnected, HandleConnect, TakeHop, Stale, spoolVars
  <2>2. rows # {} => SpoolCount > 0
    BY <2>1, EmptyCount DEF BacklogInv
  <2>3. DrainNext(rows, queued)
    BY <1>1, <2>1, <2>2 DEF ClientConnected
  <2>. QED BY <2>1, <2>3, DrainStopsDown DEF BacklogInv
<1>2. CASE ClientError \/ ClientDisconnected
  <2>1. Refused # Accepted
    BY DEF Refused, Accepted
  <2>2. ClientError => connected' = (Refused = Accepted)
    BY DEF ClientError, HandleConnect
  <2>3. ClientDisconnected => ~connected'
    BY DEF ClientDisconnected, HandleDisconnect
  <2>. QED BY <1>2, <2>1, <2>2, <2>3
<1>3. CASE ClientPublished
  <2>1. /\ connected' = connected /\ UNCHANGED <<gen, link>> /\ mosq
        /\ hops # <<>> /\ hops' = Tail(hops) /\ Head(hops).type = "publish"
    BY <1>3 DEF ClientPublished, HandlePublish, TakeHop, Stale
  <2>2. CASE IsBatchAck(Head(hops).arg)
    <3>1. \E shown : DrainNext(rows', shown)
      BY <1>3, <2>1, <2>2 DEF ClientPublished
    <3>. QED BY <2>1, <3>1, DrainStopsDown DEF BacklogInv
  <2>3. CASE ~IsBatchAck(Head(hops).arg)
    <3>1. UNCHANGED <<rows, drain>>
      BY <1>3, <2>3 DEF ClientPublished, spoolVars
    <3>. QED BY <1>0, <2>1, <3>1 DEF DropsLink
  <2>. QED BY <2>2, <2>3
<1>4. CASE StaleHop
  <2>1. /\ UNCHANGED <<rows, drain, connected, gen, mosq>>
        /\ hops # <<>> /\ hops' = Tail(hops) /\ Stale(Head(hops))
    BY <1>4 DEF StaleHop, DropStaleHop, TakeHop, modelVars, spoolVars
  <2>2. connected => mosq
    BY DEF ClientInv, LinkInv, HandleTyped
  <2>. QED BY <1>0, <2>1, <2>2 DEF DropsLink, Stale
<1>5. ASSUME NEW m, NEW qos, Dispatch(m, qos), drain' = drain,
             UNCHANGED <<mosq, connected, gen, hops, link>>
      PROVE  \/ link' # "up"
             \/ /\ connected /\ rows # {} /\ ~drain.active /\ gen' = gen
                /\ \A h \in In(hops) : DropsLink(h) => h \in In(hops')
  <2>1. connected /\ ~drain.active /\ mosq
    BY <1>5 DEF ClientInv, LinkInv, HandleTyped
  <2>2. CASE UNCHANGED spoolVars
    BY <1>5, <2>1, <2>2 DEF spoolVars
  <2>3. CASE Publish({m}, qos, connected, NoMid)
    BY <1>5, <2>1, <2>3, RefusedMeansDown
  <2>. QED BY <1>5, <2>1, <2>2, <2>3 DEF Dispatch
<1>6. CASE NotifyTick \/ SampleTick \/ SaveSession
  <2>1. UNCHANGED <<mosq, connected, gen, hops, link>>
    BY <1>6 DEF NotifyTick, SampleTick, SaveSession, ClientAfterPublish, mainVars
  <2>2. drain' = drain
    BY <1>6 DEF NotifyTick, SampleTick, SaveSession, BeginSession, EndSession,
                NoSessionChange
  <2>3. CASE UNCHANGED spoolVars
    BY <2>1, <2>2, <2>3 DEF spoolVars
  <2>4. UNCHANGED spoolVars \/ \E m, qos : Dispatch(m, qos)
    BY <1>6 DEF NotifyTick, SampleTick, SaveSession, BeginSession, EndSession,
                NoSessionChange
  <2>. QED BY <1>5, <2>1, <2>2, <2>3, <2>4
<1>7. CASE UNCHANGED <<rows, drain, connected, gen, hops>>
  BY <1>7
<1>8. CASE CrossLine \/ ClearLine \/ Boot \/ UNCHANGED vars
  BY <1>7, <1>8 DEF CrossLine, ClearLine, Boot, vars, spoolVars, clientVars,
                    mainVars, modelVars
<1>9. ASSUME NEW c, ApplyConfiguration(c)
      PROVE  ~connected' \/ UNCHANGED <<rows, drain, connected, gen, hops>>
  <2>1. ShutdownLink \/ ConnectToBroker \/ ConnectToBrokerFails => ~connected'
    BY DEF ShutdownLink, ConnectToBroker, ConnectToBrokerFails
  <2>. QED
    BY <1>9, <2>1 DEF ApplyConfiguration, ApplyEnabled, SwitchOff, Open, Keep,
                      clientVars, mainVars
<1>10. CASE Start \/ EditConfig
  BY <1>7, <1>9, <1>10 DEF Start, EditConfig
<1>11. CASE Unpair \/ Exit \/ PowerCut
  BY <1>11 DEF Unpair, SwitchOff, ShutdownLink, Exit, PowerCut, ProcessEnds, ClientGone
<1>12. CASE Shutdown
  <2>1. ~connected' \/ UNCHANGED <<rows, drain, connected, gen, hops>>
    BY <1>12 DEF Shutdown, ShutdownLink, spoolVars, clientVars, mainVars
  <2>. QED BY <1>7, <2>1
<1>13. CASE NetworkStep
  <2>1. UNCHANGED <<rows, drain, connected, gen>>
    BY <1>13, NetworkEffect
       DEF NetworkStep, spoolVars, modelVars, ClientInv, LinkInv, PacketInv
  <2>2. \E new \in Seq(HopSet) : hops' = hops \o new
    BY <1>13, NetworkPosts DEF NetworkStep, ClientInv, PacketInv
  <2>3. In(hops) \subseteq In(hops')
    BY <2>2, InConcat DEF HandleTyped
  <2>. QED BY <2>1, <2>3
<1>. QED
  BY <1>1, <1>2, <1>3, <1>4, <1>6, <1>8, <1>10, <1>11, <1>12, <1>13
     DEF Next, TakesHop, Driver, Process

LEMMA BacklogStep ==
    ASSUME ClientInv, DrainInv, BacklogInv, [Next]_vars
    PROVE  BacklogInv'
<1>1. ClientInv'
  BY ClientStep
<1>2. db' # "failed" /\ (mosq' => db' = "open")
  BY HandleHasTable DEF ClientInv, LinkInv, HandedInv, SpoolInv, SpoolTypeOK
<1>3. ASSUME connected', rows' # {}, ~drain'.active
      PROVE  \E h \in In(hops') : DropsLink(h)'
  <2>1. LinkInv' /\ mosq'
    BY <1>1, <1>3 DEF ClientInv, LinkInv, HandleTyped
  <2>2. CASE link' # "up"
    <3>1. DownAfter(Len(hops))'
      BY <2>1, <2>2 DEF LinkInv
    <3>. QED BY <1>3, <3>1 DEF DownAfter, In
  <2>3. CASE /\ connected /\ rows # {} /\ ~drain.active /\ gen' = gen
             /\ \A h \in In(hops) : DropsLink(h) => h \in In(hops')
    BY <2>3 DEF BacklogInv, DropsLink
  <2>. QED BY <1>3, <2>2, <2>3, BacklogCalls
<1>4. DrainFaults'
  BY DEF BacklogInv, DrainFaults
<1>. QED BY <1>2, <1>3, <1>4 DEF BacklogInv

\* With the link up and nothing in flight between the threads, a backlog on the
\* card is being drained.
THEOREM BacklogNeverStranded ==
    ~StampWindow /\ DrainFaults /\ Spec => []NoStrandedBacklog
<1>1. DrainFaults /\ Init => BacklogInv
  BY DEF Init, SpoolInit, ClientInit, BacklogInv
<1>2. ClientInv /\ DrainInv /\ BacklogInv /\ [Next]_vars => BacklogInv'
  BY BacklogStep
<1>3. BacklogInv => NoStrandedBacklog
  BY DEF BacklogInv, In, NoStrandedBacklog
<1>. QED BY <1>1, <1>2, <1>3, DrainIsSound, PTL DEF Spec

----------------------------------------------------------------------------
(* The types of what no invariant above needs.                             *)

RestTyped ==
    /\ drops \in Nat
    /\ proc \in {"off", "boot", "up", "quit"}
    /\ state \in States
    /\ sessionActive \in BOOLEAN
    /\ drain \in [active : BOOLEAN, mid : Int, lastId : Int]
    /\ sampling \in BOOLEAN
    /\ timerRunning \in BOOLEAN /\ timerSeen \in BOOLEAN
    /\ edits \in Nat /\ restarts \in Nat

\* What dispatch() and its callers leave behind.
LEMMA SessionTypes ==
    ASSUME RestTyped, BeginSession \/ EndSession \/ NoSessionChange
    PROVE  /\ sessionActive' \in BOOLEAN /\ sampling' \in BOOLEAN /\ drain' = drain
<1>1. \A started, active \in BOOLEAN : SamplingWanted(started, active, config) \in BOOLEAN
  BY DEF SamplingWanted
<1>2. (proc = "up") \in BOOLEAN /\ TRUE \in BOOLEAN
  OBVIOUS
<1>3. CASE BeginSession
  BY <1>1, <1>2, <1>3 DEF BeginSession
<1>4. CASE EndSession
  BY <1>4 DEF EndSession
<1>5. CASE NoSessionChange
  BY <1>5 DEF NoSessionChange, RestTyped
<1>. QED BY <1>3, <1>4, <1>5

\* What applyConfiguration() leaves behind.
LEMMA ApplyTypes ==
    ASSUME RestTyped, NEW c, ApplyConfiguration(c)
    PROVE  /\ state' \in States /\ sampling' \in BOOLEAN
           /\ drain' \in [active : BOOLEAN, mid : Int, lastId : Int]
           /\ sessionActive' = sessionActive /\ drops' = drops
<1>1. SamplingWanted(TRUE, sessionActive, c) \in BOOLEAN
  BY DEF SamplingWanted
<1>2. NoDrain \in [active : BOOLEAN, mid : Int, lastId : Int]
  BY DEF NoDrain, NoMid
<1>3. drain' \in {drain, NoDrain}
  BY DEF ApplyConfiguration, ApplyEnabled, SwitchOff, AfterDisconnect
<1>4. sampling' = SamplingWanted(TRUE, sessionActive, c) \/ sampling' = FALSE
  BY DEF ApplyConfiguration, ApplyEnabled, SwitchOff
<1>5. state' \in {"Unconfigured", "Connecting", "Offline", "Disabled"}
  BY DEF ApplyConfiguration, ApplyEnabled, SwitchOff
<1>6. sessionActive' = sessionActive
  BY DEF ApplyConfiguration
<1>7. drops' = drops
  BY DEF ApplyConfiguration, ApplyEnabled, SwitchOff, clientVars, ShutdownLink,
         ConnectToBroker, ConnectToBrokerFails
<1>. QED BY <1>1, <1>2, <1>3, <1>4, <1>5, <1>6, <1>7 DEF States, RestTyped

\* What a callback leaves behind.
LEMMA CallbackTypes ==
    ASSUME ClientInv, RestTyped, TakesHop
    PROVE  state' \in States /\ drain' \in [active : BOOLEAN, mid : Int, lastId : Int]
<1>1. state' \in {state, "Online", "Offline", "Unconfigured"}
  BY DEF TakesHop, ClientConnected, ClientError, ClientDisconnected,
         ClientPublished, StaleHop, AfterLinkLost, modelVars
<1>2. NoDrain \in [active : BOOLEAN, mid : Int, lastId : Int]
  BY DEF NoDrain, NoMid
<1>3. ASSUME NEW S, S \subseteq RowSet, NEW shown, DrainNext(S, shown)
      PROVE  drain' \in [active : BOOLEAN, mid : Int, lastId : Int]
  <2>1. CASE drain' = NoDrain
    BY <1>2, <2>1
  <2>2. ASSUME NEW first \in PeekRun(S), NEW last \in PeekRun(S), NEW telemetry,
               NEW mid \in Mids,
               drain' = [active |-> TRUE, mid |-> mid,
                         lastId |-> LastAcked(telemetry, first, last)]
        PROVE  drain' \in [active : BOOLEAN, mid : Int, lastId : Int]
    <3>1. PeekRun(S) \subseteq RowSet /\ nextMid \in Nat
      BY <1>3, DrainTypes DEF PeekRun, Oldest
    <3>2. first.id \in Int /\ last.id \in Int /\ mid \in Int
      BY <3>1 DEF RowSet, Mids, NoMid
    <3>3. LastAcked(telemetry, first, last) \in Int
      BY <3>2 DEF LastAcked
    <3>. QED BY <2>2, <3>2, <3>3
  <2>. QED BY <1>3, <2>1, <2>2 DEF DrainNext
<1>4. drain' \in [active : BOOLEAN, mid : Int, lastId : Int]
  <2>1. CASE drain' \in {drain, NoDrain}
    BY <1>2, <2>1 DEF RestTyped
  <2>2. CASE ClientConnected /\ DrainNext(rows, queued)
    BY <1>3, <2>2, DrainTypes
  <2>3. CASE ClientPublished /\ ReleaseThrough(drain.lastId)
             /\ \E shown : DrainNext(rows', shown)
    BY <1>3, <2>3, ReleasedRows DEF ClientInv
  <2>. QED
    BY <2>1, <2>2, <2>3 DEF TakesHop, ClientConnected, ClientError,
       ClientDisconnected, ClientPublished, StaleHop, modelVars
<1>. QED BY <1>1, <1>4 DEF RestTyped, States

LEMMA RestStep ==
    ASSUME ClientInv, RestTyped, [Next]_vars
    PROVE  RestTyped'
<1>. NoDrain \in [active : BOOLEAN, mid : Int, lastId : Int]
  BY DEF NoDrain, NoMid
<1>1. CASE TakesHop
  <2>1. UNCHANGED <<drops, proc, sessionActive, sampling, timerRunning, timerSeen,
                    edits, restarts>>
    BY <1>1 DEF TakesHop, ClientConnected, ClientError, ClientDisconnected,
                ClientPublished, StaleHop, HandleConnect, HandleDisconnect,
                HandlePublish, DropStaleHop, TakeHop, modelVars, timerVars, boundVars
  <2>. QED BY <1>1, <2>1, CallbackTypes DEF RestTyped
<1>2. CASE NotifyTick
  <2>1. BeginSession \/ EndSession \/ NoSessionChange
    BY <1>2 DEF NotifyTick
  <2>. QED BY <1>2, <2>1, SessionTypes DEF NotifyTick, ClientAfterPublish, RestTyped
<1>3. CASE SaveSession
  <2>1. EndSession \/ NoSessionChange
    BY <1>3 DEF SaveSession
  <2>. QED BY <1>3, <2>1, SessionTypes DEF SaveSession, ClientAfterPublish, RestTyped
<1>4. CASE SampleTick
  BY <1>4 DEF SampleTick, ClientAfterPublish, timerVars, boundVars, RestTyped
<1>5. CASE CrossLine \/ ClearLine
  BY <1>5 DEF CrossLine, ClearLine, clientVars, modelVars, boundVars, RestTyped
<1>6. CASE Boot
  BY <1>6 DEF Boot, Constructed, States, clientVars, timerVars, boundVars, RestTyped
<1>7. CASE NetworkStep
  <2>1. drops' \in {drops, drops + 1}
    BY <1>7 DEF NetworkStep, Network, Reconnect, Connack, ConnackRefused,
                LoseConnection, BrokerTakes
  <2>. QED BY <1>7, <2>1 DEF NetworkStep, modelVars, timerVars, boundVars, RestTyped
<1>8. CASE UNCHANGED vars
  BY <1>8 DEF vars, clientVars, modelVars, timerVars, boundVars, RestTyped
<1>9. CASE Start
  BY <1>9, ApplyTypes DEF Start, timerVars, boundVars, RestTyped
<1>10. CASE EditConfig
  BY <1>10, ApplyTypes DEF EditConfig, timerVars, RestTyped
<1>11. CASE Unpair
  <2>1. /\ state' = "Disabled" /\ drain' = NoDrain
        /\ sessionActive' = FALSE /\ sampling' = FALSE
    BY <1>11 DEF Unpair, SwitchOff, AfterDisconnect
  <2>2. UNCHANGED <<drops, proc, timerRunning, timerSeen, restarts>>
    BY <1>11 DEF Unpair, SwitchOff, ShutdownLink, timerVars
  <2>3. edits' = edits + 1
    BY <1>11 DEF Unpair
  <2>4. state' \in States /\ sessionActive' \in BOOLEAN /\ sampling' \in BOOLEAN
    BY <2>1 DEF States
  <2>. QED BY <2>1, <2>2, <2>3, <2>4 DEF RestTyped
<1>12. CASE Shutdown
  <2>1. state' \in {state, "Offline"} /\ drain' \in {drain, NoDrain}
    BY <1>12 DEF Shutdown, AfterLinkLost, AfterDisconnect
  <2>2. sessionActive' \in BOOLEAN /\ sampling' \in BOOLEAN
    <3>1. CASE proc = "up"
      <4>1. sessionActive' = FALSE /\ sampling' = FALSE
        BY <1>12, <3>1 DEF Shutdown
      <4>. QED BY <4>1
    <3>2. CASE proc # "up"
      BY <1>12, <3>2 DEF Shutdown, RestTyped
    <3>. QED BY <3>1, <3>2
  <2>3. drops' = drops /\ proc' = "quit" /\ restarts' = restarts + 1
    BY <1>12 DEF Shutdown, ShutdownLink, clientVars
  <2>4. UNCHANGED <<timerRunning, timerSeen, edits>>
    BY <1>12 DEF Shutdown, timerVars
  <2>. QED BY <2>1, <2>2, <2>3, <2>4 DEF RestTyped, States
<1>13. CASE Exit \/ PowerCut
  <2>1. /\ state' = "Disabled" /\ drain' = NoDrain /\ proc' = "off"
        /\ sessionActive' = FALSE /\ sampling' = FALSE
        /\ timerRunning' = FALSE /\ timerSeen' = FALSE
    BY <1>13 DEF Exit, PowerCut, ProcessEnds
  <2>2. drops' = drops /\ edits' = edits /\ restarts' \in {restarts, restarts + 1}
    BY <1>13 DEF Exit, PowerCut, ProcessEnds, ClientGone
  <2>3. /\ state' \in States /\ sessionActive' \in BOOLEAN /\ sampling' \in BOOLEAN
        /\ timerRunning' \in BOOLEAN /\ timerSeen' \in BOOLEAN
    BY <2>1 DEF States
  <2>. QED BY <2>1, <2>2, <2>3 DEF RestTyped
<1>. QED
  BY <1>1, <1>2, <1>3, <1>4, <1>5, <1>6, <1>7, <1>8, <1>9, <1>10, <1>11, <1>12, <1>13
     DEF Next, Driver, Process

\* Every variable of the uplink has its type.
THEOREM UplinkTypes == ~StampWindow /\ Spec => []TypeOK
<1>1. Init => RestTyped
  <2>1. SUFFICES ASSUME Init PROVE RestTyped
    OBVIOUS
  <2>2. /\ state = "Disabled" /\ drain = NoDrain /\ proc = "off"
        /\ sessionActive = FALSE /\ sampling = FALSE
        /\ timerRunning = FALSE /\ timerSeen = FALSE
    BY <2>1 DEF Init
  <2>3. drops = 0 /\ edits = 0 /\ restarts = 0
    BY <2>1 DEF Init, ClientInit
  <2>4. /\ state \in States /\ sessionActive \in BOOLEAN /\ sampling \in BOOLEAN
        /\ timerRunning \in BOOLEAN /\ timerSeen \in BOOLEAN
    BY <2>2 DEF States
  <2>5. NoDrain \in [active : BOOLEAN, mid : Int, lastId : Int]
    BY DEF NoDrain, NoMid
  <2>. QED BY <2>2, <2>3, <2>4, <2>5 DEF RestTyped
<1>2. ClientInv /\ RestTyped /\ [Next]_vars => RestTyped'
  BY RestStep
<1>3. ClientInv /\ RestTyped => TypeOK
  <2>1. SUFFICES ASSUME ClientInv, RestTyped PROVE TypeOK
    OBVIOUS
  <2>2. SpoolTypeOK /\ queued \in Int
    BY <2>1 DEF ClientInv, HandedInv, SpoolInv, SpoolTypeOK, PageInv, SpoolCount
  <2>3. /\ gen \in Nat /\ mosq \in BOOLEAN /\ connected \in BOOLEAN
        /\ hops \in Seq([type : HopTypes, arg : Int, gen : Nat])
        /\ link \in {"down", "syn", "up"}
    BY <2>1 DEF ClientInv, LinkInv, HandleTyped, HopSet
  <2>4. /\ outbox \in Seq(Packets) /\ wire \in Seq(Packets)
        /\ nextMid \in Nat /\ cloud \subseteq Messages
    BY <2>1 DEF ClientInv, PacketInv, PacketsTyped
  <2>5. /\ config \in [enabled : BOOLEAN, car : Devices, cred : BOOLEAN]
        /\ sid \in Nat /\ seq \in Nat /\ sids \in Nat
    BY <2>1 DEF ClientInv, HandedInv, Handed
  <2>. QED BY <2>1, <2>2, <2>3, <2>4, <2>5 DEF RestTyped, TypeOK
<1>. QED BY <1>1, <1>2, <1>3, ClientIsSound, PTL DEF Spec
=============================================================================
