------------------------- MODULE NetworkModel_proof -------------------------
(***************************************************************************)
(* Theorems about NetworkModel, for every value of its constants.          *)
(***************************************************************************)
EXTENDS NetworkModel, FiniteSetTheorems, TLAPS

\* A flag and the calls it stands for.
Serves(flag, calls) == IF flag THEN \E x : calls = {x} ELSE calls = {}

\* The chain of polls and its flag.
ChainInv == Serves(pollInFlight, polls) /\ pollInFlight \in BOOLEAN

\* The radio's switch and its flag.
SwitchInv == Serves(toggleBusy, toggles) /\ toggleBusy \in BOOLEAN

AttemptType == [kind : {"up", "connect", "delete"}, ssid : Ssids \cup {None},
                right : BOOLEAN, result : {"running", "ok", "secrets"}]

\* The attempt to join, its state and the network it is about.
JoinInv ==
    /\ connectState \in ConnectStates
    /\ Serves(connectState = "Connecting", attempts)
    /\ attempts \subseteq AttemptType /\ tapped \in Ssids \cup {None}
    /\ AsksAboutTapped

\* Only the chain's own steps and the starts of a chain touch it.
LEMMA TickKeepsChain ==
    ASSUME ChainInv, NEW available, NEW joins, NEW pages, PollTick(available, joins, pages)
    PROVE  ChainInv'
BY DEF ChainInv, Serves, PollTick, chain

LEMMA ChainGoesOn ==
    ASSUME ChainInv, NEW p \in polls, FinishPollCycle(p) \/ \E step : GoOn(p, step)
    PROVE  ChainInv'
<1>1. polls = {p} /\ pollInFlight
  BY DEF ChainInv, Serves
<1>. QED BY <1>1 DEF ChainInv, Serves, FinishPollCycle, GoOn

\* Every answer of the chain goes on with one call or ends it.
LEMMA AnswerGoesOn ==
    ASSUME NEW p \in polls, NEW ok \in BOOLEAN, PollAnswers(p, ok)
    PROVE  FinishPollCycle(p) \/ \E step : GoOn(p, step)
<1>1. MaybeRefreshScan(p) => FinishPollCycle(p) \/ \E step : GoOn(p, step)
  BY DEF MaybeRefreshScan
<1>2. ASSUME NEW on, NEW ips, NEW device, RefreshIps(p, on, ips, device)
      PROVE  FinishPollCycle(p) \/ \E step : GoOn(p, step)
  <2>1. GoOn(p, "ip-wifi") \/ GoOn(p, "ip-wired") \/ MaybeRefreshScan(p)
    BY <1>2 DEF RefreshIps
  <2>. QED BY <1>1, <2>1
<1>3. PICK now : \/ RadioDone(p, ok, now) \/ StatusDone(p, ok, now)
                 \/ IpWifiDone(p, ok, now) \/ IpWiredDone(p, ok, now)
                 \/ GoOn(p, "list")
                 \/ ListDone(p, ok, now) \/ ProfilesDone(p, ok, now)
  BY DEF PollAnswers
<1>4. CASE RadioDone(p, ok, now) \/ ListDone(p, ok, now) \/ ProfilesDone(p, ok, now)
  BY <1>4 DEF RadioDone, ListDone, ProfilesDone
<1>5. CASE StatusDone(p, ok, now) \/ IpWifiDone(p, ok, now) \/ IpWiredDone(p, ok, now)
  BY <1>1, <1>2, <1>5 DEF StatusDone, IpWifiDone, IpWiredDone
<1>. QED BY <1>3, <1>4, <1>5

\* One chain of polls, whatever step.
LEMMA ChainStep ==
    ASSUME ChainInv, [Next]_vars
    PROVE  ChainInv'
<1>1. CASE Tick
  BY <1>1, TickKeepsChain DEF Tick
<1>2. ASSUME NEW p \in polls, NEW ok \in BOOLEAN, PollAnswers(p, ok)
      PROVE  ChainInv'
  BY <1>2, AnswerGoesOn, ChainGoesOn
<1>3. CASE \E ok \in BOOLEAN : CheckAnswers(ok)
  BY <1>3, TickKeepsChain DEF CheckAnswers
<1>4. CASE Acquire
  BY <1>4, TickKeepsChain DEF Acquire, chain, ChainInv
<1>5. CASE \E t \in toggles : ToggleAnswers(t)
  BY <1>5, TickKeepsChain DEF ToggleAnswers
<1>6. ASSUME NEW a \in attempts, AttemptAnswers(a)
      PROVE  ChainInv'
  <2>1. UNCHANGED chain \/ PollTick(nmAvailable, "Idle", refs)
    BY <1>6 DEF AttemptAnswers, HandleConnectResult
  <2>. QED BY <2>1, TickKeepsChain DEF chain, ChainInv
<1>7. CASE UNCHANGED chain
  BY <1>7 DEF chain, ChainInv
<1>. QED
  BY <1>1, <1>2, <1>3, <1>4, <1>5, <1>6, <1>7
     DEF Next, Driver, Calls, Timers, Release, SetWifiEnabled, ConnectToNetwork,
         SubmitPassword, CancelConnect, RadioSwitches, Joins, Deletes, RetryCheck,
         ClearFailure, NmStarts, LinkChanges, vars

\* One switch of the radio, whatever step.
LEMMA SwitchStep ==
    ASSUME SwitchInv, [Next]_vars
    PROVE  SwitchInv'
<1>. USE DEF SwitchInv, Serves
<1>1. CASE SetWifiEnabled
  BY <1>1 DEF SetWifiEnabled, Busy
<1>2. ASSUME NEW t \in toggles, RadioSwitches(t) \/ ToggleAnswers(t)
      PROVE  SwitchInv'
  <2>1. toggles = {t} /\ toggleBusy
    OBVIOUS
  <2>. QED BY <1>2, <2>1 DEF RadioSwitches, ToggleAnswers
<1>3. CASE UNCHANGED switch
  BY <1>3 DEF switch
<1>. QED
  BY <1>1, <1>2, <1>3
     DEF Next, Driver, Calls, Timers, Acquire, Release, ConnectToNetwork, SubmitPassword,
         CancelConnect, PollAnswers, CheckAnswers, Joins, Deletes, AttemptAnswers, Tick,
         RetryCheck, ClearFailure, NmStarts, LinkChanges, vars

\* A result replaces the attempt by one about the same network.
LEMMA ResultKeepsNetwork ==
    ASSUME JoinInv, NEW a \in attempts, NEW result \in {"ok", "secrets"},
           attempts' = (attempts \ {a}) \cup {[a EXCEPT !.result = result]},
           UNCHANGED joining
    PROVE  JoinInv'
<1>1. attempts = {a} /\ connectState = "Connecting" /\ a \in AttemptType /\ a.ssid = tapped
  BY DEF JoinInv, Serves, AsksAboutTapped, ConnectStates
<1>2. [a EXCEPT !.result = result] \in AttemptType /\ [a EXCEPT !.result = result].ssid = a.ssid
  BY <1>1 DEF AttemptType
<1>. QED
  BY <1>1, <1>2 DEF JoinInv, Serves, AsksAboutTapped, joining

\* One attempt to join, about the network tapped last, whatever step.
LEMMA JoinStep ==
    ASSUME JoinInv, [Next]_vars
    PROVE  JoinInv'
<1>0. \A kind \in {"up", "connect", "delete"}, s \in Ssids \cup {None}, right \in BOOLEAN :
         Attempt(kind, s, right) \in AttemptType /\ Attempt(kind, s, right).ssid = s
  BY DEF Attempt, AttemptType
<1>1. ASSUME NEW s \in Ssids, ConnectToNetwork(s)
      PROVE  JoinInv'
  <2>1. attempts = {} /\ pendingSsid' = s /\ tapped' = s
    BY <1>1 DEF ConnectToNetwork, JoinInv, Serves
  <2>2. \/ connectState' = "NeedPassword" /\ attempts' = {}
        \/ /\ connectState' = "Connecting"
           /\ \E a \in AttemptType : attempts' = {a} /\ a.ssid = s
    <3>1. (s \notin Secured) \in BOOLEAN
      OBVIOUS
    <3>. QED BY <1>0, <1>1, <2>1, <3>1 DEF ConnectToNetwork
  <2>. QED BY <2>1, <2>2 DEF JoinInv, Serves, AsksAboutTapped, ConnectStates
<1>2. ASSUME NEW right \in BOOLEAN, SubmitPassword(right)
      PROVE  JoinInv'
  <2>1. /\ attempts = {} /\ pendingSsid = tapped /\ UNCHANGED <<pendingSsid, tapped>>
        /\ connectState' = "Connecting" /\ attempts' = {Attempt("connect", pendingSsid, right)}
    BY <1>2 DEF SubmitPassword, JoinInv, Serves, AsksAboutTapped
  <2>2. tapped \in Ssids \cup {None}
    BY DEF JoinInv
  <2>. QED BY <1>0, <2>1, <2>2 DEF JoinInv, Serves, AsksAboutTapped, ConnectStates
<1>3. CASE CancelConnect
  BY <1>3 DEF CancelConnect, JoinInv, Serves, AsksAboutTapped, ConnectStates
<1>4. ASSUME NEW a \in attempts, Joins(a) \/ Deletes(a)
      PROVE  JoinInv'
  <2>1. PICK result \in {"ok", "secrets"} :
           attempts' = (attempts \ {a}) \cup {[a EXCEPT !.result = result]}
    BY <1>4 DEF Joins, Deletes
  <2>2. UNCHANGED joining
    BY <1>4 DEF Joins, Deletes
  <2>. QED BY <2>1, <2>2, ResultKeepsNetwork
<1>5. ASSUME NEW a \in attempts, AttemptAnswers(a)
      PROVE  JoinInv'
  <2>1. /\ attempts = {a} /\ connectState = "Connecting" /\ a \in AttemptType
        /\ a.ssid = tapped /\ pendingSsid = tapped /\ tapped' = tapped
    BY <1>5 DEF AttemptAnswers, JoinInv, Serves, AsksAboutTapped
  <2>2. Attempt("delete", a.ssid, FALSE) \in AttemptType
        /\ Attempt("delete", a.ssid, FALSE).ssid = a.ssid
    BY <1>0, <2>1 DEF AttemptType
  <2>3. \/ connectState' \in {"Idle", "ConnectFailed"} /\ attempts' = {}
        \/ /\ connectState' = "Connecting" /\ pendingSsid' = pendingSsid
           /\ attempts' = {Attempt("delete", a.ssid, FALSE)}
        \/ connectState' = "WrongPassword" /\ attempts' = {} /\ pendingSsid' = a.ssid
    BY <1>5, <2>1 DEF AttemptAnswers, HandleConnectResult, ProfileDeleted
  <2>. QED BY <2>1, <2>2, <2>3 DEF JoinInv, Serves, AsksAboutTapped, ConnectStates
<1>6. CASE ClearFailure
  BY <1>6 DEF ClearFailure, JoinInv, Serves, AsksAboutTapped, ConnectStates
<1>7. CASE UNCHANGED <<joining, attempts>>
  BY <1>7 DEF joining, JoinInv, Serves, AsksAboutTapped
<1>. QED
  BY <1>1, <1>2, <1>3, <1>4, <1>5, <1>6, <1>7
     DEF Next, Driver, Calls, Timers, Acquire, Release, SetWifiEnabled, PollAnswers,
         CheckAnswers, RadioSwitches, ToggleAnswers, Tick, RetryCheck, NmStarts,
         LinkChanges, vars

\* The invariants behind the next two.
THEOREM NetworkIsSound == Spec => [](ChainInv /\ SwitchInv /\ JoinInv)
<1>1. Init => ChainInv /\ SwitchInv /\ JoinInv
  BY DEF Init, ChainInv, SwitchInv, JoinInv, Serves, AsksAboutTapped, ConnectStates
<1>2. ChainInv /\ SwitchInv /\ JoinInv /\ [Next]_vars => (ChainInv /\ SwitchInv /\ JoinInv)'
  BY ChainStep, SwitchStep, JoinStep
<1>. QED BY <1>1, <1>2, PTL DEF Spec

\* The flags and states that keep nmcli calls apart are true to the calls that run:
\* for any networks in range, and any number of taps, failures and lost links.
THEOREM AlwaysOneOfEach == Spec => []OneOfEach
<1>1. ASSUME NEW flag \in BOOLEAN, NEW calls, Serves(flag, calls)
      PROVE  Cardinality(calls) = IF flag THEN 1 ELSE 0
  BY <1>1, FS_EmptySet, FS_Singleton DEF Serves
<1>2. ChainInv /\ SwitchInv /\ JoinInv => OneOfEach
  <2>. SUFFICES ASSUME ChainInv, SwitchInv, JoinInv PROVE OneOfEach
    OBVIOUS
  <2>1. Cardinality(polls) = IF pollInFlight THEN 1 ELSE 0
    BY <1>1 DEF ChainInv
  <2>2. Cardinality(toggles) = IF toggleBusy THEN 1 ELSE 0
    BY <1>1 DEF SwitchInv
  <2>3. Cardinality(attempts) = IF connectState = "Connecting" THEN 1 ELSE 0
    BY <1>1 DEF JoinInv
  <2>. QED BY <2>1, <2>2, <2>3 DEF OneOfEach
<1>. QED BY <1>2, NetworkIsSound, PTL

\* The password modal and every attempt are about the network tapped last.
THEOREM AlwaysAboutTapped == Spec => []AsksAboutTapped
<1>1. JoinInv => AsksAboutTapped
  BY DEF JoinInv
<1>. QED BY <1>1, NetworkIsSound, PTL
=============================================================================
