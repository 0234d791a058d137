---------------------------- MODULE NetworkModel ----------------------------
(***************************************************************************)
(* device/networkmodel.*: what the dash shows of NetworkManager, polled by *)
(* a chain of nmcli calls, and the switching and joining a driver asks for *)
(* on the Wi-Fi page, each an nmcli call of its own that runs beside the   *)
(* chain. With it NetworkManager as far as nmcli shows and changes it, and *)
(* the pages (NetworkMenu.qml, WifiDetail.qml, WifiPasswordModal.qml).     *)
(***************************************************************************)
EXTENDS Integers, FiniteSets

CONSTANTS
    Ssids,       \* networks in range
    Secured,     \* those that want a password
    None,        \* no network
    ScanEvery,   \* kScanEveryNTicks
    MaxMoves     \* bound: links that come or go by themselves, nmcli calls that fail
                 \* though NetworkManager runs, taps on the switch and on a network,
                 \* passwords submitted

ASSUME NetworkAssumption ==
    /\ IsFiniteSet(Ssids) /\ Secured \subseteq Ssids /\ None \notin Ssids
    /\ ScanEvery \in Nat \ {0} /\ MaxMoves \in Nat

VARIABLES
    \* NetworkManager
    nmUp, radio, link, profiles, badPsk,
    \* NetworkModel
    check,        \* the first check: running, waiting for its retry, or over
    nmAvailable,  \* m_nmAvailable
    wifiEnabled,  \* m_wifiEnabled
    shown,        \* what m_wifiSsid and m_wiredConnected say each device is on
    ip,           \* the link whose address m_wifiIp and m_wiredIp hold
    networks, known,                   \* m_networks, m_knownSsids
    connectState, pendingSsid,         \* m_connectState, m_pendingSsid
    toggleBusy, pollInFlight,          \* m_toggleBusy, m_pollInFlight
    scanTick, forceScan, refs,         \* m_scanTick, m_forceScanOnAcquire, m_activeRefs
    polls,        \* nmcli calls of the poll chain that run
    toggles,      \* nmcli radio calls that run
    attempts,     \* nmcli con up / wifi connect / con delete calls that run
    clearTimers,  \* single-shots that clear ConnectFailed
    tapped,       \* history: the network tapped last
    moves

nm == <<nmUp, radio, link, profiles, badPsk>>
avail == <<check, nmAvailable>>
status == <<wifiEnabled, shown, ip>>
lists == <<networks, known>>
joining == <<connectState, pendingSsid, tapped>>
chain == <<pollInFlight, polls>>
scan == <<scanTick, forceScan>>
switch == <<toggleBusy, toggles>>
vars == <<nm, avail, status, lists, joining, chain, scan, refs, switch,
          attempts, clearTimers, moves>>

Devices == {"wifi", "wired"}
ConnectStates == {"Idle", "NeedPassword", "Connecting", "WrongPassword", "ConnectFailed"}

\* The menu counts one, the detail page on top of it another.
WifiPage == refs = 2
Busy == toggleBusy \/ connectState = "Connecting"

\* What an nmcli call of the chain reads.
Look(step) ==
    CASE step = "radio" -> [radio |-> radio]
      [] step \in {"status", "ip-wifi", "ip-wired"} -> [link |-> link]
      [] step = "list" -> [radio |-> radio, used |-> link["wifi"]]
      [] step = "profiles" -> [profiles |-> profiles]
      [] OTHER -> [none |-> None]

\* A call that runs, and what it would have read when it began.
Call(step) == [step |-> step, saw |-> Look(step)]

Unlinked == [d \in Devices |-> None]

Init ==
    /\ nmUp = FALSE /\ radio = TRUE /\ link = Unlinked
    /\ profiles \in {Secured, {}} /\ badPsk \in SUBSET profiles
    /\ check = "running" /\ nmAvailable = FALSE
    /\ wifiEnabled = FALSE /\ shown = Unlinked /\ ip = Unlinked
    /\ networks = {} /\ known = {}
    /\ connectState = "Idle" /\ pendingSsid = None /\ tapped = None
    /\ toggleBusy = FALSE /\ pollInFlight = FALSE
    /\ scanTick = 0 /\ forceScan = FALSE /\ refs = 0
    /\ polls = {} /\ toggles = {} /\ attempts = {} /\ clearTimers = 0
    /\ moves = 0

----------------------------------------------------------------------------
Spends(counted) ==
    IF counted THEN moves < MaxMoves /\ moves' = moves + 1 ELSE UNCHANGED moves

\* MUTANT: a tick starts a chain beside the one that runs.
PollTick_Beside(available, state, pages) ==
    IF available /\ state # "Connecting"
    THEN /\ pollInFlight' = TRUE
         /\ polls' = polls \cup {Call(IF pages > 0 THEN "radio" ELSE "status")}
    ELSE UNCHANGED chain

\* pollTick(), called with the values its caller leaves.
PollTick(available, state, pages) ==
    IF available /\ ~pollInFlight /\ state # "Connecting"
    THEN /\ pollInFlight' = TRUE
         /\ polls' = polls \cup {Call(IF pages > 0 THEN "radio" ELSE "status")}
    ELSE UNCHANGED chain

Tick ==
    /\ PollTick(nmAvailable, connectState, refs)
    /\ UNCHANGED <<nm, avail, status, lists, joining, scan, refs, switch, attempts,
                   clearTimers, moves>>

GoOn(p, step) == polls' = (polls \ {p}) \cup {Call(step)} /\ UNCHANGED pollInFlight

\* finishPollCycle().
FinishPollCycle(p) == polls' = polls \ {p} /\ pollInFlight' = FALSE

MaybeRefreshScan(p) ==
    /\ scanTick' = (scanTick + 1) % ScanEvery /\ forceScan' = FALSE
    /\ IF forceScan \/ scanTick' = 0 THEN GoOn(p, "rescan") ELSE FinishPollCycle(p)

\* refreshDeviceIpInto() of both devices from `device` on: one that is not
\* connected has its address cleared on the way.
RefreshIps(p, on, ips, device) ==
    CASE device = "wifi" /\ on["wifi"] # None ->
            ip' = ips /\ GoOn(p, "ip-wifi") /\ UNCHANGED scan
      [] on["wired"] # None /\ ~(device = "wifi" /\ on["wifi"] # None) ->
            /\ ip' = IF device = "wifi" THEN [ips EXCEPT !["wifi"] = None] ELSE ips
            /\ GoOn(p, "ip-wired") /\ UNCHANGED scan
      [] OTHER ->
            /\ ip' = IF device = "wifi" THEN Unlinked ELSE [ips EXCEPT !["wired"] = None]
            /\ MaybeRefreshScan(p)

RadioDone(p, ok, now) ==
    /\ wifiEnabled' = IF ok THEN now.radio ELSE wifiEnabled
    /\ GoOn(p, "status")
    /\ UNCHANGED <<shown, ip, lists, scan>>

\* A page opened or left since the chain began changes how it goes on.
StatusDone(p, ok, now) ==
    /\ shown' = IF ok THEN now.link ELSE shown
    /\ IF refs > 0 THEN RefreshIps(p, shown', ip, "wifi")
       ELSE FinishPollCycle(p) /\ UNCHANGED <<ip, scan>>
    /\ UNCHANGED <<wifiEnabled, lists>>

\* A call that fails leaves no address.
IpOf(device, ok, now) ==
    [ip EXCEPT ![device] = IF ok THEN now.link[device] ELSE None]

IpWifiDone(p, ok, now) ==
    /\ RefreshIps(p, shown, IpOf("wifi", ok, now), "wired")
    /\ UNCHANGED <<wifiEnabled, shown, lists>>

IpWiredDone(p, ok, now) ==
    /\ ip' = IpOf("wired", ok, now)
    /\ MaybeRefreshScan(p)
    /\ UNCHANGED <<wifiEnabled, shown, lists>>

\* parseScanList() skips the network in use.
ListDone(p, ok, now) ==
    /\ networks' = IF ~ok THEN networks
                   ELSE IF now.radio THEN Ssids \ {now.used} ELSE {}
    /\ GoOn(p, "profiles")
    /\ UNCHANGED <<status, known, scan>>

ProfilesDone(p, ok, now) ==
    /\ known' = IF ok THEN now.profiles ELSE known
    /\ FinishPollCycle(p)
    /\ UNCHANGED <<status, networks, scan>>

\* The callback of each call: it tells of the moment it began or of one since. One
\* that fails may have been killed by its timeout.
PollAnswers(p, ok) ==
    \E now \in {p.saw, Look(p.step)} :
        /\ \/ p.step = "radio" /\ RadioDone(p, ok, now)
           \/ p.step = "status" /\ StatusDone(p, ok, now)
           \/ p.step = "ip-wifi" /\ IpWifiDone(p, ok, now)
           \/ p.step = "ip-wired" /\ IpWiredDone(p, ok, now)
           \/ p.step = "rescan" /\ GoOn(p, "list") /\ UNCHANGED <<status, lists, scan>>
           \/ p.step = "list" /\ ListDone(p, ok, now)
           \/ p.step = "profiles" /\ ProfilesDone(p, ok, now)
        /\ Spends(~ok)
        /\ UNCHANGED <<nm, avail, joining, refs, switch, attempts, clearTimers>>

----------------------------------------------------------------------------
\* MUTANT: NetworkManager is asked for once.
CheckAnswers_Once(ok) ==
    /\ check = "running" /\ (ok => nmUp)
    /\ check' = "over" /\ nmAvailable' = ok
    /\ PollTick(ok, connectState, refs)
    /\ Spends(~ok /\ nmUp)
    /\ UNCHANGED <<nm, status, lists, joining, scan, refs, switch, attempts,
                   clearTimers>>

\* checkNmAvailable(), retried 3 s later until NetworkManager runs.
CheckAnswers(ok) ==
    /\ check = "running" /\ (ok => nmUp)
    /\ check' = IF ok THEN "over" ELSE "waiting"
    /\ nmAvailable' = ok
    /\ PollTick(ok, connectState, refs)
    /\ Spends(~ok /\ nmUp)
    /\ UNCHANGED <<nm, status, lists, joining, scan, refs, switch, attempts,
                   clearTimers>>

RetryCheck ==
    /\ check = "waiting" /\ check' = "running"
    /\ UNCHANGED <<nm, nmAvailable, status, lists, joining, chain, scan, refs,
                   switch, attempts, clearTimers, moves>>

Acquire ==
    /\ refs < 2 /\ refs' = refs + 1
    /\ IF refs' = 1
       THEN scanTick' = 0 /\ forceScan' = TRUE /\ PollTick(nmAvailable, connectState, 1)
       ELSE UNCHANGED <<scan, chain>>
    /\ UNCHANGED <<nm, avail, status, lists, joining, switch, attempts, clearTimers,
                   moves>>

Release ==
    /\ refs > 0 /\ refs' = refs - 1
    /\ UNCHANGED <<nm, avail, status, lists, joining, chain, scan, switch, attempts,
                   clearTimers, moves>>

----------------------------------------------------------------------------
\* setWifiEnabled(!wifiEnabled): the opposite of what is shown.
SetWifiEnabled ==
    /\ WifiPage /\ ~Busy
    /\ Spends(TRUE)
    /\ toggleBusy' = TRUE
    /\ toggles' = toggles \cup {[on |-> ~wifiEnabled, done |-> FALSE]}
    /\ UNCHANGED <<nm, avail, status, lists, joining, chain, scan, refs, attempts,
                   clearTimers>>

RadioSwitches(t) ==
    /\ nmUp /\ ~t.done
    /\ radio' = t.on
    /\ link' = IF t.on THEN link ELSE [link EXCEPT !["wifi"] = None]
    /\ toggles' = (toggles \ {t}) \cup {[t EXCEPT !.done = TRUE]}
    /\ UNCHANGED <<nmUp, profiles, badPsk, avail, status, lists, joining, chain,
                   scan, refs, toggleBusy, attempts, clearTimers, moves>>

\* The callback: whatever came of it, the next poll shows.
ToggleAnswers(t) ==
    /\ toggles' = toggles \ {t} /\ toggleBusy' = FALSE
    /\ PollTick(nmAvailable, connectState, refs)
    /\ UNCHANGED <<nm, avail, status, lists, joining, scan, refs, attempts,
                   clearTimers, moves>>

----------------------------------------------------------------------------
\* known: con up of a saved profile, else wifi connect, with a password that is
\* right or not, or with none.
Attempt(kind, ssid, right) ==
    [kind |-> kind, ssid |-> ssid, right |-> right, result |-> "running"]

\* connectToNetwork() of a row. The password modal covers the rows.
ConnectToNetwork(s) ==
    /\ WifiPage /\ wifiEnabled /\ s \in networks
    /\ connectState \in {"Idle", "ConnectFailed"}
    /\ Spends(TRUE)
    /\ pendingSsid' = s /\ tapped' = s
    /\ IF s \notin known /\ s \in Secured
       THEN connectState' = "NeedPassword" /\ UNCHANGED attempts
       ELSE /\ connectState' = "Connecting"
            /\ attempts' = attempts \cup
                   {Attempt(IF s \in known THEN "up" ELSE "connect", s, s \notin Secured)}
    /\ UNCHANGED <<nm, avail, status, lists, chain, scan, refs, switch, clearTimers>>

SubmitPassword(right) ==
    /\ WifiPage /\ connectState \in {"NeedPassword", "WrongPassword"}
    /\ Spends(TRUE)
    /\ connectState' = "Connecting"
    /\ attempts' = attempts \cup {Attempt("connect", pendingSsid, right)}
    /\ UNCHANGED <<nm, avail, status, lists, pendingSsid, tapped, chain, scan, refs,
                   switch, clearTimers>>

CancelConnect ==
    /\ WifiPage /\ connectState \in {"NeedPassword", "WrongPassword"}
    /\ connectState' = "Idle" /\ pendingSsid' = None
    /\ UNCHANGED <<nm, avail, status, lists, tapped, chain, scan, refs, switch,
                   attempts, clearTimers, moves>>

\* What NetworkManager makes of it. A wrong password leaves a broken profile.
Joins(a) ==
    /\ a.result = "running" /\ nmUp
    /\ \/ /\ radio
          /\ IF a.kind = "up" THEN a.ssid \in profiles \ badPsk ELSE a.right
          /\ link' = [link EXCEPT !["wifi"] = a.ssid]
          /\ profiles' = profiles \cup {a.ssid} /\ badPsk' = badPsk \ {a.ssid}
          /\ attempts' = (attempts \ {a}) \cup {[a EXCEPT !.result = "ok"]}
       \/ /\ radio
          /\ IF a.kind = "up" THEN a.ssid \in badPsk ELSE ~a.right
          /\ profiles' = profiles \cup {a.ssid} /\ badPsk' = badPsk \cup {a.ssid}
          /\ attempts' = (attempts \ {a}) \cup {[a EXCEPT !.result = "secrets"]}
          /\ UNCHANGED link
    /\ a.kind # "delete"
    /\ UNCHANGED <<nmUp, radio, avail, status, lists, joining, chain, scan, refs,
                   switch, clearTimers, moves>>

Deletes(a) ==
    /\ a.kind = "delete" /\ a.result = "running" /\ nmUp
    /\ profiles' = profiles \ {a.ssid} /\ badPsk' = badPsk \ {a.ssid}
    /\ attempts' = (attempts \ {a}) \cup {[a EXCEPT !.result = "ok"]}
    /\ link' = IF link["wifi"] = a.ssid THEN [link EXCEPT !["wifi"] = None] ELSE link
    /\ UNCHANGED <<nmUp, radio, avail, status, lists, joining, chain, scan, refs,
                   switch, clearTimers, moves>>

\* handleConnectResult(): a call that failed otherwise (out of range, killed by
\* its timeout, no such profile) has no result.
HandleConnectResult(a) ==
    CASE a.result = "ok" ->
            /\ connectState' = "Idle" /\ pendingSsid' = None
            /\ attempts' = attempts \ {a}
            /\ PollTick(nmAvailable, "Idle", refs)
            /\ UNCHANGED clearTimers
      [] a.result = "secrets" ->
            /\ attempts' = (attempts \ {a}) \cup {Attempt("delete", a.ssid, FALSE)}
            /\ UNCHANGED <<connectState, pendingSsid, chain, clearTimers>>
      [] OTHER ->
            /\ connectState' = "ConnectFailed"
            /\ attempts' = attempts \ {a}
            /\ clearTimers' = clearTimers + 1
            /\ UNCHANGED <<pendingSsid, chain>>

\* MUTANT: the network that wanted the password is forgotten.
ProfileDeleted_Forgets(a) ==
    /\ known' = known \ {a.ssid}
    /\ pendingSsid' = None /\ connectState' = "WrongPassword"
    /\ attempts' = attempts \ {a}

\* The callback of con delete, whether it worked or not.
ProfileDeleted(a) ==
    /\ known' = known \ {a.ssid}
    /\ pendingSsid' = a.ssid /\ connectState' = "WrongPassword"
    /\ attempts' = attempts \ {a}

AttemptAnswers(a) ==
    /\ IF a.kind = "delete" THEN ProfileDeleted(a) /\ UNCHANGED <<chain, clearTimers>>
       ELSE HandleConnectResult(a) /\ UNCHANGED known
    /\ UNCHANGED <<nm, avail, status, networks, tapped, scan, refs, switch, moves>>

\* The single-shot of one failure, 4 s later.
ClearFailure ==
    /\ clearTimers > 0 /\ clearTimers' = clearTimers - 1
    /\ connectState' = IF connectState = "ConnectFailed" THEN "Idle" ELSE connectState
    /\ UNCHANGED <<nm, avail, status, lists, pendingSsid, tapped, chain, scan, refs,
                   switch, attempts, moves>>

----------------------------------------------------------------------------
\* NetworkManager by itself: it starts late, joins what it knows, loses links.
NmStarts ==
    /\ ~nmUp /\ nmUp' = TRUE
    /\ UNCHANGED <<radio, link, profiles, badPsk, avail, status, lists, joining,
                   chain, scan, refs, switch, attempts, clearTimers, moves>>

LinkChanges ==
    /\ nmUp /\ Spends(TRUE)
    /\ \/ \E s \in (IF radio THEN profiles \ badPsk ELSE {}) \cup {None} :
             link' = [link EXCEPT !["wifi"] = s]
       \/ \E w \in {None, "lan"} : link' = [link EXCEPT !["wired"] = w]
    /\ link' # link
    /\ UNCHANGED <<nmUp, radio, profiles, badPsk, avail, status, lists, joining,
                   chain, scan, refs, switch, attempts, clearTimers>>

Driver ==
    \/ Acquire \/ Release \/ SetWifiEnabled
    \/ \E s \in Ssids : ConnectToNetwork(s)
    \/ \E right \in BOOLEAN : SubmitPassword(right)
    \/ CancelConnect

Calls ==
    \/ \E p \in polls, ok \in BOOLEAN : PollAnswers(p, ok)
    \/ \E ok \in BOOLEAN : CheckAnswers(ok)
    \/ \E t \in toggles : RadioSwitches(t) \/ ToggleAnswers(t)
    \/ \E a \in attempts : Joins(a) \/ Deletes(a) \/ AttemptAnswers(a)

Timers == Tick \/ RetryCheck \/ ClearFailure

Next == Driver \/ Calls \/ Timers \/ NmStarts \/ LinkChanges

Spec == Init /\ [][Next]_vars

\* Every nmcli call is answered or killed by its timeout, every timer fires.
FairSpec ==
    /\ Spec
    /\ WF_vars(\E p \in polls, ok \in BOOLEAN : PollAnswers(p, ok))
    /\ WF_vars(\E ok \in BOOLEAN : CheckAnswers(ok))
    /\ WF_vars(\E t \in toggles : ToggleAnswers(t))
    /\ WF_vars(\E a \in attempts : AttemptAnswers(a))
    /\ WF_vars(Tick) /\ WF_vars(RetryCheck) /\ WF_vars(ClearFailure)

----------------------------------------------------------------------------
\* The flags and states that keep calls apart are true to the calls that run:
\* one chain of polls, one switch of the radio, one attempt to join.
OneOfEach ==
    /\ Cardinality(polls) = IF pollInFlight THEN 1 ELSE 0
    /\ Cardinality(toggles) = IF toggleBusy THEN 1 ELSE 0
    /\ Cardinality(attempts) = IF connectState = "Connecting" THEN 1 ELSE 0

\* The password modal names the network the driver tapped last, and nothing else
\* is joined or forgotten, whatever failed, was deleted or timed out meanwhile.
AsksAboutTapped ==
    /\ connectState \in {"NeedPassword", "Connecting", "WrongPassword"} =>
           pendingSsid = tapped
    /\ \A a \in attempts : a.ssid = tapped

\* The page shows what is, "rather than what was tapped" (ToggleRow.qml:18): when
\* NetworkManager changes no more and a page stays open, it ends up showing what
\* NetworkManager has, whatever poll was skipped because another ran, whatever old
\* answer came late, however late the service came up.
PageTellsTruth ==
    <>[](nmUp /\ refs > 0) =>
        <>[](/\ wifiEnabled = radio /\ shown = link /\ ip = link
             /\ networks = IF radio THEN Ssids \ {link["wifi"]} ELSE {}
             /\ known = profiles)
=============================================================================
