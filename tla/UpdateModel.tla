----------------------------- MODULE UpdateModel -----------------------------
(***************************************************************************)
(* device/updatemodel.*: checking for a release and installing it, as a    *)
(* chain of child processes driven from the version page. With it the page *)
(* (AppVersionDetail.qml), the working tree the git steps move, install.sh *)
(* as far as what it prints and replaces, and the power of the car.        *)
(***************************************************************************)
EXTENDS Integers

CONSTANTS
    Current,    \* the version installed when the story begins
    Tags,       \* releases origin may offer as its highest
    MaxHeads,   \* bound: connection checks in flight
    MaxSubmits, \* bound: passwords submitted
    MaxBoots    \* bound: times the dash goes down

ASSUME UpdateAssumption ==
    /\ Current \in Nat \ {0} /\ Tags \subseteq Nat \ {0}
    /\ MaxHeads \in Nat /\ MaxSubmits \in Nat /\ MaxBoots \in Nat

VARIABLES
    state,       \* m_state
    claim,       \* what errorText says is left of a failed install
    target,      \* m_targetTag
    rollbackRef, \* m_rollbackRef
    password,    \* m_password
    stage,       \* m_installStage
    proc,        \* m_proc and the program it runs
    doomed,      \* a running process m_proc was taken from, before its deleteLater()
    heads,       \* connection checks not answered yet
    pageOpen,    \* AppVersionDetail is on screen
    head,        \* the version checked out in the repository
    installed,   \* the binary and the systemd unit the next boot runs
    before,      \* history: what was installed when install.sh last started
    version,     \* currentVersion() of the running binary
    goingDown,   \* systemd has accepted the reboot
    revisited,   \* history: the page was opened while a step ran
    submits, boots

model == <<state, claim, target, rollbackRef, password, stage>>
procs == <<proc, doomed, goingDown>>
disk == <<head, installed, before>>
rest == <<version, revisited, submits, boots>>

vars == <<model, procs, heads, pageOpen, disk, rest>>

Versions == Tags \cup {Current}
NoRef == 0

States == {"Idle", "CheckingConnection", "NoConnection", "ReadyToCheck",
           "Checking", "CheckFailed", "UpToDate", "UpdateAvailable",
           "AwaitingPassword", "ValidatingPassword", "WrongPassword",
           "Installing", "InstallFailed", "InstallSucceeded", "Rebooting"}

Kinds == {"ls-remote", "rev-parse", "fetch", "checkout", "validate", "install",
          "rollback", "reboot"}

\* ref: what a checkout was told to check out. fed: the password written to its
\* standard input. at, unread: the stage install.sh announced last, whether that
\* is still in the pipe or in m_installLineBuf. Every stage before "activating"
\* leaves what the next boot runs alone, "done" comes after it (install.sh:502).
NoStep == [kind |-> "none", ref |-> NoRef, fed |-> "none",
           at |-> "none", unread |-> FALSE]
Step(kind, ref, fed) == [NoStep EXCEPT !.kind = kind, !.ref = ref, !.fed = fed]

Whole(v) == [bin |-> v, unit |-> v]

Init ==
    /\ state = "Idle" /\ claim = "none" /\ target = NoRef /\ rollbackRef = NoRef
    /\ password = "none" /\ stage = "none"
    /\ proc = NoStep /\ doomed = NoStep /\ heads = 0 /\ pageOpen = FALSE
    /\ head = Current /\ installed = Whole(Current) /\ before = Whole(Current)
    /\ version = Current /\ goingDown = FALSE /\ revisited = FALSE
    /\ submits = 0 /\ boots = 0

----------------------------------------------------------------------------
\* setState() replaces the error text with the state.
SetState(s) == state' = s /\ claim' = "none"

\* startProcessStep() while m_proc holds `running`. In a release build the
\* assertion is gone: a process still running is let go and killed by its
\* deleteLater().
StartStep(running, step) == proc' = step /\ doomed' = running

\* finish() of a step that starts no other.
LastStep(running) == proc' = running /\ doomed' = NoStep

\* deleteLater() runs before the event loop takes anything else.
Quiet == doomed = NoStep

----------------------------------------------------------------------------
\* The handler each step is started with. `running` is the process m_proc holds
\* that is not the one that ended.
FailInstall(running) ==
    /\ SetState("InstallFailed") /\ password' = "none"
    /\ LastStep(running)

\* NoRef: origin has no release tags yet.
LsRemoteDone(ok, running) ==
    /\ IF ok THEN \E best \in Tags \cup {NoRef} :
                     IF best > version
                     THEN SetState("UpdateAvailable") /\ target' = best
                     ELSE SetState("UpToDate") /\ UNCHANGED target
       ELSE SetState("CheckFailed") /\ UNCHANGED target
    /\ LastStep(running)
    /\ UNCHANGED <<rollbackRef, password, stage, disk>>

RevParseDone(ok, running) ==
    /\ IF ok THEN /\ rollbackRef' = head
                  /\ StartStep(running, Step("fetch", NoRef, "none"))
                  /\ UNCHANGED <<state, claim, password>>
       ELSE FailInstall(running) /\ UNCHANGED rollbackRef
    /\ UNCHANGED <<target, stage, disk>>

FetchDone(ok, running) ==
    /\ IF ok THEN /\ StartStep(running, Step("checkout", target, "none"))
                  /\ UNCHANGED <<state, claim, password>>
       ELSE FailInstall(running)
    /\ UNCHANGED <<target, rollbackRef, stage, disk>>

CheckoutDone(ok, running, ref) ==
    /\ IF ok THEN /\ ref # NoRef /\ head' = ref
                  /\ StartStep(running, Step("validate", NoRef, password))
                  /\ UNCHANGED <<state, claim, password>>
       ELSE FailInstall(running) /\ UNCHANGED head
    /\ UNCHANGED <<target, rollbackRef, stage, installed, before>>

\* beginInstalling(), then runInstallScript().
ValidateDone(ok, running, fed) ==
    /\ IF ok THEN /\ fed = "right"
                  /\ SetState("Installing") /\ stage' = "none"
                  /\ StartStep(running, Step("install", NoRef, password))
                  /\ before' = installed /\ UNCHANGED password
       ELSE /\ SetState("WrongPassword") /\ password' = "none"
            /\ LastStep(running) /\ UNCHANGED <<stage, before>>
    /\ UNCHANGED <<target, rollbackRef, head, installed>>

\* MUTANT: the last marker waits for a newline that does not come.
Flush_WholeLines(ended) == stage

\* flushInstallOutput(): what was still in the pipe is parsed first.
Flush(ended) == IF ended.unread THEN ended.at ELSE stage

\* MUTANT: the password outlives a failed install.
InstallDone_KeepsPassword(ok, running, ended) ==
    /\ stage' = Flush(ended)
    /\ IF ok THEN SetState("InstallSucceeded") /\ LastStep(running)
       ELSE /\ StartStep(running, Step("rollback", rollbackRef, "none"))
            /\ UNCHANGED <<state, claim>>
    /\ password' = IF ok THEN "none" ELSE password
    /\ UNCHANGED <<target, rollbackRef, disk>>

\* MUTANT: any exit of install.sh is taken for success.
InstallDone_AlwaysOk(ok, running, ended) ==
    /\ stage' = Flush(ended)
    /\ SetState("InstallSucceeded") /\ LastStep(running)
    /\ password' = "none"
    /\ UNCHANGED <<target, rollbackRef, disk>>

\* Failure goes on with runRollbackCheckout(), the state still Installing.
InstallDone(ok, running, ended) ==
    /\ stage' = Flush(ended)
    /\ IF ok THEN SetState("InstallSucceeded") /\ LastStep(running)
       ELSE /\ StartStep(running, Step("rollback", rollbackRef, "none"))
            /\ UNCHANGED <<state, claim>>
    /\ password' = "none"
    /\ UNCHANGED <<target, rollbackRef, disk>>

\* describeRollback().
Outcome(checkedOut, failedStage) ==
    CASE ~checkedOut -> "manual"
      [] checkedOut /\ failedStage = "activating" -> "partial"
      [] OTHER -> "kept"

RollbackDone(ok, running, ref) ==
    /\ ok => ref # NoRef
    /\ head' = IF ok THEN ref ELSE head
    /\ state' = "InstallFailed" /\ claim' = Outcome(ok, stage)
    /\ LastStep(running)
    /\ UNCHANGED <<target, rollbackRef, password, stage, installed, before>>

\* MUTANT: only a reboot that was refused is noticed, not one that never ran.
RebootDone_IgnoresFailure(ok, running) ==
    /\ goingDown' = (goingDown \/ ok)
    /\ LastStep(running) /\ UNCHANGED <<model, disk>>

\* onRebootFailed(); a reboot that succeeds is GoesDown.
RebootDone(ok, running) ==
    /\ IF ok THEN goingDown' = TRUE /\ UNCHANGED <<state, claim>>
       ELSE SetState("InstallSucceeded") /\ UNCHANGED goingDown
    /\ LastStep(running)
    /\ UNCHANGED <<target, rollbackRef, password, stage, disk>>

OnDone(ended, ok, running) ==
    \/ /\ \/ ended.kind = "ls-remote" /\ LsRemoteDone(ok, running)
          \/ ended.kind = "rev-parse" /\ RevParseDone(ok, running)
          \/ ended.kind = "fetch" /\ FetchDone(ok, running)
          \/ ended.kind = "checkout" /\ CheckoutDone(ok, running, ended.ref)
          \/ ended.kind = "validate" /\ ValidateDone(ok, running, ended.fed)
          \/ ended.kind = "install" /\ InstallDone(ok, running, ended)
          \/ ended.kind = "rollback" /\ RollbackDone(ok, running, ended.ref)
       /\ UNCHANGED goingDown
    \/ ended.kind = "reboot" /\ RebootDone(ok, running)

----------------------------------------------------------------------------
\* What a child process does.

\* install.sh gets as far as its password lets it.
Scripting == Quiet /\ proc.kind = "install" /\ proc.fed = "right"

NextMark(mark) ==
    CASE mark = "none" -> "earlier" [] mark = "earlier" -> "activating" [] OTHER -> "done"

\* step: a marker for every stage, the last one once all of it is in place.
ScriptPrints ==
    /\ Scripting /\ proc.at # "done"
    /\ proc.at = "activating" => installed = Whole(head)
    /\ proc' = [proc EXCEPT !.at = NextMark(@), !.unread = TRUE]
    /\ UNCHANGED <<model, doomed, goingDown, heads, pageOpen, disk, rest>>

\* promote_binary, then install_dash_service.
ScriptReplaces ==
    /\ Scripting /\ proc.at = "activating" /\ installed # Whole(head)
    /\ installed' = IF installed.bin # head THEN [installed EXCEPT !.bin = head]
                    ELSE [installed EXCEPT !.unit = head]
    /\ UNCHANGED <<model, procs, heads, pageOpen, head, before, rest>>

\* readyReadStandardOutput with the rest of a line.
ReadOutput ==
    /\ Quiet /\ proc.unread
    /\ stage' = proc.at
    /\ proc' = [proc EXCEPT !.unread = FALSE]
    /\ UNCHANGED <<state, claim, target, rollbackRef, password, doomed,
                   goingDown, heads, pageOpen, disk, rest>>

\* finished, or errorOccurred(FailedToStart). A step that fails may have crashed,
\* timed out or not started at all; install.sh exits well only at its end.
StepEnds(ok) ==
    /\ Quiet /\ proc # NoStep
    /\ ok /\ proc.kind = "install" => proc.at = "done"
    /\ OnDone(proc, ok, NoStep)
    /\ UNCHANGED <<heads, pageOpen, rest>>

\* ~QProcess of a running process kills it and waits for its finished().
KillDoomed ==
    /\ ~Quiet
    /\ OnDone(doomed, FALSE, proc)
    /\ UNCHANGED <<heads, pageOpen, rest>>

\* The HEAD request of any checkConnection(), of this visit or an earlier one.
HeadAnswered(ok) ==
    /\ Quiet /\ heads > 0 /\ heads' = heads - 1
    /\ SetState(IF ok THEN "ReadyToCheck" ELSE "NoConnection")
    /\ UNCHANGED <<target, rollbackRef, password, stage, procs, pageOpen, disk,
                   rest>>

----------------------------------------------------------------------------
\* The driver. A button shows in the states its page section names.
CheckConnection ==
    /\ heads < MaxHeads /\ heads' = heads + 1
    /\ SetState("CheckingConnection")

\* reset().
Reset(s) ==
    /\ password' = "none" /\ stage' = "none"
    /\ target' = NoRef /\ rollbackRef' = NoRef
    /\ SetState(s)

OpenPage ==
    /\ Quiet /\ ~pageOpen
    /\ pageOpen' = TRUE /\ revisited' = (revisited \/ proc # NoStep)
    /\ CheckConnection
    /\ UNCHANGED <<target, rollbackRef, password, stage, procs, disk, version,
                   submits, boots>>

LeavePage ==
    /\ Quiet /\ pageOpen /\ pageOpen' = FALSE
    /\ IF state \in {"Installing", "Rebooting"} THEN UNCHANGED model
       ELSE Reset("Idle")
    /\ UNCHANGED <<procs, heads, disk, rest>>

Retry ==
    /\ Quiet /\ pageOpen /\ state = "NoConnection"
    /\ CheckConnection
    /\ UNCHANGED <<target, rollbackRef, password, stage, procs, pageOpen, disk,
                   rest>>

CheckForUpdates ==
    /\ Quiet /\ pageOpen /\ state \in {"ReadyToCheck", "UpToDate", "CheckFailed"}
    /\ SetState("Checking")
    /\ StartStep(proc, Step("ls-remote", NoRef, "none"))
    /\ UNCHANGED <<target, rollbackRef, password, stage, goingDown, heads,
                   pageOpen, disk, rest>>

StartInstall ==
    /\ Quiet /\ pageOpen /\ state = "UpdateAvailable"
    /\ SetState("AwaitingPassword")
    /\ UNCHANGED <<target, rollbackRef, password, stage, procs, heads, pageOpen,
                   disk, rest>>

SubmitPassword(pw) ==
    /\ Quiet /\ pageOpen /\ state \in {"AwaitingPassword", "WrongPassword"}
    /\ submits < MaxSubmits /\ submits' = submits + 1
    /\ password' = pw
    /\ SetState("ValidatingPassword")
    /\ StartStep(proc, Step("rev-parse", NoRef, "none"))
    /\ UNCHANGED <<target, rollbackRef, stage, goingDown, heads, pageOpen, disk,
                   version, revisited, boots>>

CancelPassword ==
    /\ Quiet /\ pageOpen /\ state \in {"AwaitingPassword", "WrongPassword"}
    /\ password' = "none"
    /\ SetState("UpdateAvailable")
    /\ UNCHANGED <<target, rollbackRef, stage, procs, heads, pageOpen, disk,
                   rest>>

Back ==
    /\ Quiet /\ pageOpen /\ state = "InstallFailed"
    /\ Reset("Idle")
    /\ UNCHANGED <<procs, heads, pageOpen, disk, rest>>

\* reset(), then checkConnection().
Later ==
    /\ Quiet /\ pageOpen /\ state = "InstallSucceeded"
    /\ Reset("CheckingConnection")
    /\ heads < MaxHeads /\ heads' = heads + 1
    /\ UNCHANGED <<procs, pageOpen, disk, rest>>

RequestReboot ==
    /\ Quiet /\ pageOpen /\ state = "InstallSucceeded"
    /\ SetState("Rebooting")
    /\ StartStep(proc, Step("reboot", NoRef, "none"))
    /\ UNCHANGED <<target, rollbackRef, password, stage, goingDown, heads,
                   pageOpen, disk, rest>>

Driver ==
    \/ OpenPage \/ LeavePage \/ Retry \/ CheckForUpdates \/ StartInstall
    \/ \E pw \in {"right", "wrong"} : SubmitPassword(pw)
    \/ CancelPassword \/ Back \/ Later \/ RequestReboot

----------------------------------------------------------------------------
\* The dash goes down and boots what is installed.
Boots ==
    /\ boots' = boots + 1
    /\ state' = "Idle" /\ claim' = "none" /\ target' = NoRef
    /\ rollbackRef' = NoRef /\ password' = "none" /\ stage' = "none"
    /\ proc' = NoStep /\ doomed' = NoStep /\ goingDown' = FALSE
    /\ heads' = 0 /\ pageOpen' = FALSE
    /\ version' = installed.bin /\ revisited' = FALSE
    /\ UNCHANGED <<disk, submits>>

GoesDown == goingDown /\ Boots

\* The ignition, at any time.
PowerCut == boots < MaxBoots /\ Boots

Next ==
    \/ Driver
    \/ ScriptPrints \/ ScriptReplaces \/ ReadOutput
    \/ \E ok \in BOOLEAN : StepEnds(ok) \/ HeadAnswered(ok)
    \/ KillDoomed
    \/ GoesDown \/ PowerCut

Spec == Init /\ [][Next]_vars

\* A child process ends, by its timeout at the latest; install.sh has none
\* (updatemodel.cpp:410) and is assumed to end. A request is answered or times
\* out after 5 s, an accepted reboot happens. Nothing of the driver.
FairSpec ==
    /\ Spec
    /\ WF_vars(\E ok \in BOOLEAN : StepEnds(ok)) /\ WF_vars(KillDoomed)
    /\ WF_vars(\E ok \in BOOLEAN : HeadAnswered(ok)) /\ WF_vars(GoesDown)

----------------------------------------------------------------------------
Refs == Versions \cup {NoRef}
Marks == {"none", "earlier", "activating", "done"}
Passwords == {"none", "right", "wrong"}
StepType == [kind : Kinds \cup {"none"}, ref : Refs, fed : Passwords,
             at : Marks, unread : BOOLEAN]

\* The types, and what the two process slots hold.
TypeOK ==
    /\ state \in States /\ claim \in {"none", "manual", "partial", "kept"}
    /\ target \in Tags \cup {NoRef} /\ rollbackRef \in Refs
    /\ password \in Passwords /\ stage \in Marks
    /\ proc \in StepType /\ doomed \in StepType
    /\ heads \in 0 .. MaxHeads /\ pageOpen \in BOOLEAN
    /\ head \in Versions /\ version \in Versions
    /\ installed \in [bin : Versions, unit : Versions]
    /\ before \in [bin : Versions, unit : Versions]
    /\ revisited \in BOOLEAN /\ goingDown \in BOOLEAN
    /\ submits \in 0 .. MaxSubmits /\ boots \in Nat

\* The steps that need the password, or lead to one that does.
Holds(step) == step.kind \in {"rev-parse", "fetch", "checkout", "validate", "install"}

\* The password is wiped as soon as install.sh exits (updatemodel.h:19), and on
\* every other way a chain can end: outside a chain the process holds none.
PasswordWiped == password # "none" => Holds(proc) \/ Holds(doomed)

\* The page says that the previous version stays installed only if install.sh
\* has replaced nothing since it started (updatemodel.cpp:445-454), as long as
\* the page was not opened anew while a step ran. The code breaks it: the last
\* marker is not the one describeRollback() looks for.
HonestClaim == pageOpen /\ claim = "kept" /\ ~revisited => installed = before

\* What is left of it: however late the output of install.sh was read and
\* whatever late answers did meanwhile, that claim never hides a half-done swap,
\* a binary of one version under the unit of another. Where it is wrong the new
\* version is in place, whole.
ClaimHidesNoMix ==
    pageOpen /\ claim = "kept" /\ ~revisited =>
        installed = before \/ (stage = "done" /\ installed.bin = installed.unit)

\* The page asks for a restart only with binary and unit of one and the same
\* version in place, the one checked out.
SuccessIsWhole ==
    state \in {"InstallSucceeded", "Rebooting"} => installed = Whole(head)

\* No state that waits for a process or a request lasts: never stuck on
\* REBOOTING, INSTALLING, VERIFYING or CHECKING (updatemodel.cpp:571).
NeverStuck ==
    \A s \in {"CheckingConnection", "Checking", "ValidatingPassword",
              "Installing", "Rebooting"} : state = s ~> state # s
=============================================================================
