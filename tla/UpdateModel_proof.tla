------------------------- MODULE UpdateModel_proof -------------------------
(***************************************************************************)
(* Theorems about UpdateModel, for every value of its constants. A step    *)
(* that ends runs its handler either with nothing else under way, or, when *)
(* a later one took its place, as a failure with that one under way.       *)
(***************************************************************************)
EXTENDS UpdateModel, TLAPS

\* Steps that leave head and installed alone, and lead to none that does not.
Harmless == {"none", "ls-remote", "reboot"}

\* Why success is whole: while the page claims it, and as long as the reboot that
\* may claim it again has not ended, only harmless steps run; no password is asked
\* for while that reboot runs; and install.sh gets to its end only with all of it in
\* place.
WholeInv ==
    /\ \/ state \in {"InstallSucceeded", "Rebooting"}
       \/ proc.kind = "reboot" \/ doomed.kind = "reboot"
       => /\ installed = Whole(head)
          /\ proc.kind \in Harmless /\ doomed.kind \in Harmless
    /\ state \in {"UpdateAvailable", "AwaitingPassword", "WrongPassword"}
       => proc.kind # "reboot" /\ doomed.kind # "reboot"
    /\ proc.kind = "install" /\ proc.at = "done" => installed = Whole(head)

\* The page has been open since the step that runs was started.
Watched == pageOpen /\ ~revisited

\* The states in which install.sh or the rollback may run unseen or seen: none of
\* them resets the stage, and only Checking lets the step go.
Unreset == {"Installing", "CheckingConnection", "NoConnection", "ReadyToCheck",
            "Checking", "CheckFailed"}

\* What the next boot runs may have been replaced by an install.sh that has announced
\* `mark` last: all of it, if that was its end.
Swapped(mark) ==
    mark = "activating" \/ (mark = "done" /\ installed.bin = installed.unit)

\* install.sh replaces nothing before it announces the activation, and what it printed
\* is in the pipe or in m_installStage.
Marked(step) ==
    /\ installed # before => Swapped(step.at)
    /\ ~step.unread => stage = step.at

\* Why the claim is honest: as long as the page was not opened anew.
HonestInv ==
    /\ claim # "none" => state = "InstallFailed"
    /\ proc.unread => proc.kind = "install"
    /\ Watched =>
        /\ proc.kind \in {"install", "rollback"}
           => state \in Unreset /\ doomed.kind \in {"none", "ls-remote"}
        /\ doomed.kind = "install" => state = "Checking" /\ proc.kind = "ls-remote"
        /\ proc.kind = "install" => Marked(proc)
        /\ doomed.kind = "install" => Marked(doomed)
        /\ proc.kind = "rollback" /\ installed # before => Swapped(stage)
        /\ claim = "kept" /\ installed # before => stage = "done" /\ Swapped(stage)

----------------------------------------------------------------------------
\* A step is well typed, whatever it is told.
LEMMA StepTyped ==
    /\ NoStep \in StepType
    /\ \A kind \in Kinds, ref \in Refs, fed \in Passwords : Step(kind, ref, fed) \in StepType
BY DEF NoStep, Step, StepType, Kinds, Refs, Passwords, Marks, NoRef

\* A step starts with nothing printed.
LEMMA StepFields ==
    \A kind, ref, fed : /\ Step(kind, ref, fed).kind = kind
                        /\ Step(kind, ref, fed).at = "none"
                        /\ Step(kind, ref, fed).unread = FALSE
BY DEF Step, NoStep

\* What the handlers change, all of it well typed.
HandledOK ==
    /\ state \in States /\ claim \in {"none", "manual", "partial", "kept"}
    /\ target \in Tags \cup {NoRef} /\ rollbackRef \in Refs
    /\ password \in Passwords /\ stage \in Marks
    /\ proc \in StepType /\ doomed \in StepType
    /\ head \in Versions
    /\ installed \in [bin : Versions, unit : Versions]
    /\ before \in [bin : Versions, unit : Versions]
    /\ goingDown \in BOOLEAN

\* The handler of any step keeps the types.
LEMMA HandlersTyped ==
    ASSUME TypeOK, NEW ended \in StepType, NEW ok \in BOOLEAN, NEW running \in StepType,
           OnDone(ended, ok, running)
    PROVE  HandledOK'
<1>. USE StepTyped DEF HandledOK, TypeOK, SetState, LastStep, StartStep, FailInstall
<1>. HandledOK
  OBVIOUS
<1>1. CASE LsRemoteDone(ok, running) /\ UNCHANGED goingDown
  BY <1>1 DEF LsRemoteDone, States, disk
<1>2. CASE RevParseDone(ok, running) /\ UNCHANGED goingDown
  <2>1. Step("fetch", NoRef, "none") \in StepType
    BY DEF Kinds, Refs, Passwords
  <2>. QED BY <1>2, <2>1 DEF RevParseDone, States, Refs, disk, Passwords
<1>3. CASE FetchDone(ok, running) /\ UNCHANGED goingDown
  <2>1. Step("checkout", target, "none") \in StepType
    BY DEF Kinds, Refs, Versions, Passwords
  <2>. QED BY <1>3, <2>1 DEF FetchDone, States, disk, Passwords
<1>4. CASE CheckoutDone(ok, running, ended.ref) /\ UNCHANGED goingDown
  <2>1. Step("validate", NoRef, password) \in StepType
    BY DEF Kinds, Refs
  <2>2. ended.ref \in Refs
    BY DEF StepType
  <2>. QED BY <1>4, <2>1, <2>2 DEF CheckoutDone, States, Refs, Passwords
<1>5. CASE ValidateDone(ok, running, ended.fed) /\ UNCHANGED goingDown
  <2>1. Step("install", NoRef, password) \in StepType
    BY DEF Kinds, Refs
  <2>. QED BY <1>5, <2>1 DEF ValidateDone, States, Passwords, Marks
<1>6. CASE InstallDone(ok, running, ended) /\ UNCHANGED goingDown
  <2>1. Step("rollback", rollbackRef, "none") \in StepType
    BY DEF Kinds, Passwords
  <2>2. Flush(ended) \in Marks
    BY DEF StepType, Flush
  <2>. QED BY <1>6, <2>1, <2>2 DEF InstallDone, States, disk, Passwords
<1>7. CASE RollbackDone(ok, running, ended.ref) /\ UNCHANGED goingDown
  <2>1. Outcome(ok, stage) \in {"manual", "partial", "kept"}
    BY DEF Outcome
  <2>2. ended.ref \in Refs
    BY DEF StepType
  <2>. QED BY <1>7, <2>1, <2>2 DEF RollbackDone, States, Refs
<1>8. CASE RebootDone(ok, running)
  BY <1>8 DEF RebootDone, States, disk
<1>. QED
  BY <1>1, <1>2, <1>3, <1>4, <1>5, <1>6, <1>7, <1>8 DEF OnDone

\* The driver's taps keep the types.
LEMMA DriverTyped ==
    ASSUME UpdateAssumption, TypeOK, Driver
    PROVE  TypeOK'
<1>. USE StepTyped DEF TypeOK, SetState, StartStep, CheckConnection, Reset
<1>1. CASE OpenPage
  BY <1>1 DEF OpenPage, procs, disk, States, UpdateAssumption
<1>2. CASE LeavePage
  BY <1>2 DEF LeavePage, procs, disk, rest, model, States, Refs, Passwords, Marks
<1>3. CASE Retry
  BY <1>3 DEF Retry, procs, disk, rest, States, UpdateAssumption
<1>4. CASE CheckForUpdates
  <2>1. Step("ls-remote", NoRef, "none") \in StepType
    BY DEF Kinds, Refs, Passwords
  <2>. QED BY <1>4, <2>1 DEF CheckForUpdates, disk, rest, States
<1>5. CASE StartInstall
  BY <1>5 DEF StartInstall, procs, disk, rest, States
<1>6. ASSUME NEW pw \in {"right", "wrong"}, SubmitPassword(pw)
      PROVE  TypeOK'
  <2>1. Step("rev-parse", NoRef, "none") \in StepType
    BY DEF Kinds, Refs, Passwords
  <2>. QED BY <1>6, <2>1 DEF SubmitPassword, disk, States, Passwords, UpdateAssumption
<1>7. CASE CancelPassword
  BY <1>7 DEF CancelPassword, procs, disk, rest, States, Passwords
<1>8. CASE Back
  BY <1>8 DEF Back, procs, disk, rest, States, Refs, Passwords, Marks
<1>9. CASE Later
  BY <1>9 DEF Later, procs, disk, rest, States, Refs, Passwords, Marks, UpdateAssumption
<1>10. CASE RequestReboot
  <2>1. Step("reboot", NoRef, "none") \in StepType
    BY DEF Kinds, Refs, Passwords
  <2>. QED BY <1>10, <2>1 DEF RequestReboot, disk, rest, States
<1>. QED
  BY <1>1, <1>2, <1>3, <1>4, <1>5, <1>6, <1>7, <1>8, <1>9, <1>10 DEF Driver

\* Every step keeps the types.
LEMMA UpdateTypeStep ==
    ASSUME UpdateAssumption, TypeOK, [Next]_vars
    PROVE  TypeOK'
<1>1. CASE Driver
  BY <1>1, DriverTyped
<1>2. CASE ScriptPrints
  <2>1. proc' \in StepType
    <3>1. PICK mark \in Marks : proc' = [proc EXCEPT !.at = mark, !.unread = TRUE]
      BY <1>2 DEF ScriptPrints, NextMark, TypeOK, StepType, Marks
    <3>. QED BY <3>1 DEF TypeOK, StepType
  <2>. QED BY <1>2, <2>1 DEF ScriptPrints, TypeOK, model, disk, rest
<1>3. CASE ScriptReplaces
  BY <1>3 DEF ScriptReplaces, TypeOK, model, procs, rest
<1>4. CASE ReadOutput
  BY <1>4 DEF ReadOutput, TypeOK, disk, rest, StepType
<1>5. ASSUME NEW ok \in BOOLEAN, StepEnds(ok)
      PROVE  TypeOK'
  <2>1. HandledOK'
    BY <1>5, HandlersTyped, StepTyped DEF StepEnds, TypeOK
  <2>. QED BY <1>5, <2>1 DEF StepEnds, HandledOK, TypeOK, rest
<1>6. ASSUME NEW ok \in BOOLEAN, HeadAnswered(ok)
      PROVE  TypeOK'
  BY <1>6 DEF HeadAnswered, TypeOK, SetState, States, procs, disk, rest, UpdateAssumption
<1>7. CASE KillDoomed
  <2>1. HandledOK'
    BY <1>7, HandlersTyped DEF KillDoomed, TypeOK
  <2>. QED BY <1>7, <2>1 DEF KillDoomed, HandledOK, TypeOK, rest
<1>8. CASE GoesDown \/ PowerCut
  <2>. Boots
    BY <1>8 DEF GoesDown, PowerCut
  <2>1. state' \in States /\ rollbackRef' \in Refs /\ password' \in Passwords /\ stage' \in Marks
    BY DEF Boots, States, Refs, Passwords, Marks
  <2>2. version' \in Versions /\ boots' \in Nat /\ heads' \in 0 .. MaxHeads
    BY DEF Boots, TypeOK, UpdateAssumption
  <2>. QED BY <2>1, <2>2, StepTyped DEF Boots, TypeOK, disk
<1>9. CASE UNCHANGED vars
  BY <1>9 DEF vars, model, procs, disk, rest, TypeOK
<1>. QED
  BY <1>1, <1>2, <1>3, <1>4, <1>5, <1>6, <1>7, <1>8, <1>9 DEF Next

\* The types hold, for every set of tags and every bound.
THEOREM UpdateTypeCorrect == Spec => []TypeOK
<1>1. Init => TypeOK
  <2>. SUFFICES ASSUME Init PROVE TypeOK
    OBVIOUS
  <2>1. state \in States /\ rollbackRef \in Refs /\ password \in Passwords /\ stage \in Marks
    BY DEF Init, States, Refs, Passwords, Marks
  <2>2. head \in Versions /\ version \in Versions
    BY DEF Init, Versions
  <2>3. installed \in [bin : Versions, unit : Versions] /\ before = installed
    BY <2>2 DEF Init, Whole
  <2>4. heads \in 0 .. MaxHeads /\ submits \in 0 .. MaxSubmits /\ boots \in Nat
    BY UpdateAssumption DEF Init, UpdateAssumption
  <2>. QED BY <2>1, <2>2, <2>3, <2>4, StepTyped DEF Init, TypeOK
<1>2. TypeOK /\ [Next]_vars => TypeOK'
  BY UpdateTypeStep, UpdateAssumption
<1>. QED BY <1>1, <1>2, PTL DEF Spec

----------------------------------------------------------------------------
\* Every step keeps the password inside the chain that needs it: PasswordWiped is
\* inductive by itself.
LEMMA WipedStep ==
    ASSUME TypeOK, PasswordWiped, [Next]_vars
    PROVE  PasswordWiped'
<1>. USE DEF PasswordWiped, Holds
<1>1. CASE Driver
  <2>1. CASE OpenPage \/ Retry \/ StartInstall
    BY <1>1, <2>1 DEF OpenPage, Retry, StartInstall, procs
  <2>2. CASE LeavePage \/ CancelPassword \/ Back \/ Later
    BY <1>1, <2>2 DEF LeavePage, CancelPassword, Back, Later, Reset, model, procs
  <2>3. CASE CheckForUpdates \/ RequestReboot
    BY <1>1, <2>3 DEF CheckForUpdates, RequestReboot, StartStep, Quiet, NoStep
  <2>4. CASE \E pw \in {"right", "wrong"} : SubmitPassword(pw)
    BY <1>1, <2>4 DEF SubmitPassword, StartStep, Step, NoStep
  <2>. QED BY <1>1, <2>1, <2>2, <2>3, <2>4 DEF Driver
<1>2. CASE ScriptPrints \/ ScriptReplaces \/ ReadOutput
  <2>1. proc'.kind = proc.kind /\ UNCHANGED doomed
    BY <1>2 DEF ScriptPrints, ScriptReplaces, ReadOutput, TypeOK, StepType, procs
  <2>2. UNCHANGED password
    BY <1>2 DEF ScriptPrints, ScriptReplaces, ReadOutput, model
  <2>. QED BY <2>1, <2>2
<1>3. ASSUME NEW ended, NEW ok, NEW running, OnDone(ended, ok, running),
             \/ Quiet /\ ended = proc /\ running = NoStep
             \/ ended = doomed /\ running = proc
      PROVE  PasswordWiped'
  BY <1>3 DEF OnDone, LsRemoteDone, RevParseDone, FetchDone, CheckoutDone, ValidateDone,
     InstallDone, RollbackDone, RebootDone, FailInstall, StartStep, LastStep, Quiet, Step,
     NoStep
<1>4. CASE (\E ok \in BOOLEAN : StepEnds(ok)) \/ KillDoomed
  BY <1>3, <1>4 DEF StepEnds, KillDoomed
<1>5. CASE \E ok \in BOOLEAN : HeadAnswered(ok)
  BY <1>5 DEF HeadAnswered, procs
<1>6. CASE GoesDown \/ PowerCut
  BY <1>6 DEF GoesDown, PowerCut, Boots
<1>7. CASE UNCHANGED vars
  BY <1>7 DEF vars, model, procs
<1>. QED
  BY <1>1, <1>2, <1>4, <1>5, <1>6, <1>7 DEF Next

\* Outside the chain that needs it the process holds no password (updatemodel.h:19),
\* whichever step failed, was killed or replaced by another.
THEOREM PasswordAlwaysWiped == Spec => []PasswordWiped
<1>1. Init => PasswordWiped
  BY DEF Init, PasswordWiped
<1>. QED BY <1>1, WipedStep, UpdateTypeCorrect, PTL DEF Spec

----------------------------------------------------------------------------
\* How a handler comes to run: its step ended with nothing else under way, or it was
\* killed, which is a failure, by the step that took its place.
Handling(ended, ok, running) ==
    /\ OnDone(ended, ok, running)
    /\ \/ Quiet /\ proc # NoStep /\ ended = proc /\ running = NoStep
       \/ ~Quiet /\ ok = FALSE /\ ended = doomed /\ running = proc

\* Success stays whole over every handler. install.sh, the one that may claim it,
\* exits well only with all of it in place.
LEMMA WholeHandled ==
    ASSUME TypeOK, WholeInv, NEW ended, NEW ok \in BOOLEAN, NEW running,
           Handling(ended, ok, running),
           ok /\ ended.kind = "install" => ended.at = "done"
    PROVE  WholeInv'
<1>. USE DEF WholeInv, Harmless, Whole, SetState, LastStep, StartStep, FailInstall, NoStep
<1>. USE StepFields
<1>0. \/ ended = proc /\ doomed.kind = "none" /\ running = NoStep
      \/ ~ok /\ ended = doomed /\ running = proc
  BY DEF Handling, Quiet
<1>1. CASE ended.kind = "ls-remote" /\ LsRemoteDone(ok, running)
  BY <1>0, <1>1 DEF LsRemoteDone, disk
<1>2. CASE ended.kind = "rev-parse" /\ RevParseDone(ok, running)
  BY <1>0, <1>2 DEF RevParseDone, disk
<1>3. CASE ended.kind = "fetch" /\ FetchDone(ok, running)
  BY <1>0, <1>3 DEF FetchDone, disk
<1>4. CASE ended.kind = "checkout" /\ CheckoutDone(ok, running, ended.ref)
  BY <1>0, <1>4 DEF CheckoutDone
<1>5. CASE ended.kind = "validate" /\ ValidateDone(ok, running, ended.fed)
  BY <1>0, <1>5 DEF ValidateDone
<1>6. CASE ended.kind = "install" /\ InstallDone(ok, running, ended)
  BY <1>0, <1>6 DEF InstallDone, disk
<1>7. CASE ended.kind = "rollback" /\ RollbackDone(ok, running, ended.ref)
  BY <1>0, <1>7 DEF RollbackDone
<1>8. CASE ended.kind = "reboot" /\ RebootDone(ok, running)
  BY <1>0, <1>8 DEF RebootDone, disk
<1>. QED
  BY <1>1, <1>2, <1>3, <1>4, <1>5, <1>6, <1>7, <1>8 DEF Handling, OnDone

\* Every step keeps success whole.
LEMMA WholeStep ==
    ASSUME TypeOK, WholeInv, [Next]_vars
    PROVE  WholeInv'
<1>. USE DEF WholeInv, Harmless
<1>1. CASE OpenPage \/ Retry \/ StartInstall \/ CancelPassword
  BY <1>1 DEF OpenPage, Retry, StartInstall, CancelPassword, CheckConnection, SetState,
     procs, disk
<1>2. CASE LeavePage \/ Back \/ Later
  BY <1>2 DEF LeavePage, Back, Later, Reset, SetState, model, procs, disk
<1>3. CASE CheckForUpdates \/ RequestReboot
  BY <1>3 DEF CheckForUpdates, RequestReboot, StartStep, SetState, Step, Quiet, NoStep,
     disk
<1>4. ASSUME NEW pw \in {"right", "wrong"}, SubmitPassword(pw)
      PROVE  WholeInv'
  BY <1>4 DEF SubmitPassword, StartStep, SetState, Step, Quiet, NoStep, disk
<1>5. CASE ScriptPrints \/ ReadOutput
  <2>1. proc'.kind = proc.kind /\ UNCHANGED <<doomed, state, head, installed>>
    BY <1>5 DEF ScriptPrints, ReadOutput, TypeOK, StepType, model, disk
  <2>2. proc'.at = "done" => proc.at = "done" \/ installed = Whole(head)
    BY <1>5 DEF ScriptPrints, NextMark, ReadOutput, TypeOK, StepType, Marks
  <2>. QED BY <2>1, <2>2 DEF Whole
<1>6. CASE ScriptReplaces
  BY <1>6 DEF ScriptReplaces, Scripting, Quiet, NoStep, model, procs
<1>7. CASE \E ok \in BOOLEAN : StepEnds(ok)
  BY <1>7, WholeHandled DEF StepEnds, Handling
<1>8. CASE KillDoomed
  BY <1>8, WholeHandled DEF KillDoomed, Handling
<1>9. CASE \E ok \in BOOLEAN : HeadAnswered(ok)
  BY <1>9 DEF HeadAnswered, SetState, procs, disk
<1>10. CASE GoesDown \/ PowerCut
  BY <1>10 DEF GoesDown, PowerCut, Boots, NoStep
<1>11. CASE UNCHANGED vars
  BY <1>11 DEF vars, model, procs, disk, Whole
<1>. QED
  BY <1>1, <1>2, <1>3, <1>4, <1>5, <1>6, <1>7, <1>8, <1>9, <1>10, <1>11 DEF Next, Driver

\* While the page asks for a restart, or restarts, binary and unit are those of the
\* version checked out: for any tags, and however many steps a late answer or a new
\* check let go on the way.
THEOREM SuccessAlwaysWhole == Spec => []SuccessIsWhole
<1>1. Init => WholeInv
  BY DEF Init, WholeInv, NoStep
<1>2. WholeInv => SuccessIsWhole
  BY DEF WholeInv, SuccessIsWhole
<1>. QED BY <1>1, <1>2, WholeStep, UpdateTypeCorrect, PTL DEF Spec

----------------------------------------------------------------------------
\* The claim stays honest over every handler.
LEMMA HonestHandled ==
    ASSUME TypeOK, HonestInv, NEW ended \in StepType, NEW ok \in BOOLEAN,
           NEW running \in StepType, Handling(ended, ok, running),
           UNCHANGED <<pageOpen, revisited>>
    PROVE  HonestInv'
<1>. USE DEF HonestInv, Watched, Unreset, Swapped, SetState, LastStep, StartStep, FailInstall,
     NoStep
<1>. USE StepFields
<1>0. \/ ended = proc /\ doomed.kind = "none" /\ running = NoStep
      \/ ~ok /\ ended = doomed /\ running = proc
  BY DEF Handling, Quiet
<1>1. CASE ended.kind = "ls-remote" /\ LsRemoteDone(ok, running)
  BY <1>0, <1>1 DEF LsRemoteDone, disk, Marked
<1>2. CASE ended.kind = "rev-parse" /\ RevParseDone(ok, running)
  BY <1>0, <1>2 DEF RevParseDone, disk, Marked
<1>3. CASE ended.kind = "fetch" /\ FetchDone(ok, running)
  BY <1>0, <1>3 DEF FetchDone, disk, Marked
<1>4. CASE ended.kind = "checkout" /\ CheckoutDone(ok, running, ended.ref)
  BY <1>0, <1>4 DEF CheckoutDone, Marked
<1>5. CASE ended.kind = "validate" /\ ValidateDone(ok, running, ended.fed)
  BY <1>0, <1>5 DEF ValidateDone, Marked
<1>6. CASE ended.kind = "install" /\ InstallDone(ok, running, ended)
  BY <1>0, <1>6 DEF InstallDone, disk, Marked, Flush
<1>7. CASE ended.kind = "rollback" /\ RollbackDone(ok, running, ended.ref)
  BY <1>0, <1>7 DEF RollbackDone, Outcome, Marked
<1>8. CASE ended.kind = "reboot" /\ RebootDone(ok, running)
  BY <1>0, <1>8 DEF RebootDone, disk, Marked
<1>. QED
  BY <1>1, <1>2, <1>3, <1>4, <1>5, <1>6, <1>7, <1>8 DEF Handling, OnDone

\* Every step keeps the claim honest.
LEMMA HonestStep ==
    ASSUME TypeOK, HonestInv, [Next]_vars
    PROVE  HonestInv'
<1>. USE DEF HonestInv, Watched, Unreset, Swapped
<1>1. CASE OpenPage
  <2>1. ~Watched' \/ proc = NoStep
    <3>1. revisited' = (revisited \/ proc # NoStep)
      BY <1>1 DEF OpenPage
    <3>. QED BY <3>1, Zenon
  <2>2. claim' = "none" /\ doomed = NoStep /\ UNCHANGED procs
    BY <1>1 DEF OpenPage, CheckConnection, SetState, Quiet
  <2>. QED BY <2>1, <2>2 DEF NoStep, procs
<1>2. CASE Retry \/ StartInstall \/ CancelPassword
  BY <1>2 DEF Retry, StartInstall, CancelPassword, CheckConnection, SetState, Quiet, NoStep,
     Marked, procs, disk, rest
<1>3. CASE LeavePage
  BY <1>3 DEF LeavePage, Reset, SetState, model, procs
<1>4. CASE Back \/ Later
  BY <1>4 DEF Back, Later, Reset, SetState, Quiet, NoStep, procs, disk, rest
<1>5. CASE CheckForUpdates \/ RequestReboot
  BY <1>5 DEF CheckForUpdates, RequestReboot, StartStep, SetState, Step, Quiet, NoStep,
     Marked, disk, rest
<1>6. ASSUME NEW pw \in {"right", "wrong"}, SubmitPassword(pw)
      PROVE  HonestInv'
  BY <1>6 DEF SubmitPassword, StartStep, SetState, Step, Quiet, NoStep, disk
<1>7. CASE ScriptPrints
  <2>1. PICK mark \in Marks :
           /\ proc' = [proc EXCEPT !.at = mark, !.unread = TRUE]
           /\ \/ proc.at \in {"none", "earlier"}
              \/ mark = "done" /\ installed = Whole(head)
    BY <1>7 DEF ScriptPrints, NextMark, TypeOK, StepType, Marks
  <2>2. /\ proc'.kind = proc.kind /\ proc'.unread
        /\ \/ proc.at \in {"none", "earlier"}
           \/ proc'.at = "done" /\ installed.bin = installed.unit
    BY <2>1 DEF TypeOK, StepType, Whole
  <2>. QED BY <1>7, <2>2 DEF ScriptPrints, Scripting, Quiet, NoStep, Marked, model, disk,
     rest
<1>8. CASE ScriptReplaces
  BY <1>8 DEF ScriptReplaces, Scripting, Quiet, NoStep, Marked, model, procs, rest
<1>9. CASE ReadOutput
  <2>1. proc'.kind = proc.kind /\ proc'.at = proc.at
    BY <1>9 DEF ReadOutput, TypeOK, StepType
  <2>. QED BY <1>9, <2>1 DEF ReadOutput, Quiet, NoStep, Marked, disk, rest
<1>10. CASE \E ok \in BOOLEAN : StepEnds(ok)
  BY <1>10, HonestHandled, StepTyped DEF StepEnds, Handling, TypeOK, rest
<1>11. CASE KillDoomed
  BY <1>11, HonestHandled DEF KillDoomed, Handling, TypeOK, rest
<1>12. CASE \E ok \in BOOLEAN : HeadAnswered(ok)
  BY <1>12 DEF HeadAnswered, SetState, Quiet, NoStep, Marked, procs, disk, rest
<1>13. CASE GoesDown \/ PowerCut
  BY <1>13 DEF GoesDown, PowerCut, Boots, NoStep
<1>14. CASE UNCHANGED vars
  BY <1>14 DEF vars, model, procs, disk, rest, Marked
<1>. QED
  BY <1>1, <1>2, <1>3, <1>4, <1>5, <1>6, <1>7, <1>8, <1>9, <1>10, <1>11, <1>12, <1>13, <1>14
     DEF Next, Driver

\* When the page says that the previous version stays installed (updatemodel.cpp:454),
\* install.sh has replaced nothing, or it had announced its end and the new version is
\* in place, binary and unit: never a mix of the two, as long as the page was not opened
\* anew while a step ran.
THEOREM ClaimNeverHidesAMix == Spec => []ClaimHidesNoMix
<1>1. Init => HonestInv
  BY DEF Init, HonestInv, Watched, NoStep
<1>2. HonestInv => ClaimHidesNoMix
  BY DEF HonestInv, ClaimHidesNoMix, Watched, Swapped
<1>. QED BY <1>1, <1>2, HonestStep, UpdateTypeCorrect, PTL DEF Spec
=============================================================================
