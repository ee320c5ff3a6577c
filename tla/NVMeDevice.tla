----------------------------- MODULE NVMeDevice -----------------------------
(***************************************************************************)
(* One drive object, NVMeDevice, over its command layer and its status:    *)
(* how it is found and initialised, polled, sanitized, and started over    *)
(* when Entity Manager signals.  Every action but the Worker's and the     *)
(* drive's own is a whole handler of the main loop: it takes the callback  *)
(* at the head of `replies`, or is called from D-Bus between callbacks.    *)
(*                                                                         *)
(* The other drives share the main loop and the Worker; they only delay    *)
(* what happens here.                                                      *)
(***************************************************************************)
EXTENDS NVMeMi, DriveStatus, FiniteSets

CONSTANTS
  EraseMethods,         \* methods D-Bus callers ask for
  SanitizeCapability,   \* methods the drive's Identify data lists
  MaxPending            \* bound: no new call while so much is in flight

ASSUME DeviceConstants ==
  /\ Readings \subseteq SUBSET Warnings
  /\ MaxPending \in Nat

maxIdentifyCmdRetry == 3

VARIABLES
  presence,             \* "unset" until the first initialize()
  present,              \* Item::present, shown on D-Bus
  ctrl,                 \* controller handle of the commands
  retry,                \* Identify attempts
  armed,                \* scanTimer is waiting
  saniCap,              \* SecureErase::sanitizeCapability
  inProgress,           \* and, with it, Operation::operation is Sanitize
  status,               \* Progress::status
  progress              \* Progress::progress: 0, 1..99 or 100

saniVars == <<saniCap, inProgress, status, progress>>
lifeVars == <<presence, present, ctrl, retry, armed>>
vars     == <<miVars, statusVars, lifeVars, saniVars>>

Init ==
  /\ MiInit
  /\ StatusInit
  /\ presence = "unset"
  /\ present = FALSE
  /\ ctrl = NoCtrl
  /\ retry = 1
  /\ armed = FALSE
  /\ saniCap = {}
  /\ inProgress = FALSE
  /\ status = "Unset"
  /\ progress = "none"

Room == Len(jobs) + Len(replies) < MaxPending

-----------------------------------------------------------------------------
(* Callbacks.  Each takes the reply to its command from the main loop.     *)

Got(cmd, ok) ==
  /\ replies # <<>>
  /\ Head(replies).cmd = cmd
  /\ Head(replies).ok = ok

Others == Tail(replies)

\* The callback issues no command.
Consume == replies' = Others /\ UNCHANGED jobs

\* initialize(): the drive is absent until the scan finds a controller.
Initialize(rest) ==
  /\ presence' = "absent"
  /\ Issue(rest, Request("scan", NoCtrl))

\* Mutant: a failed scan leaves the drive shown as it was.
OnScanErrorSilent ==
  /\ Got("scan", FALSE)
  /\ Consume
  /\ presence' = "absent"
  /\ UNCHANGED <<endpointVars, statusVars, saniVars, present, ctrl, retry, armed>>

\* The scan failed or found nothing.  Nothing is armed: the drive stays absent
\* until the next initialize().
OnScanError ==
  /\ Got("scan", FALSE)
  /\ Consume
  /\ presence' = "absent"
  /\ present' = FALSE
  /\ UNCHANGED <<endpointVars, statusVars, saniVars, ctrl, retry, armed>>

\* Mutant: the handle of the first scan is kept.
OnScanKeepsCtrl ==
  /\ Got("scan", TRUE)
  /\ presence' = "present"
  /\ present' = TRUE
  /\ ctrl' = IF ctrl = NoCtrl THEN Head(replies).ctrl ELSE ctrl
  /\ Issue(Others, Request("identify", ctrl'))
  /\ UNCHANGED <<endpointVars, statusVars, saniVars, retry, armed>>

OnScan ==
  /\ Got("scan", TRUE)
  /\ presence' = "present"
  /\ present' = TRUE
  /\ ctrl' = Head(replies).ctrl
  /\ Issue(Others, Request("identify", ctrl'))
  /\ UNCHANGED <<endpointVars, statusVars, saniVars, retry, armed>>

\* Mutant: one retry too many.
OnIdentifyErrorOnceMore ==
  /\ Got("identify", FALSE)
  /\ \/ /\ retry <= maxIdentifyCmdRetry
        /\ retry' = retry + 1
        /\ Issue(Others, Request("identify", ctrl))
     \/ /\ retry > maxIdentifyCmdRetry
        /\ retry' = 0
        /\ Issue(Others, Request("port", NoCtrl))
  /\ UNCHANGED <<endpointVars, statusVars, saniVars, presence, present, ctrl, armed>>

\* Mutant: no return after Identify is tried again.
OnIdentifyErrorGoesOn ==
  /\ Got("identify", FALSE)
  /\ \/ /\ retry < maxIdentifyCmdRetry
        /\ retry' = retry + 1
        /\ IssueBoth(Others, Request("identify", ctrl), Request("port", NoCtrl))
     \/ /\ retry >= maxIdentifyCmdRetry
        /\ retry' = 0
        /\ Issue(Others, Request("port", NoCtrl))
  /\ UNCHANGED <<endpointVars, statusVars, saniVars, presence, present, ctrl, armed>>

OnIdentifyError ==
  /\ Got("identify", FALSE)
  /\ \/ /\ retry < maxIdentifyCmdRetry
        /\ retry' = retry + 1
        /\ Issue(Others, Request("identify", ctrl))
     \/ /\ retry >= maxIdentifyCmdRetry
        /\ retry' = 0
        /\ Issue(Others, Request("port", NoCtrl))
  /\ UNCHANGED <<endpointVars, statusVars, saniVars, presence, present, ctrl, armed>>

\* Mutant: a drive that is started over is taken to do nothing.
OnIdentifyForgets ==
  /\ Got("identify", TRUE)
  /\ saniCap' = SanitizeCapability
  /\ inProgress' = FALSE
  /\ Issue(Others, Request("port", NoCtrl))
  /\ UNCHANGED <<endpointVars, statusVars, lifeVars, status, progress>>

OnIdentify ==
  /\ Got("identify", TRUE)
  /\ saniCap' = SanitizeCapability
  /\ Issue(Others, Request("port", NoCtrl))
  /\ UNCHANGED <<endpointVars, statusVars, lifeVars, inProgress, status, progress>>

\* Mutant: without port information the polling does not start.
OnPortSuccessOnly ==
  /\ Got("port", TRUE) \/ Got("port", FALSE)
  /\ Consume
  /\ armed' = (armed \/ Head(replies).ok)
  /\ UNCHANGED <<endpointVars, statusVars, saniVars, presence, present, ctrl, retry>>

\* The link is known or not: either way the polling starts.
OnPort ==
  /\ Got("port", TRUE) \/ Got("port", FALSE)
  /\ Consume
  /\ armed' = TRUE
  /\ UNCHANGED <<endpointVars, statusVars, saniVars, presence, present, ctrl, retry>>

-----------------------------------------------------------------------------
(* pollDrive().  Arming the timer again cancels a wait, but not a handler  *)
(* that is already in the main loop's queue.                               *)

TimerExpires ==
  /\ armed
  /\ Room
  /\ armed' = FALSE
  /\ replies' = Append(replies, Done("timer"))
  /\ UNCHANGED <<jobs, endpointVars, statusVars, saniVars, presence, present, ctrl, retry>>

PollAbsent ==
  /\ Got("timer", TRUE)
  /\ presence = "absent"
  /\ Initialize(Others)
  /\ UNCHANGED <<endpointVars, statusVars, saniVars, present, ctrl, retry, armed>>

\* Mutant: the log of a sanitize operation is read once.
PollSanitizeOnce ==
  /\ Got("timer", TRUE)
  /\ presence = "present"
  /\ inProgress
  /\ Issue(Others, Request("sanlog", ctrl))
  /\ UNCHANGED <<endpointVars, statusVars, saniVars, lifeVars>>

\* During a sanitize operation its log is polled, and nothing else.
PollSanitize ==
  /\ Got("timer", TRUE)
  /\ presence = "present"
  /\ inProgress
  /\ Issue(Others, Request("sanlog", ctrl))
  /\ armed' = TRUE
  /\ UNCHANGED <<endpointVars, statusVars, saniVars, presence, present, ctrl, retry>>

\* Mutant: the health is polled whether or not the drive sanitizes.
PollHealthAlways ==
  /\ Got("timer", TRUE)
  /\ presence = "present"
  /\ IssueBoth(Others, Request("health", NoCtrl), Request("smart", ctrl))
  /\ UNCHANGED <<endpointVars, statusVars, saniVars, lifeVars>>

PollHealth ==
  /\ Got("timer", TRUE)
  /\ presence = "present"
  /\ ~inProgress
  /\ IssueBoth(Others, Request("health", NoCtrl), Request("smart", ctrl))
  /\ UNCHANGED <<endpointVars, statusVars, saniVars, lifeVars>>

OnHealthError ==
  /\ Got("health", FALSE)
  /\ Consume
  /\ UNCHANGED <<endpointVars, statusVars, saniVars, lifeVars>>

OnHealth ==
  /\ Got("health", TRUE)
  /\ Consume
  /\ MarkFunctional(Head(replies).functional)
  /\ UNCHANGED <<endpointVars, saniVars, lifeVars>>

\* Mutant: a failed SMART log does not arm the timer.
OnSmartErrorStops ==
  /\ Got("smart", FALSE)
  /\ Consume
  /\ UNCHANGED <<endpointVars, statusVars, saniVars, lifeVars>>

OnSmartError ==
  /\ Got("smart", FALSE)
  /\ Consume
  /\ armed' = TRUE
  /\ UNCHANGED <<endpointVars, statusVars, saniVars, presence, present, ctrl, retry>>

OnSmart ==
  /\ Got("smart", TRUE)
  /\ Consume
  /\ ApplySmart(Head(replies).reported)
  /\ armed' = TRUE
  /\ UNCHANGED <<endpointVars, saniVars, presence, present, ctrl, retry>>

-----------------------------------------------------------------------------
(* Sanitize.                                                               *)

\* Mutant: the capabilities of the drive are not looked at.
EraseUnchecked(method) ==
  /\ Room
  /\ "overlapping erase" \in Mishaps \/ ~InFlight("sanitize")
  /\ ~inProgress
  /\ Issue(replies, Request("sanitize", ctrl))
  /\ UNCHANGED <<endpointVars, statusVars, lifeVars, saniVars>>

\* erase() takes the call: no operation is known, and the method is supported.
\* inProgress is set only when the drive has answered.  Elsewhere erase()
\* throws NotAllowed, or returns, and nothing changes.
Erase(method) ==
  /\ Room
  /\ "overlapping erase" \in Mishaps \/ ~InFlight("sanitize")
  /\ ~inProgress
  /\ method \in saniCap
  /\ Issue(replies, Request("sanitize", ctrl))
  /\ UNCHANGED <<endpointVars, statusVars, lifeVars, saniVars>>

OnSanitizeError ==
  /\ Got("sanitize", FALSE)
  /\ Consume
  /\ status' = "Failed"
  /\ inProgress' = FALSE
  /\ UNCHANGED <<endpointVars, statusVars, lifeVars, saniCap, progress>>

\* updateSanitizeStatus() leaves Progress::progress as it is.
OnSanitize ==
  /\ Got("sanitize", TRUE)
  /\ Consume
  /\ status' = "InProgress"
  /\ inProgress' = TRUE
  /\ UNCHANGED <<endpointVars, statusVars, lifeVars, saniCap, progress>>

\* The log always comes: no operation is in progress without an endpoint, and
\* a log that cannot be read replies success (SanlogFails).
\* The operation goes on: updatePercent().
OnSanlogBusy ==
  /\ Got("sanlog", TRUE)
  /\ Head(replies).sstat = "busy"
  /\ Consume
  /\ progress' = "some"
  /\ UNCHANGED <<endpointVars, statusVars, lifeVars, saniCap, inProgress, status>>

\* Mutant: whatever ends an operation but a failure completes it.
OnSanlogDoneUnlessFailed ==
  /\ Got("sanlog", TRUE)
  /\ Head(replies).sstat # "busy"
  /\ Consume
  /\ IF Head(replies).sstat = "failed"
       THEN status' = "Failed" /\ progress' = "none"
       ELSE status' = "Completed" /\ progress' = "full"
  /\ inProgress' = FALSE
  /\ armed' = TRUE
  /\ UNCHANGED <<endpointVars, statusVars, saniCap, presence, present, ctrl, retry>>

\* Mutant: the percentage of the last log read during the operation is kept.
OnSanlogDoneKeepsProgress ==
  /\ Got("sanlog", TRUE)
  /\ Head(replies).sstat # "busy"
  /\ Consume
  /\ CASE Head(replies).sstat = "ok" -> status' = "Completed" /\ inProgress' = FALSE
       [] Head(replies).sstat = "failed" -> status' = "Failed" /\ inProgress' = FALSE
       [] OTHER -> UNCHANGED <<status, inProgress>>
  /\ armed' = TRUE
  /\ UNCHANGED <<endpointVars, statusVars, saniCap, progress, presence, present, ctrl, retry>>

\* No operation runs any more: its outcome, if the log has one, is shown.
OnSanlogDone ==
  /\ Got("sanlog", TRUE)
  /\ Head(replies).sstat # "busy"
  /\ Consume
  /\ CASE Head(replies).sstat = "ok" ->
            status' = "Completed" /\ progress' = "full" /\ inProgress' = FALSE
       [] Head(replies).sstat = "failed" ->
            status' = "Failed" /\ progress' = "none" /\ inProgress' = FALSE
       [] OTHER -> UNCHANGED <<status, progress, inProgress>>
  /\ armed' = TRUE
  /\ UNCHANGED <<endpointVars, statusVars, saniCap, presence, present, ctrl, retry>>

-----------------------------------------------------------------------------
(* Calls from outside.                                                     *)

\* handleEmEndpoints(), after the start and at each signal of Entity Manager:
\* the chassis, if one is named for the drive's bus, then initialize().
EmEndpoints ==
  /\ Room
  /\ (\E chassis \in Chassis : Relocate(chassis)) \/ UNCHANGED statusVars
  /\ Initialize(replies)
  /\ UNCHANGED <<endpointVars, saniVars, present, ctrl, retry, armed>>

SetFaultProperty ==
  /\ \E flag \in FaultFlags, value \in BOOLEAN : SetFault(flag, value)
  /\ UNCHANGED <<miVars, lifeVars, saniVars>>

\* Restart=always: the process dies at any point and starts over.  The drive
\* goes on with what it does.
Restart ==
  /\ "restart" \in Mishaps
  /\ jobs' = <<>> /\ replies' = <<>> /\ nvmeEP' \in BOOLEAN /\ open' = {}
  /\ StatusReset
  /\ presence' = "unset" /\ present' = FALSE /\ ctrl' = NoCtrl
  /\ retry' = 1 /\ armed' = FALSE
  /\ saniCap' = {} /\ inProgress' = FALSE
  /\ status' = "Unset" /\ progress' = "none"
  /\ UNCHANGED hwSanitize

-----------------------------------------------------------------------------
Callback ==
  \/ OnScanError \/ OnScan
  \/ OnIdentifyError \/ OnIdentify \/ OnPort
  \/ PollAbsent \/ PollSanitize \/ PollHealth
  \/ OnHealthError \/ OnHealth \/ OnSmartError \/ OnSmart
  \/ OnSanitizeError \/ OnSanitize
  \/ OnSanlogBusy \/ OnSanlogDone

\* The Worker's and the drive's steps touch no state of the drive object.
WorkerStep == RunJob /\ UNCHANGED <<statusVars, lifeVars, saniVars>>
DriveStep  == SanitizeEnds /\ UNCHANGED <<statusVars, lifeVars, saniVars>>

Next ==
  \/ Callback
  \/ WorkerStep
  \/ DriveStep
  \/ TimerExpires
  \/ \E method \in EraseMethods : Erase(method)
  \/ EmEndpoints
  \/ SetFaultProperty
  \/ Restart

Spec == Init /\ [][Next]_vars

\* The main loop runs its callbacks, the Worker its jobs (see Worker for what
\* that takes), the timer expires and the drive ends what it began.
FairSpec ==
  /\ Spec
  /\ WF_vars(Callback)
  /\ WF_vars(WorkerStep)
  /\ WF_vars(DriveStep)
  /\ WF_vars(TimerExpires)

-----------------------------------------------------------------------------
(* Safety.                                                                 *)

TypeOK ==
  /\ jobs \in Seq(Job)
  /\ replies \in Seq(Reply)
  /\ nvmeEP \in BOOLEAN
  /\ open \in SUBSET Handles
  /\ hwSanitize \in Sanitizing
  /\ presence \in {"unset", "absent", "present"}
  /\ present \in BOOLEAN
  /\ ctrl \in Handles \cup {NoCtrl}
  /\ retry \in 0..maxIdentifyCmdRetry
  /\ armed \in BOOLEAN
  /\ saniCap \in {{}, SanitizeCapability}
  /\ inProgress \in BOOLEAN
  /\ status \in {"Unset", "InProgress", "Completed", "Failed"}
  /\ progress \in {"none", "some", "full"}

\* The timer is armed, or one of the commands or callbacks that lead to pollDrive()
\* is on its way.
CycleCommands == {"scan", "identify", "port", "smart", "timer"}

PollPending == armed \/ \E cmd \in CycleCommands : InFlight(cmd)

\* A drive that is present goes on being polled, whichever commands fail
\* (NVMeDevice.cpp:218-304, 463-663).
PollAlive == presence = "present" => PollPending

\* The poll cycles under way: each is at one of those commands or callbacks, or waits
\* for the timer, where they merge.
Links(queue) == Cardinality({k \in DOMAIN queue : queue[k].cmd \in CycleCommands})

PollCycles == Links(jobs) + Links(replies) + (IF armed THEN 1 ELSE 0)

\* A cycle does not split, on any path of any callback: one more is begun only when
\* Entity Manager starts the drive over, when a sanitize operation is found to have
\* ended while the timer's handler is queued, and when a SMART log is refused, which
\* is answered twice (NVMeDevice.cpp:218-304, 463-663).  So there are never more than
\* there have been of these, and one when the bus is quiet.
CyclesBegun ==
  [][PollCycles' > PollCycles =>
       EmEndpoints \/ (OnSanlogDone /\ ~armed) \/ SmartRefused]_vars

\* presence and ctrl are not initialised by the constructor (NVMeDevice.cpp:33-55)
\* and are not read before initialize() and the first scan have set them: until
\* a scan has found a controller nothing but scans goes on, and no erase() is let
\* through.
InitialisedBeforeUse ==
  /\ presence = "unset" => jobs = <<>> /\ replies = <<>> /\ ctrl = NoCtrl
  /\ ctrl = NoCtrl =>
       /\ presence # "present" /\ saniCap = {} /\ ~inProgress /\ ~armed
       /\ \A x \in Range(jobs) : x.cmd = "scan"
       /\ \A x \in Range(replies) : x.cmd = "scan"
  /\ \A job \in Range(jobs) : job.cmd \in ControllerCommands => job.ctrl # NoCtrl

\* D-Bus shows a drive as present only while the last scan found it, or the
\* next one has not yet replied (NVMeDevice.cpp:306-333).
PresentBacked == present => presence = "present" \/ InFlight("scan")

\* Unless a scan is on its way, commands go to a controller that is open: no
\* rescan has closed the handle that the drive object keeps.
CtrlCurrent == presence = "present" /\ ~InFlight("scan") => ctrl \in open

\* Why: the last scan to reply gave the handle that is open.
LastScanCurrent ==
  \A i \in 1..Len(replies) :
    /\ replies[i].cmd = "scan" /\ replies[i].ok
    /\ ~Queued("scan")
    /\ \A j \in i+1..Len(replies) : replies[j].cmd # "scan"
    => replies[i].ctrl \in open

\* "Completed" is never shown for an operation that still runs or has failed,
\* whatever is lost, overlaps or restarts (NVMeDevice.cpp:499-522, 665-672).
CompletedTruthful ==
  status = "Completed" => hwSanitize = "ok" \/ Answered("sanitize")

\* Why: a log of an end that the drive has outrun is followed by the reply to
\* the sanitize command that did it.
StaleLogOvertaken ==
  \A i \in 1..Len(replies) :
    /\ replies[i].cmd = "sanlog" /\ replies[i].ok
    /\ replies[i].sstat \in {"ok", "failed"} /\ replies[i].sstat # hwSanitize
    => \E j \in i+1..Len(replies) : replies[j].cmd = "sanitize"

\* What is shown as completed is shown at 100 per cent: no log of the operation
\* still running is handled after the one that ended it, nor before a newer
\* operation is shown (NVMeDevice.cpp:499-561).
CompletedIsFull == status = "Completed" => progress = "full"

\* Why: between the log of an end and that of a later operation, the reply to
\* the sanitize command is handled.
BusyLogIsNewer ==
  \A j \in 1..Len(replies) :
    replies[j].cmd = "sanlog" /\ replies[j].ok /\ replies[j].sstat = "busy" =>
      /\ status = "Completed" => \E k \in 1..j-1 : replies[k].cmd = "sanitize"
      /\ \A i \in 1..j-1 :
           replies[i].cmd = "sanlog" /\ replies[i].ok /\ replies[i].sstat = "ok"
           => \E k \in i+1..j-1 : replies[k].cmd = "sanitize"

\* The two D-Bus interfaces agree: erase() is refused, for the sake of Operation,
\* exactly while Progress shows an operation (NVMeDevice.cpp:516-561, 673-741).
OperationShown == inProgress <=> (status = "InProgress")

\* The inductive invariant, which needs nothing about mishaps.
IInv ==
  /\ TypeOK /\ StatusInv
  /\ PollAlive /\ InitialisedBeforeUse /\ PresentBacked
  /\ CtrlCurrent /\ LastScanCurrent
  /\ CompletedTruthful /\ StaleLogOvertaken
  /\ CompletedIsFull /\ BusyLogIsNewer
  /\ OperationShown

\* Without mishaps the drive object knows of each operation the drive runs, as
\* soon as the reply to the command has arrived.
SanitizeTracked == hwSanitize = "busy" /\ ~Answered("sanitize") => inProgress

\* Why: one sanitize command at a time is on its way, while no operation is known,
\* and it is rejected only if it does not start one.
AtMostOne(cmd, queue) ==
  \A i, j \in 1..Len(queue) : queue[i].cmd = cmd /\ queue[j].cmd = cmd => i = j

OneSanitize ==
  /\ AtMostOne("sanitize", jobs) /\ AtMostOne("sanitize", replies)
  /\ ~(Queued("sanitize") /\ Answered("sanitize"))
  /\ InFlight("sanitize") => ~inProgress

RejectedTruthful ==
  \A reply \in Range(replies) :
    reply.cmd = "sanitize" /\ ~reply.ok => hwSanitize # "busy"

\* The inductive invariant without mishaps.
SanitizeInv == IInv /\ OneSanitize /\ RejectedTruthful /\ SanitizeTracked

\* The logs of an operation are read before the next sanitize command is run, and
\* after its end they can only repeat what is shown.
AllBehind(queue, first, second) ==
  \A i, j \in 1..Len(queue) : queue[i].cmd = second /\ queue[j].cmd = first => j < i

LogsFirst ==
  /\ AllBehind(jobs, "sanlog", "sanitize") /\ AllBehind(replies, "sanlog", "sanitize")
  /\ Answered("sanitize") => ~Queued("sanlog")
  /\ ~nvmeEP => jobs = <<>>

Outcome(sstat) == IF sstat = "ok" THEN "Completed" ELSE "Failed"

LateLogRepeats ==
  ~inProgress =>
    /\ Queued("sanlog") => hwSanitize \in {"ok", "failed"} /\ status = Outcome(hwSanitize)
    /\ \A reply \in Range(replies) :
         reply.cmd = "sanlog" /\ reply.ok /\ reply.sstat \in {"ok", "failed"}
         => status = Outcome(reply.sstat)

\* The inductive invariant of the refinement below.
EraseInv == SanitizeInv /\ LogsFirst /\ LateLogRepeats

\* Without mishaps, each operation is announced, and concluded once, by its own
\* outcome, and none is begun or refused meanwhile (NVMeDevice.cpp:463-561, 665-741).
Accepted == \E reply \in Range(replies) : reply.cmd = "sanitize" /\ reply.ok

Erasing == INSTANCE EraseOperation WITH
  shown <- status, accepted <- Accepted, drive <- hwSanitize

ImplementsErase == Erasing!Spec

\* "not do health polling during the sanitize process" (NVMeDevice.cpp:562):
\* none is begun once the drive object can know of the operation.
QuietWhileSanitizing ==
  [][PollHealth => hwSanitize # "busy" \/ Answered("sanitize")]_vars

\* "try to re-initialize the drive" (NVMeDevice.cpp:477): a drive that is absent
\* is scanned for again, by a scan or a poll that is on its way.
AbsentIsRetried == presence = "absent" => PollPending

\* What holds while scans do not fail.
Retried ==
  nvmeEP =>
    /\ presence # "unset" => PollPending
    /\ \A reply \in Range(replies) : reply.cmd = "scan" => reply.ok

-----------------------------------------------------------------------------
(* Liveness, under FairSpec.                                               *)

\* Entity Manager signals only so often.
BusQuiet == <>[][~EmEndpoints]_vars

\* Every operation shown in progress ends as Completed or Failed, if the drive
\* object is not started over for ever (NVMeDevice.cpp:463-565, 665-672).
EraseSettles ==
  BusQuiet => (status = "InProgress" ~> status \in {"Completed", "Failed"})

\* A fault that D-Bus callers set is shown by the indicators, unless it is taken
\* back, the drive is started over, or a sanitize operation ends the health
\* polling for its time (NVMeDevice.hpp:144-168, NVMeDevice.cpp:602-642).
FaultIsShown ==
  \A flag \in FaultFlags :
    flag \in injected /\ presence = "present"
      ~> flag \in faults \/ flag \notin injected \/ presence # "present" \/ inProgress
=============================================================================
