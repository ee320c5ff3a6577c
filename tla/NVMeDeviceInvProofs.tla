----------------------- MODULE NVMeDeviceInvProofs -----------------------
(***************************************************************************)
(* Proofs about one drive object, for any handles, failures, warnings and  *)
(* bound: IInv is an invariant, whatever the mishaps; without them, health *)
(* polling and sanitize operations exclude each other, and EraseOperation  *)
(* is implemented; an absent drive is retried while scans do not fail; and *)
(* poll cycles do not split.                                               *)
(***************************************************************************)
EXTENDS NVMeDeviceProofs, FiniteSetTheorems

(* What is in flight stays in flight until its callback runs.              *)

LEMMA CallbackFlow ==
  ASSUME TypeOK, Callback
  PROVE  /\ replies # <<>>
         /\ Range(jobs) \subseteq Range(jobs')
         /\ Range(Others) \subseteq Range(replies')
         /\ ErrorsAdded(Others, replies')
<1>0. QueuesOK
  BY DEF TypeOK, QueuesOK
<1> USE DEF Commands, EndpointCommands, ControllerCommands
<1>1. CASE SilentCallback
  <2>1. replies # <<>> /\ jobs' = jobs /\ replies' = Others
    BY <1>1, SilentTakes
  <2>2. ErrorsAdded(Others, Others)
    BY <1>0, <2>1, TakeReply DEF ErrorsAdded, Extends
  <2> QED
    BY <2>1, <2>2
<1>2. CASE OnScan
  <2>1. Head(replies).ctrl \in Handles /\ Others \in Seq(Reply)
    BY <1>0, <1>2, TakeReply, ReplyFields DEF OnScan, Got
  <2>2. Request("identify", ctrl') \in Job
    BY <1>2, <2>1 DEF OnScan, Request, Job
  <2> QED
    BY <1>0, <1>2, <2>1, <2>2, IssueFlow DEF OnScan, Got
<1>3. CASE OnIdentifyError \/ OnIdentify
  BY <1>0, <1>3, TakeReply, RequestIsJob, IssueFlow DEF OnIdentifyError, OnIdentify, Got
<1>4. CASE PollAbsent \/ PollSanitize
  BY <1>0, <1>4, TakeReply, RequestIsJob, IssueFlow
     DEF PollAbsent, Initialize, PollSanitize, Got
<1>5. CASE PollHealth
  BY <1>0, <1>5, TakeReply, RequestIsJob, IssueBothFlow DEF PollHealth, Got
<1> QED
  BY <1>1, <1>2, <1>3, <1>4, <1>5 DEF Callback, SilentCallback

LEMMA CallbackKeeps ==
  ASSUME TypeOK, Callback, NEW cmd, cmd # Head(replies).cmd, InFlight(cmd)
  PROVE  InFlight(cmd)'
<1>1. Range(replies) = {Head(replies)} \cup Range(Others)
  BY CallbackFlow, TakeReply DEF TypeOK, QueuesOK
<1> QED
  BY <1>1, CallbackFlow DEF InFlight, Queued, Answered

\* What the main loop leaves in its queue moves up by one place.
LEMMA CallbackShifts ==
  ASSUME TypeOK, Callback, NEW i \in 1..Len(replies')
  PROVE  \/ i + 1 \in 2..Len(replies) /\ replies'[i] = replies[i + 1]
         \/ i >= Len(replies) /\ ~replies'[i].ok
<1>1. replies # <<>> /\ ErrorsAdded(Others, replies')
  BY CallbackFlow
<1>2. Len(Others) = Len(replies) - 1 /\ \A k \in 1..Len(Others) : Others[k] = replies[k + 1]
  BY <1>1 DEF TypeOK, Others
<1>3. Len(replies) \in Nat /\ Len(replies') \in Nat
  BY NextQueuesOK DEF TypeOK, QueuesOK, Next
<1> QED
  BY <1>1, <1>2, <1>3 DEF ErrorsAdded, Extends

LEMMA CallbackShiftsAll ==
  ASSUME TypeOK, Callback, NEW k \in 2..Len(replies)
  PROVE  k - 1 \in 1..Len(replies') /\ replies'[k - 1] = replies[k]
<1>1. replies # <<>> /\ ErrorsAdded(Others, replies')
  BY CallbackFlow
<1>2. Len(Others) = Len(replies) - 1 /\ \A i \in 1..Len(Others) : Others[i] = replies[i + 1]
  BY <1>1 DEF TypeOK, Others
<1>3. Len(replies) \in Nat /\ Len(replies') \in Nat
  BY NextQueuesOK DEF TypeOK, QueuesOK, Next
<1> QED
  BY <1>1, <1>2, <1>3 DEF ErrorsAdded, Extends

\* The steps of the others take no reply.
OtherStep ==
  \/ WorkerStep \/ DriveStep \/ TimerExpires
  \/ \E method \in EraseMethods : Erase(method)
  \/ EmEndpoints \/ SetFaultProperty

LEMMA OthersFlow ==
  ASSUME TypeOK, OtherStep
  PROVE  /\ Range(replies) \subseteq Range(replies')
         /\ Extends(replies, replies')
         /\ ~WorkerStep =>
              /\ Range(jobs) \subseteq Range(jobs')
              /\ \A i \in Len(replies)+1..Len(replies') :
                   ~replies'[i].ok \/ replies'[i].cmd = "timer"
<1>0. QueuesOK
  BY DEF TypeOK, QueuesOK
<1>1. CASE WorkerStep
  <2>1. JobAnswered
    BY <1>0, <1>1, RunJobAnswers DEF WorkerStep, TypeOK
  <2> QED
    BY <1>1, <2>1 DEF JobAnswered
<1>2. CASE DriveStep \/ SetFaultProperty
  <2>1. jobs' = jobs /\ replies' = replies
    BY <1>2 DEF DriveStep, SanitizeEnds, SetFaultProperty, miVars
  <2> QED
    BY <1>0, <2>1 DEF Extends, QueuesOK
<1>3. CASE TimerExpires
  <2>1. replies' = Append(replies, Done("timer")) /\ jobs' = jobs
    BY <1>3 DEF TimerExpires
  <2>2. Range(replies') = Range(replies) \cup {Done("timer")}
    BY <1>0, <2>1, DoneIsReply, RangeAppend DEF QueuesOK
  <2>3. Extends(replies, replies') /\ Len(replies') = Len(replies) + 1
    BY <1>0, <2>1 DEF Extends, QueuesOK
  <2>4. replies'[Len(replies) + 1].cmd = "timer"
    BY <1>0, <2>1 DEF QueuesOK, Done
  <2>5. \A i \in Len(replies)+1..Len(replies') : i = Len(replies) + 1
    BY <1>0, <2>3 DEF QueuesOK
  <2> QED
    BY <2>1, <2>2, <2>3, <2>4, <2>5
<1>4. CASE (\E method \in EraseMethods : Erase(method)) \/ EmEndpoints
  <2>1. \E cmd \in Commands, c \in {ctrl, NoCtrl} : Issue(replies, Request(cmd, c))
    BY <1>4 DEF Erase, EmEndpoints, Initialize, Commands, EndpointCommands,
                ControllerCommands
  <2>2. /\ Range(jobs) \subseteq Range(jobs')
        /\ Range(replies) \subseteq Range(replies')
        /\ ErrorsAdded(replies, replies')
    BY <1>0, <2>1, RequestIsJob, IssueFlow DEF QueuesOK
  <2> QED
    BY <2>2 DEF ErrorsAdded
<1> QED
  BY <1>1, <1>2, <1>3, <1>4 DEF OtherStep

LEMMA WorkerAnswers ==
  ASSUME TypeOK, WorkerStep
  PROVE  JobAnswered /\ \E x \in Range(replies') : x.cmd = Head(jobs).cmd
<1>1. JobAnswered
  BY RunJobAnswers DEF WorkerStep, TypeOK, QueuesOK
<1>2. Len(replies') \in Nat /\ Len(replies) \in Nat
  BY <1>1 DEF JobAnswered, QueuesOK, TypeOK
<1>3. replies'[Len(replies')].cmd = Head(jobs).cmd
  BY <1>1, <1>2 DEF JobAnswered
<1>4. replies'[Len(replies')] \in Range(replies')
  BY <1>1, <1>2 DEF JobAnswered, Range, QueuesOK
<1> QED
  BY <1>1, <1>3, <1>4

LEMMA OthersKeep ==
  ASSUME TypeOK, OtherStep, NEW cmd, InFlight(cmd)
  PROVE  InFlight(cmd)'
<1> USE DEF InFlight, Queued, Answered
<1>1. CASE WorkerStep
  <2>1. JobAnswered /\ \E x \in Range(replies') : x.cmd = Head(jobs).cmd
    BY <1>1, WorkerAnswers
  <2> QED
    BY <2>1 DEF JobAnswered
<1>2. CASE ~WorkerStep
  BY <1>2, OthersFlow
<1> QED
  BY <1>1, <1>2

\* Only scans open and close controllers, only sanitize commands and the drive
\* itself change what the drive does.
LEMMA JobEffects ==
  ASSUME WorkerStep
  PROVE  /\ Head(jobs).cmd # "scan" => open' = open
         /\ Head(jobs).cmd # "sanitize" => hwSanitize' = hwSanitize
BY DEF WorkerStep, RunJob, Run, ScanSucceeds, ScanFails, CommandFails, InfoSucceeds,
       HealthSucceeds, SmartSucceeds, SmartRefused, SanlogSucceeds, SanlogFails,
       SanitizeStarts, SanitizeRejected, SanitizeReplyLost, endpointVars

LEMMA EndpointKept ==
  Callback \/ (OtherStep /\ ~WorkerStep /\ ~DriveStep) => UNCHANGED endpointVars
BY DEF Callback, OnScanError, OnScan, OnIdentifyError, OnIdentify, OnPort, PollAbsent,
       PollSanitize, PollHealth, OnHealthError, OnHealth, OnSmartError, OnSmart,
       OnSanitizeError, OnSanitize, OnSanlogBusy, OnSanlogDone,
       OtherStep, TimerExpires, Erase, EmEndpoints, SetFaultProperty, miVars

LEMMA StepCases ==
  [Next]_vars => Callback \/ OtherStep \/ Restart \/ UNCHANGED vars
BY DEF Next, OtherStep

-----------------------------------------------------------------------------
(* Polling goes on.                                                        *)

\* A callback either arms the timer, or issues one of the commands that lead to it,
\* or leaves them where they are, unless it tells that the scan has failed.
LEMMA CallbackKeepsPending ==
  ASSUME TypeOK, PollPending, Callback, ~OnScanError
  PROVE  PollPending'
<1>0. QueuesOK
  BY DEF TypeOK, QueuesOK
<1> DEFINE Alive == {"scan", "identify", "port", "smart", "timer"}
<1> USE DEF Commands, EndpointCommands, ControllerCommands
<1>1. CASE OnPort \/ PollSanitize \/ OnSmartError \/ OnSmart \/ OnSanlogDone
  BY <1>1 DEF OnPort, PollSanitize, OnSmartError, OnSmart, OnSanlogDone, PollPending, CycleCommands
<1>2. ASSUME NEW cmd \in Alive \ {"timer"}, NEW c \in Handles \cup {NoCtrl},
             replies # <<>>, Issue(Others, Request(cmd, c))
      PROVE  PollPending'
  <2>1. Request(cmd, c) \in Job /\ Request(cmd, c).cmd = cmd
    BY DEF Request, Job
  <2>2. Others \in Seq(Reply)
    BY <1>0, <1>2, TakeReply
  <2>3. InFlight(cmd)'
    BY <1>0, <1>2, <2>1, <2>2, IssueFlow
  <2> QED
    BY <2>3 DEF PollPending, CycleCommands
<1>3. CASE OnScan
  <2>1. Head(replies).ctrl \in Handles /\ replies # <<>>
    BY <1>0, <1>3, TakeReply, ReplyFields DEF OnScan, Got
  <2>2. \E c \in Handles : Issue(Others, Request("identify", c))
    BY <1>3, <2>1 DEF OnScan
  <2> QED
    BY <1>2, <2>1, <2>2
<1>4. CASE OnIdentifyError \/ OnIdentify \/ PollAbsent
  <2>1. \E cmd \in {"scan", "identify", "port"}, c \in {ctrl, NoCtrl} :
          Issue(Others, Request(cmd, c))
    BY <1>4 DEF OnIdentifyError, OnIdentify, PollAbsent, Initialize
  <2>2. replies # <<>> /\ ctrl \in Handles \cup {NoCtrl}
    BY <1>4 DEF OnIdentifyError, OnIdentify, PollAbsent, Got, TypeOK
  <2> QED
    BY <1>2, <2>1, <2>2
<1>5. CASE PollHealth
  <2>1. Others \in Seq(Reply)
    BY <1>0, <1>5, TakeReply DEF PollHealth, Got
  <2>2. /\ Request("health", NoCtrl) \in Job
        /\ Request("smart", ctrl) \in Job
        /\ Request("smart", ctrl).cmd = "smart"
    BY RequestIsJob DEF Request
  <2>3. IssueBoth(Others, Request("health", NoCtrl), Request("smart", ctrl))
    BY <1>5 DEF PollHealth
  <2>4. InFlight("smart")'
    BY <1>0, <2>1, <2>2, <2>3, IssueBothFlow
  <2> QED
    BY <2>4 DEF PollPending, CycleCommands
<1>6. CASE OnHealthError \/ OnHealth \/ OnSanitizeError \/ OnSanitize \/ OnSanlogBusy
  <2>1. Head(replies).cmd \notin Alive /\ armed' = armed
    BY <1>6 DEF OnHealthError, OnHealth, OnSanitizeError, OnSanitize, OnSanlogBusy,
                Got, lifeVars
  <2>2. ASSUME NEW cmd \in Alive, InFlight(cmd) PROVE InFlight(cmd)'
    BY <2>1, <2>2, CallbackKeeps
  <2> QED
    BY <2>1, <2>2 DEF PollPending, CycleCommands
<1> QED
  BY <1>1, <1>3, <1>4, <1>5, <1>6 DEF Callback

\* Neither does any other step but a restart.
LEMMA OthersKeepPending ==
  ASSUME TypeOK, PollPending, OtherStep
  PROVE  PollPending'
<1> DEFINE Alive == {"scan", "identify", "port", "smart", "timer"}
<1>1. CASE TimerExpires
  <2>1. Range(replies') = Range(replies) \cup {Done("timer")}
    BY <1>1, DoneIsReply, RangeAppend DEF TimerExpires, TypeOK
  <2>2. Done("timer").cmd = "timer"
    BY DEF Done
  <2>3. InFlight("timer")'
    BY <2>1, <2>2 DEF Answered, InFlight
  <2> QED
    BY <2>3 DEF PollPending, CycleCommands
<1>2. CASE ~TimerExpires
  <2>1. armed' = armed
    BY <1>2 DEF OtherStep, WorkerStep, DriveStep, Erase, EmEndpoints, SetFaultProperty, lifeVars
  <2>2. ASSUME NEW cmd \in Alive, InFlight(cmd) PROVE InFlight(cmd)'
    BY <2>2, OthersKeep
  <2> QED
    BY <2>1, <2>2 DEF PollPending, CycleCommands
<1> QED
  BY <1>1, <1>2

LEMMA NextPollAlive == ASSUME TypeOK, PollAlive, [Next]_vars PROVE PollAlive'
<1>0. QueuesOK
  BY DEF TypeOK, QueuesOK
<1>1. CASE OnScanError \/ PollAbsent \/ EmEndpoints \/ Restart
  BY <1>1 DEF OnScanError, PollAbsent, EmEndpoints, Initialize, Restart, PollAlive
<1>2. CASE OnScan
  <2>1. InFlight("scan")
    BY <1>0, <1>2, TakeReply DEF OnScan, Got, InFlight, Answered
  <2>2. PollPending
    BY <2>1 DEF PollPending, CycleCommands
  <2>3. Callback /\ ~OnScanError
    BY <1>2 DEF Callback, OnScan, OnScanError, Got
  <2> QED
    BY <2>2, <2>3, CallbackKeepsPending DEF PollAlive
<1>3. CASE (Callback /\ ~OnScanError /\ ~OnScan /\ ~PollAbsent) \/ (OtherStep /\ ~EmEndpoints)
  <2>1. presence' = presence
    BY <1>3
       DEF Callback, OnIdentifyError, OnIdentify, OnPort, PollSanitize, PollHealth,
           OnHealthError, OnHealth, OnSmartError, OnSmart, OnSanitizeError, OnSanitize,
           OnSanlogBusy, OnSanlogDone, OtherStep, WorkerStep, DriveStep, TimerExpires, Erase,
           SetFaultProperty, lifeVars
  <2> QED
    BY <1>3, <2>1, CallbackKeepsPending, OthersKeepPending DEF PollAlive
<1>4. CASE UNCHANGED vars
  BY <1>4 DEF vars, miVars, lifeVars, PollAlive, PollPending, CycleCommands, InFlight, Queued, Answered
<1> QED
  BY <1>1, <1>2, <1>3, <1>4, StepCases

-----------------------------------------------------------------------------
(* What D-Bus shows of the presence.                                       *)

LEMMA NextPresentBacked ==
  ASSUME TypeOK, PresentBacked, [Next]_vars
  PROVE  PresentBacked'
<1>0. QueuesOK
  BY DEF TypeOK, QueuesOK
<1>1. CASE OnScanError \/ OnScan
  BY <1>1 DEF OnScanError, OnScan, PresentBacked
<1>2. CASE Callback /\ Head(replies).cmd # "scan" /\ ~PollAbsent
  <2>1. presence' = presence /\ present' = present
    BY <1>2
       DEF Callback, OnScanError, OnScan, OnIdentifyError, OnIdentify, OnPort,
           PollSanitize, PollHealth, OnHealthError, OnHealth, OnSmartError, OnSmart,
           OnSanitizeError, OnSanitize, OnSanlogBusy, OnSanlogDone, Got, lifeVars
  <2>2. InFlight("scan") => InFlight("scan")'
    BY <1>2, CallbackKeeps
  <2> QED
    BY <2>1, <2>2 DEF PresentBacked
<1>3. CASE PollAbsent \/ EmEndpoints
  <2>1. PICK rest \in Seq(Reply) : Initialize(rest)
    BY <1>0, <1>3, TakeReply DEF PollAbsent, EmEndpoints, Got, QueuesOK
  <2>2. Request("scan", NoCtrl) \in Job /\ Request("scan", NoCtrl).cmd = "scan"
    BY RequestIsJob DEF Request, Commands, EndpointCommands
  <2>3. InFlight("scan")'
    BY <1>0, <2>1, <2>2, IssueFlow DEF Initialize
  <2> QED
    BY <2>3 DEF PresentBacked
<1>4. CASE OtherStep /\ ~EmEndpoints
  <2>1. presence' = presence /\ present' = present
    BY <1>4 DEF OtherStep, WorkerStep, DriveStep, TimerExpires, Erase, SetFaultProperty,
                lifeVars
  <2>2. InFlight("scan") => InFlight("scan")'
    BY <1>4, OthersKeep
  <2> QED
    BY <2>1, <2>2 DEF PresentBacked
<1>5. CASE Restart
  BY <1>5 DEF Restart, PresentBacked
<1>6. CASE UNCHANGED vars
  BY <1>6 DEF vars, miVars, lifeVars, PresentBacked, InFlight, Queued, Answered
<1>7. Callback /\ Head(replies).cmd = "scan" => OnScanError \/ OnScan
  BY DEF Callback, OnScanError, OnScan, OnIdentifyError, OnIdentify, OnPort, PollAbsent,
         PollSanitize, PollHealth, OnHealthError, OnHealth, OnSmartError, OnSmart,
         OnSanitizeError, OnSanitize, OnSanlogBusy, OnSanlogDone, Got
<1> QED
  BY <1>1, <1>2, <1>3, <1>4, <1>5, <1>6, <1>7, StepCases

-----------------------------------------------------------------------------
(* The controller handle.                                                  *)

\* A scan that runs closes every other handle, and answers last.
LEMMA WorkerKeepsLastScan ==
  ASSUME TypeOK, LastScanCurrent, WorkerStep
  PROVE  LastScanCurrent'
<1>1. JobAnswered
  BY WorkerAnswers
<1>2. Len(replies) \in Nat /\ Len(replies') \in Nat
  BY <1>1 DEF TypeOK, JobAnswered, QueuesOK
<1>3. CASE Head(jobs).cmd = "scan"
  <2>1. ScanFails \/ \E handle \in Handles : ScanSucceeds(handle)
    BY <1>3 DEF WorkerStep, RunJob, Run, CommandFails, InfoSucceeds,
                HealthSucceeds, SmartSucceeds, SmartRefused, SanlogSucceeds, SanlogFails,
                SanitizeStarts, SanitizeRejected, SanitizeReplyLost
  <2>2. \E x : /\ replies' = Append(replies, x)
               /\ x.cmd = "scan"
               /\ x.ok => x.ctrl \in open'
    <3>1. CASE ScanFails
      <4>1. /\ replies' = Append(replies, Error("scan"))
            /\ Error("scan").cmd = "scan" /\ ~Error("scan").ok
        BY <3>1 DEF ScanFails, Answer, Error
      <4> QED
        BY <4>1
    <3>2. ASSUME NEW handle \in Handles, ScanSucceeds(handle)
          PROVE  \E x : /\ replies' = Append(replies, x)
                        /\ x.cmd = "scan"
                        /\ x.ok => x.ctrl \in open'
      <4> DEFINE y == [cmd |-> "scan", ok |-> TRUE, ctrl |-> handle]
      <4>1. replies' = Append(replies, y) /\ y.cmd = "scan" /\ y.ctrl \in open'
        BY <3>2 DEF ScanSucceeds, Answer
      <4> QED
        BY <4>1
    <3> QED
      BY <2>1, <3>1, <3>2
  <2>3. PICK x : /\ replies' = Append(replies, x)
                 /\ x.cmd = "scan"
                 /\ x.ok => x.ctrl \in open'
    BY <2>2
  <2>4. Len(replies') = Len(replies) + 1 /\ replies'[Len(replies')] = x
    BY <2>3 DEF TypeOK
  <2>5. ASSUME NEW i \in 1..Len(replies'),
               \A j \in i+1..Len(replies') : replies'[j].cmd # "scan"
        PROVE  i = Len(replies')
    BY <1>2, <2>3, <2>4, <2>5
  <2> QED
    BY <2>3, <2>4, <2>5 DEF LastScanCurrent
<1>4. CASE Head(jobs).cmd # "scan"
  <2>1. open' = open
    BY <1>4, JobEffects
  <2>2. Queued("scan") => Queued("scan")'
    BY <1>1, <1>4 DEF JobAnswered, Queued
  <2>3. SUFFICES ASSUME NEW i \in 1..Len(replies'),
                        replies'[i].cmd = "scan", replies'[i].ok, ~Queued("scan")',
                        \A j \in i+1..Len(replies') : replies'[j].cmd # "scan"
                 PROVE  replies'[i].ctrl \in open'
    BY DEF LastScanCurrent
  <2>4. i \in 1..Len(replies)
    BY <1>1, <1>2, <1>4, <2>3 DEF JobAnswered
  <2>5. replies[i] = replies'[i] /\ \A j \in i+1..Len(replies) : replies[j].cmd # "scan"
    BY <1>1, <1>2, <2>3, <2>4 DEF JobAnswered, Extends
  <2> QED
    BY <2>1, <2>2, <2>3, <2>4, <2>5 DEF LastScanCurrent
<1> QED
  BY <1>3, <1>4

LEMMA NextLastScan ==
  ASSUME TypeOK, LastScanCurrent, [Next]_vars
  PROVE  LastScanCurrent'
<1>1. CASE Callback
  <2>1. open' = open
    BY <1>1, EndpointKept DEF endpointVars
  <2>2. Queued("scan") => Queued("scan")'
    BY <1>1, CallbackFlow DEF Queued
  <2>3. Len(replies) \in Nat /\ Len(replies') \in Nat
    BY <1>1, NextQueuesOK DEF TypeOK, QueuesOK, Next
  <2>4. SUFFICES ASSUME NEW i \in 1..Len(replies'),
                        replies'[i].cmd = "scan", replies'[i].ok, ~Queued("scan")',
                        \A j \in i+1..Len(replies') : replies'[j].cmd # "scan"
                 PROVE  replies'[i].ctrl \in open'
    BY DEF LastScanCurrent
  <2>5. i + 1 \in 1..Len(replies) /\ replies[i + 1] = replies'[i]
    BY <1>1, <2>3, <2>4, CallbackShifts
  <2>6. ASSUME NEW j \in (i + 1)+1..Len(replies) PROVE replies[j].cmd # "scan"
    <3>1. j \in 2..Len(replies) /\ j - 1 \in i+1..Len(replies)
      BY <2>3, <2>5
    <3>2. replies'[j - 1] = replies[j] /\ j - 1 \in 1..Len(replies')
      BY <1>1, <3>1, CallbackShiftsAll
    <3>3. j - 1 \in i+1..Len(replies')
      BY <2>3, <3>1, <3>2
    <3> QED
      BY <2>4, <3>2, <3>3
  <2> QED
    BY <2>1, <2>2, <2>4, <2>5, <2>6 DEF LastScanCurrent
<1>2. CASE WorkerStep
  BY <1>2, WorkerKeepsLastScan
<1>3. CASE OtherStep /\ ~WorkerStep
  <2>1. open' = open
    BY <1>3, EndpointKept DEF endpointVars, DriveStep, SanitizeEnds
  <2>2. Queued("scan") => Queued("scan")'
    BY <1>3, OthersFlow DEF Queued
  <2>3. Len(replies) \in Nat /\ Len(replies') \in Nat
    BY <1>3, NextQueuesOK DEF TypeOK, QueuesOK, Next, OtherStep
  <2>4. SUFFICES ASSUME NEW i \in 1..Len(replies'),
                        replies'[i].cmd = "scan", replies'[i].ok, ~Queued("scan")',
                        \A j \in i+1..Len(replies') : replies'[j].cmd # "scan"
                 PROVE  replies'[i].ctrl \in open'
    BY DEF LastScanCurrent
  <2>5. i \in 1..Len(replies)
    BY <1>3, <2>3, <2>4, OthersFlow
  <2>6. replies[i] = replies'[i] /\ \A j \in i+1..Len(replies) : replies[j].cmd # "scan"
    BY <1>3, <2>3, <2>4, <2>5, OthersFlow DEF Extends
  <2> QED
    BY <2>1, <2>2, <2>4, <2>5, <2>6 DEF LastScanCurrent
<1>4. CASE Restart
  <2>1. replies' = <<>>
    BY <1>4 DEF Restart
  <2> QED
    BY <2>1 DEF LastScanCurrent
<1>5. CASE UNCHANGED vars
  BY <1>5 DEF vars, miVars, endpointVars, LastScanCurrent, Queued
<1> QED
  BY <1>1, <1>2, <1>3, <1>4, <1>5, StepCases

LEMMA NextCtrlCurrent ==
  ASSUME TypeOK, LastScanCurrent, CtrlCurrent, [Next]_vars
  PROVE  CtrlCurrent'
<1>1. CASE OnScan
  <2>1. Callback /\ open' = open /\ ctrl' = Head(replies).ctrl
    BY <1>1, EndpointKept DEF Callback, endpointVars, OnScan
  <2>2. /\ replies # <<>> /\ 1 \in 1..Len(replies) /\ Head(replies) = replies[1]
        /\ replies[1].cmd = "scan" /\ replies[1].ok
    BY <1>1 DEF OnScan, Got, TypeOK
  <2>3. SUFFICES ASSUME ~InFlight("scan")' PROVE replies[1].ctrl \in open
    BY <2>1, <2>2 DEF CtrlCurrent
  <2>4. ~Queued("scan")
    BY <2>1, <2>3, CallbackFlow DEF InFlight, Queued
  <2>5. ASSUME NEW j \in 1+1..Len(replies) PROVE replies[j].cmd # "scan"
    <3>1. j - 1 \in 1..Len(replies') /\ replies'[j - 1] = replies[j]
      BY <2>1, CallbackShiftsAll
    <3>2. replies[j] \in Range(replies')
      BY <3>1, <2>1, NextQueuesOK DEF Range, QueuesOK, Next
    <3> QED
      BY <2>3, <3>2 DEF InFlight, Answered
  <2> QED
    BY <2>2, <2>4, <2>5 DEF LastScanCurrent
<1>2. CASE OnScanError \/ PollAbsent \/ EmEndpoints \/ Restart
  BY <1>2 DEF OnScanError, PollAbsent, EmEndpoints, Initialize, Restart, CtrlCurrent
<1>3. CASE Callback /\ ~OnScan /\ ~OnScanError /\ ~PollAbsent
  <2>1. presence' = presence /\ ctrl' = ctrl /\ Head(replies).cmd # "scan"
    BY <1>3
       DEF Callback, OnIdentifyError, OnIdentify, OnPort,
           PollSanitize, PollHealth, OnHealthError, OnHealth, OnSmartError, OnSmart,
           OnSanitizeError, OnSanitize, OnSanlogBusy, OnSanlogDone, Got, lifeVars
  <2>2. InFlight("scan") => InFlight("scan")'
    BY <1>3, <2>1, CallbackKeeps
  <2>3. open' = open
    BY <1>3, EndpointKept DEF endpointVars
  <2> QED
    BY <2>1, <2>2, <2>3 DEF CtrlCurrent
<1>4. CASE OtherStep /\ ~EmEndpoints
  <2>1. presence' = presence /\ ctrl' = ctrl
    BY <1>4 DEF OtherStep, WorkerStep, DriveStep, TimerExpires, Erase, SetFaultProperty,
                lifeVars
  <2>2. InFlight("scan") => InFlight("scan")'
    BY <1>4, OthersKeep
  <2>3. open' = open \/ InFlight("scan")'
    <3>1. CASE WorkerStep
      BY <3>1, WorkerAnswers, JobEffects DEF InFlight, Answered
    <3>2. CASE ~WorkerStep
      BY <1>4, <3>2, EndpointKept DEF endpointVars, DriveStep, SanitizeEnds
    <3> QED
      BY <3>1, <3>2
  <2> QED
    BY <2>1, <2>2, <2>3 DEF CtrlCurrent
<1>5. CASE UNCHANGED vars
  BY <1>5 DEF vars, miVars, endpointVars, lifeVars, CtrlCurrent, InFlight, Queued, Answered
<1> QED
  BY <1>1, <1>2, <1>3, <1>4, <1>5, StepCases

-----------------------------------------------------------------------------
(* The outcome of a sanitize operation.                                    *)

LEMMA WorkerKeepsStaleLog ==
  ASSUME TypeOK, StaleLogOvertaken, WorkerStep
  PROVE  StaleLogOvertaken'
<1>1. JobAnswered
  BY WorkerAnswers
<1>2. Len(replies) \in Nat /\ Len(replies') \in Nat
  BY <1>1 DEF TypeOK, JobAnswered, QueuesOK
<1>3. SUFFICES ASSUME NEW i \in 1..Len(replies'),
                      replies'[i].cmd = "sanlog", replies'[i].ok,
                      replies'[i].sstat \in {"ok", "failed"}, replies'[i].sstat # hwSanitize'
               PROVE  \E j \in i+1..Len(replies') : replies'[j].cmd = "sanitize"
  BY DEF StaleLogOvertaken
\* The command itself is answered last.
<1>4. CASE Head(jobs).cmd = "sanitize"
  <2>1. replies'[Len(replies')].cmd = "sanitize"
    BY <1>1, <1>2, <1>4 DEF JobAnswered
  <2>2. i # Len(replies')
    BY <1>3, <2>1
  <2> QED
    BY <1>2, <1>3, <2>1, <2>2
\* Any other leaves the drive as it is, and a log that is read now is current.
<1>5. CASE Head(jobs).cmd # "sanitize"
  <2>1. hwSanitize' = hwSanitize
    BY <1>5, JobEffects
  <2>2. i \in 1..Len(replies)
    <3>1. CASE Head(jobs).cmd # "sanlog"
      BY <1>1, <1>2, <1>3, <3>1 DEF JobAnswered
    <3>2. CASE Head(jobs).cmd = "sanlog"
      <4>1. SanlogSucceeds \/ SanlogFails
        BY <3>2
           DEF WorkerStep, RunJob, Run, ScanSucceeds, ScanFails, CommandFails, InfoSucceeds,
               HealthSucceeds, SmartSucceeds, SmartRefused,
               SanitizeStarts, SanitizeRejected, SanitizeReplyLost
      <4>2. \E sstat \in {hwSanitize, "never"} : replies' = Append(replies, SanitizeLog(sstat))
        BY <4>1 DEF SanlogSucceeds, SanlogFails, Answer
      <4>3. PICK sstat \in {hwSanitize, "never"} :
              replies' = Append(replies, SanitizeLog(sstat))
        BY <4>2
      <4>4. SanitizeLog(sstat).sstat \notin {"ok", "failed"} \ {hwSanitize'}
        BY <2>1, <4>3 DEF SanitizeLog
      <4>5. Len(replies') = Len(replies) + 1 /\ replies'[Len(replies')] = SanitizeLog(sstat)
        BY <4>3 DEF TypeOK
      <4> QED
        BY <1>2, <1>3, <4>4, <4>5
    <3> QED
      BY <3>1, <3>2
  <2>3. replies[i] = replies'[i]
    BY <1>1, <2>2 DEF JobAnswered, Extends
  <2>4. PICK j \in i+1..Len(replies) : replies[j].cmd = "sanitize"
    BY <1>3, <2>1, <2>2, <2>3 DEF StaleLogOvertaken
  <2>5. j \in i+1..Len(replies') /\ replies'[j] = replies[j]
    BY <1>1, <1>2, <2>2, <2>4 DEF JobAnswered, Extends
  <2> QED
    BY <2>4, <2>5
<1> QED
  BY <1>4, <1>5

LEMMA NextStaleLog ==
  ASSUME TypeOK, StaleLogOvertaken, [Next]_vars
  PROVE  StaleLogOvertaken'
<1>1. CASE Callback
  <2>1. hwSanitize' = hwSanitize
    BY <1>1, EndpointKept DEF endpointVars
  <2>2. Len(replies) \in Nat /\ Len(replies') \in Nat
    BY <1>1, NextQueuesOK DEF TypeOK, QueuesOK, Next
  <2>3. SUFFICES ASSUME NEW i \in 1..Len(replies'),
                        replies'[i].cmd = "sanlog", replies'[i].ok,
                        replies'[i].sstat \in {"ok", "failed"}, replies'[i].sstat # hwSanitize'
                 PROVE  \E j \in i+1..Len(replies') : replies'[j].cmd = "sanitize"
    BY DEF StaleLogOvertaken
  <2>4. i + 1 \in 1..Len(replies) /\ replies[i + 1] = replies'[i]
    BY <1>1, <2>2, <2>3, CallbackShifts
  <2>5. PICK j \in (i + 1)+1..Len(replies) : replies[j].cmd = "sanitize"
    BY <2>1, <2>3, <2>4 DEF StaleLogOvertaken
  <2>6. j \in 2..Len(replies)
    BY <2>2, <2>4
  <2>7. j - 1 \in i+1..Len(replies') /\ replies'[j - 1] = replies[j]
    BY <1>1, <2>2, <2>5, <2>6, CallbackShiftsAll
  <2> QED
    BY <2>5, <2>7
<1>2. CASE WorkerStep
  BY <1>2, WorkerKeepsStaleLog
<1>3. CASE DriveStep
  <2>1. hwSanitize = "busy" /\ replies' = replies
    BY <1>3 DEF DriveStep, SanitizeEnds
  <2>2. \A sstat \in {"ok", "failed"} : sstat # hwSanitize
    BY <2>1
  <2> QED
    BY <2>1, <2>2 DEF StaleLogOvertaken
<1>4. CASE OtherStep /\ ~WorkerStep /\ ~DriveStep
  <2>1. hwSanitize' = hwSanitize
    BY <1>4, EndpointKept DEF endpointVars
  <2>2. Len(replies) \in Nat /\ Len(replies') \in Nat
    BY <1>4, NextQueuesOK DEF TypeOK, QueuesOK, Next, OtherStep
  <2>3. SUFFICES ASSUME NEW i \in 1..Len(replies'),
                        replies'[i].cmd = "sanlog", replies'[i].ok,
                        replies'[i].sstat \in {"ok", "failed"}, replies'[i].sstat # hwSanitize'
                 PROVE  \E j \in i+1..Len(replies') : replies'[j].cmd = "sanitize"
    BY DEF StaleLogOvertaken
  <2>4. i \in 1..Len(replies) /\ replies[i] = replies'[i]
    BY <1>4, <2>2, <2>3, OthersFlow DEF Extends
  <2>5. PICK j \in i+1..Len(replies) : replies[j].cmd = "sanitize"
    BY <2>1, <2>3, <2>4 DEF StaleLogOvertaken
  <2>6. j \in i+1..Len(replies') /\ replies'[j] = replies[j]
    BY <1>4, <2>2, <2>4, <2>5, OthersFlow DEF Extends
  <2> QED
    BY <2>5, <2>6
<1>5. CASE Restart
  <2>1. replies' = <<>>
    BY <1>5 DEF Restart
  <2> QED
    BY <2>1 DEF StaleLogOvertaken
<1>6. CASE UNCHANGED vars
  BY <1>6 DEF vars, miVars, endpointVars, StaleLogOvertaken
<1> QED
  BY <1>1, <1>2, <1>3, <1>4, <1>5, <1>6, StepCases

\* The log of an operation that runs comes after what ends it.
LEMMA WorkerKeepsBusyLog ==
  ASSUME TypeOK, StaleLogOvertaken, CompletedTruthful, BusyLogIsNewer, WorkerStep
  PROVE  BusyLogIsNewer'
<1>1. JobAnswered
  BY WorkerAnswers
<1>2. Len(replies) \in Nat /\ Len(replies') \in Nat /\ status' = status
  BY <1>1 DEF TypeOK, JobAnswered, QueuesOK, WorkerStep, saniVars
<1>3. \A k \in 1..Len(replies) : replies'[k] = replies[k]
  BY <1>1 DEF JobAnswered, Extends
<1>4. SUFFICES ASSUME NEW j \in 1..Len(replies'),
                      replies'[j].cmd = "sanlog", replies'[j].ok, replies'[j].sstat = "busy"
               PROVE  /\ status = "Completed" => \E k \in 1..j-1 : replies'[k].cmd = "sanitize"
                      /\ \A i \in 1..j-1 :
                           replies'[i].cmd = "sanlog" /\ replies'[i].ok /\ replies'[i].sstat = "ok"
                           => \E k \in i+1..j-1 : replies'[k].cmd = "sanitize"
  BY <1>2 DEF BusyLogIsNewer
\* A log that was read before.
<1>5. CASE j \in 1..Len(replies)
  <2>1. \A k \in 1..j : k \in 1..Len(replies) /\ replies'[k] = replies[k]
    BY <1>2, <1>3, <1>5
  <2>2. replies[j].cmd = "sanlog" /\ replies[j].ok /\ replies[j].sstat = "busy"
    BY <1>4, <1>5, <2>1
  <2>3. status = "Completed" => \E k \in 1..j-1 : replies'[k].cmd = "sanitize"
    BY <1>5, <2>1, <2>2 DEF BusyLogIsNewer
  <2>4. ASSUME NEW i \in 1..j-1,
               replies'[i].cmd = "sanlog", replies'[i].ok, replies'[i].sstat = "ok"
        PROVE  \E k \in i+1..j-1 : replies'[k].cmd = "sanitize"
    <3>1. replies[i] = replies'[i]
      BY <2>1, <2>4
    <3>2. PICK k \in i+1..j-1 : replies[k].cmd = "sanitize"
      BY <1>5, <2>2, <2>4, <3>1 DEF BusyLogIsNewer
    <3>3. k \in 1..j
      BY <1>2, <1>5, <2>4, <3>2
    <3> QED
      BY <2>1, <3>2, <3>3
  <2> QED
    BY <2>3, <2>4
\* A log that is read now: the operation runs.
<1>6. CASE j \notin 1..Len(replies)
  <2>1. Head(jobs).cmd = "sanlog"
    BY <1>1, <1>2, <1>4, <1>6 DEF JobAnswered
  <2>2. SanlogSucceeds \/ SanlogFails
    BY <2>1
       DEF WorkerStep, RunJob, Run, ScanSucceeds, ScanFails, CommandFails, InfoSucceeds,
           HealthSucceeds, SmartSucceeds, SmartRefused,
           SanitizeStarts, SanitizeRejected, SanitizeReplyLost
  <2>3. PICK sstat \in {hwSanitize, "never"} : replies' = Append(replies, SanitizeLog(sstat))
    BY <2>2 DEF SanlogSucceeds, SanlogFails, Answer
  <2>4. Len(replies') = Len(replies) + 1 /\ replies'[Len(replies')] = SanitizeLog(sstat)
    BY <2>3 DEF TypeOK
  <2>5. j = Len(replies) + 1
    BY <1>2, <1>4, <1>6, <2>4
  <2>6. hwSanitize = "busy"
    BY <1>4, <2>4, <2>5 DEF SanitizeLog
  <2>7. status = "Completed" => \E k \in 1..j-1 : replies'[k].cmd = "sanitize"
    <3>1. status = "Completed" => \E k \in 1..Len(replies) : replies[k].cmd = "sanitize"
      BY <2>6 DEF CompletedTruthful, Answered, Range, TypeOK
    <3> QED
      BY <1>2, <1>3, <2>5, <3>1
  <2>8. ASSUME NEW i \in 1..j-1,
               replies'[i].cmd = "sanlog", replies'[i].ok, replies'[i].sstat = "ok"
        PROVE  \E k \in i+1..j-1 : replies'[k].cmd = "sanitize"
    <3>1. i \in 1..Len(replies) /\ replies[i] = replies'[i]
      BY <1>2, <1>3, <2>5, <2>8
    <3>2. PICK k \in i+1..Len(replies) : replies[k].cmd = "sanitize"
      BY <2>6, <2>8, <3>1 DEF StaleLogOvertaken
    <3>3. k \in 1..Len(replies) /\ k \in i+1..j-1
      BY <1>2, <2>5, <3>1, <3>2
    <3> QED
      BY <1>3, <3>2, <3>3
  <2> QED
    BY <2>7, <2>8
<1> QED
  BY <1>5, <1>6

LEMMA CallbackKeepsBusyLog ==
  ASSUME TypeOK, BusyLogIsNewer, Callback
  PROVE  BusyLogIsNewer'
<1>1. Len(replies) \in Nat /\ Len(replies') \in Nat /\ replies # <<>>
  BY NextQueuesOK, CallbackFlow DEF TypeOK, QueuesOK, Next
<1>2. Head(replies) = replies[1] /\ 1 \in 1..Len(replies)
  BY <1>1 DEF TypeOK
<1>3. SUFFICES ASSUME NEW j \in 1..Len(replies'),
                      replies'[j].cmd = "sanlog", replies'[j].ok, replies'[j].sstat = "busy"
               PROVE  /\ status' = "Completed" => \E k \in 1..j-1 : replies'[k].cmd = "sanitize"
                      /\ \A i \in 1..j-1 :
                           replies'[i].cmd = "sanlog" /\ replies'[i].ok /\ replies'[i].sstat = "ok"
                           => \E k \in i+1..j-1 : replies'[k].cmd = "sanitize"
  BY DEF BusyLogIsNewer
<1>4. /\ j + 1 \in 2..Len(replies) /\ replies[j + 1] = replies'[j]
      /\ j + 1 \in 1..Len(replies)
  BY <1>1, <1>3, CallbackShifts
\* What the old queue holds after its head is in the new one.
<1>5. ASSUME NEW k \in 2..j, replies[k].cmd = "sanitize"
      PROVE  k - 1 \in 1..j-1 /\ replies'[k - 1].cmd = "sanitize"
  <2>1. k \in 2..Len(replies)
    BY <1>1, <1>4, <1>5
  <2> QED
    BY <1>1, <1>5, <2>1, CallbackShiftsAll
\* Only a log makes an operation completed, and nothing but a log or a reply to
\* a sanitize command leaves another status.
<1>6. /\ status' = "Completed" /\ status # "Completed" =>
           Head(replies).cmd = "sanlog" /\ Head(replies).ok /\ Head(replies).sstat = "ok"
      /\ Head(replies).cmd = "sanitize" => status' # "Completed"
  BY DEF Callback, OnScanError, OnScan, OnIdentifyError, OnIdentify, OnPort, PollAbsent,
         PollSanitize, PollHealth, OnHealthError, OnHealth, OnSmartError, OnSmart,
         OnSanitizeError, OnSanitize, OnSanlogBusy, OnSanlogDone, Got, lifeVars, saniVars
<1>7. ASSUME status' = "Completed" PROVE \E k \in 2..j : replies[k].cmd = "sanitize"
  <2>1. CASE status = "Completed"
    <3>1. PICK k \in 1..(j + 1)-1 : replies[k].cmd = "sanitize"
      BY <1>3, <1>4, <2>1 DEF BusyLogIsNewer
    <3>2. k # 1
      BY <1>2, <1>6, <1>7, <3>1
    <3> QED
      BY <1>1, <1>3, <3>1, <3>2
  <2>2. CASE status # "Completed"
    <3>1. replies[1].cmd = "sanlog" /\ replies[1].ok /\ replies[1].sstat = "ok"
      BY <1>2, <1>6, <1>7, <2>2
    <3>2. 1 \in 1..(j + 1)-1
      BY <1>1, <1>3
    <3>3. PICK k \in 1+1..(j + 1)-1 : replies[k].cmd = "sanitize"
      BY <1>3, <1>4, <3>1, <3>2 DEF BusyLogIsNewer
    <3> QED
      BY <1>1, <1>3, <3>3
  <2> QED
    BY <2>1, <2>2
<1>8. ASSUME NEW i \in 1..j-1,
             replies'[i].cmd = "sanlog", replies'[i].ok, replies'[i].sstat = "ok"
      PROVE  \E k \in i+1..j-1 : replies'[k].cmd = "sanitize"
  <2>1. i \in 1..Len(replies') /\ i \in Nat /\ j \in Nat
    BY <1>1, <1>3, <1>8
  <2>2. replies[i + 1] = replies'[i] /\ i + 1 \in 1..(j + 1)-1
    BY <1>1, <1>8, <2>1, CallbackShifts
  <2>3. PICK k \in (i + 1)+1..(j + 1)-1 : replies[k].cmd = "sanitize"
    BY <1>3, <1>4, <1>8, <2>2 DEF BusyLogIsNewer
  <2>4. k \in 2..j /\ k - 1 \in i+1..j-1
    BY <2>1, <2>3
  <2> QED
    BY <1>5, <2>3, <2>4
<1> QED
  BY <1>5, <1>7, <1>8

LEMMA NextBusyLog ==
  ASSUME TypeOK, StaleLogOvertaken, CompletedTruthful, BusyLogIsNewer, [Next]_vars
  PROVE  BusyLogIsNewer'
<1>1. CASE Callback
  BY <1>1, CallbackKeepsBusyLog
<1>2. CASE WorkerStep
  BY <1>2, WorkerKeepsBusyLog
<1>3. CASE OtherStep /\ ~WorkerStep
  <2>1. status' = status
    BY <1>3 DEF OtherStep, DriveStep, TimerExpires, Erase, EmEndpoints, SetFaultProperty, saniVars
  <2>2. Len(replies) \in Nat /\ Len(replies') \in Nat
    BY <1>3, NextQueuesOK DEF TypeOK, QueuesOK, Next, OtherStep
  <2>3. \A k \in 1..Len(replies) : replies'[k] = replies[k]
    BY <1>3, OthersFlow DEF Extends
  <2>4. ASSUME NEW j \in 1..Len(replies'),
               replies'[j].cmd = "sanlog", replies'[j].ok
        PROVE  j \in 1..Len(replies)
    BY <1>3, <2>2, <2>4, OthersFlow
  <2>5. SUFFICES ASSUME NEW j \in 1..Len(replies),
                        replies[j].cmd = "sanlog", replies[j].ok, replies[j].sstat = "busy"
                 PROVE  /\ status = "Completed" => \E k \in 1..j-1 : replies'[k].cmd = "sanitize"
                        /\ \A i \in 1..j-1 :
                             replies'[i].cmd = "sanlog" /\ replies'[i].ok /\ replies'[i].sstat = "ok"
                             => \E k \in i+1..j-1 : replies'[k].cmd = "sanitize"
    BY <2>1, <2>3, <2>4 DEF BusyLogIsNewer
  <2>6. \A k \in 1..j-1 : replies'[k] = replies[k]
    BY <2>2, <2>3, <2>5
  <2>7. \A i \in 1..j-1 : \A k \in i+1..j-1 : k \in 1..j-1
    BY <2>2, <2>5
  <2> QED
    BY <2>5, <2>6, <2>7 DEF BusyLogIsNewer
<1>4. CASE Restart
  <2>1. replies' = <<>>
    BY <1>4 DEF Restart
  <2> QED
    BY <2>1 DEF BusyLogIsNewer
<1>5. CASE UNCHANGED vars
  BY <1>5 DEF vars, miVars, saniVars, BusyLogIsNewer
<1> QED
  BY <1>1, <1>2, <1>3, <1>4, <1>5, StepCases

\* A log of an operation that runs is not handled while one is shown as completed.
LEMMA NextCompletedIsFull ==
  ASSUME TypeOK, BusyLogIsNewer, CompletedIsFull, [Next]_vars
  PROVE  CompletedIsFull'
<1> USE DEF CompletedIsFull
<1>1. CASE OnSanlogBusy
  <2>1. replies # <<>> /\ Head(replies).cmd = "sanlog" /\ Head(replies).ok
    BY <1>1 DEF OnSanlogBusy, Got
  <2>2. Head(replies) = replies[1] /\ 1 \in 1..Len(replies)
    BY <2>1 DEF TypeOK
  <2>3. replies[1].sstat = "busy"
    BY <1>1, <2>2 DEF OnSanlogBusy
  <2>4. status # "Completed"
    BY <2>1, <2>2, <2>3 DEF BusyLogIsNewer
  <2> QED
    BY <1>1, <2>4 DEF OnSanlogBusy
<1>2. CASE OnSanlogDone
  BY <1>2 DEF OnSanlogDone
<1>3. CASE Callback /\ ~OnSanlogBusy /\ ~OnSanlogDone
  BY <1>3
     DEF Callback, OnScanError, OnScan, OnIdentifyError, OnIdentify, OnPort, PollAbsent,
         PollSanitize, PollHealth, OnHealthError, OnHealth, OnSmartError, OnSmart,
         OnSanitizeError, OnSanitize, lifeVars, saniVars
<1>4. CASE OtherStep
  BY <1>4 DEF OtherStep, WorkerStep, DriveStep, TimerExpires, Erase, EmEndpoints,
              SetFaultProperty, saniVars
<1>5. CASE Restart
  BY <1>5 DEF Restart
<1>6. CASE UNCHANGED vars
  BY <1>6 DEF vars, saniVars
<1> QED
  BY <1>1, <1>2, <1>3, <1>4, <1>5, <1>6, StepCases

\* The interfaces on D-Bus are set together.
LEMMA NextOperationShown ==
  ASSUME TypeOK, OperationShown, [Next]_vars
  PROVE  OperationShown'
<1>1. CASE OnSanlogDone
  BY <1>1 DEF OnSanlogDone, OperationShown
<1>2. CASE OnSanitizeError \/ OnSanitize \/ Restart
  BY <1>2 DEF OnSanitizeError, OnSanitize, Restart, OperationShown
<1>3. CASE Callback /\ ~OnSanitizeError /\ ~OnSanitize /\ ~OnSanlogDone
  <2>1. inProgress' = inProgress /\ status' = status
    BY <1>3
       DEF Callback, OnScanError, OnScan, OnIdentifyError, OnIdentify, OnPort, PollAbsent,
           PollSanitize, PollHealth, OnHealthError, OnHealth, OnSmartError, OnSmart,
           OnSanlogBusy, saniVars
  <2> QED
    BY <2>1 DEF OperationShown
<1>4. CASE OtherStep \/ UNCHANGED vars
  <2>1. inProgress' = inProgress /\ status' = status
    BY <1>4 DEF OtherStep, WorkerStep, DriveStep, TimerExpires, Erase, EmEndpoints,
                SetFaultProperty, vars, saniVars
  <2> QED
    BY <2>1 DEF OperationShown
<1> QED
  BY <1>1, <1>2, <1>3, <1>4, StepCases

LEMMA NextCompletedTruthful ==
  ASSUME TypeOK, StaleLogOvertaken, CompletedTruthful, [Next]_vars
  PROVE  CompletedTruthful'
\* "Completed" is shown anew for a log that says so: if the drive sanitizes,
\* the reply that tells of it comes later.
<1>1. CASE OnSanlogDone /\ Head(replies).sstat = "ok"
  <2>1. Callback /\ hwSanitize' = hwSanitize
    BY <1>1, EndpointKept DEF Callback, endpointVars
  <2>2. /\ replies # <<>> /\ 1 \in 1..Len(replies) /\ Head(replies) = replies[1]
        /\ replies[1].cmd = "sanlog" /\ replies[1].ok
    BY <1>1 DEF OnSanlogDone, Got, TypeOK
  <2>3. SUFFICES ASSUME hwSanitize # "ok" PROVE Answered("sanitize")'
    BY <2>1 DEF CompletedTruthful
  <2>4. PICK j \in 1+1..Len(replies) : replies[j].cmd = "sanitize"
    BY <1>1, <2>2, <2>3 DEF StaleLogOvertaken
  <2>5. j - 1 \in 1..Len(replies') /\ replies'[j - 1] = replies[j]
    BY <2>1, CallbackShiftsAll
  <2>6. replies[j] \in Range(replies')
    BY <2>1, <2>5, NextQueuesOK DEF Range, QueuesOK, Next
  <2> QED
    BY <2>4, <2>6 DEF Answered
<1>2. CASE OnSanitizeError \/ OnSanitize \/ Restart
  BY <1>2 DEF OnSanitizeError, OnSanitize, Restart, CompletedTruthful
<1>3. CASE /\ Callback /\ ~OnSanitizeError /\ ~OnSanitize
           /\ ~(OnSanlogDone /\ Head(replies).sstat = "ok")
  <2>1. status' = "Completed" => status = "Completed"
    <3>1. CASE OnSanlogDone
      BY <1>3, <3>1 DEF OnSanlogDone
    <3>2. CASE ~OnSanlogDone
      BY <1>3, <3>2
         DEF Callback, OnScanError, OnScan, OnIdentifyError, OnIdentify, OnPort, PollAbsent,
             PollSanitize, PollHealth, OnHealthError, OnHealth, OnSmartError, OnSmart,
             OnSanlogBusy, saniVars
    <3> QED
      BY <3>1, <3>2
  <2>2. Head(replies).cmd # "sanitize"
    BY <1>3
       DEF Callback, OnScanError, OnScan, OnIdentifyError, OnIdentify, OnPort, PollAbsent,
           PollSanitize, PollHealth, OnHealthError, OnHealth, OnSmartError, OnSmart,
           OnSanlogBusy, OnSanlogDone, Got
  <2>3. Range(replies) = {Head(replies)} \cup Range(Others)
    BY <1>3, CallbackFlow, TakeReply DEF TypeOK, QueuesOK
  <2>4. Answered("sanitize") => Answered("sanitize")'
    BY <1>3, <2>2, <2>3, CallbackFlow DEF Answered
  <2>5. hwSanitize' = hwSanitize
    BY <1>3, EndpointKept DEF endpointVars
  <2> QED
    BY <2>1, <2>4, <2>5 DEF CompletedTruthful
<1>4. CASE OtherStep
  <2>1. status' = status
    BY <1>4 DEF OtherStep, WorkerStep, DriveStep, TimerExpires, Erase, EmEndpoints,
                SetFaultProperty, saniVars
  <2>2. Answered("sanitize") => Answered("sanitize")'
    BY <1>4, OthersFlow DEF Answered
  <2>3. \/ hwSanitize' = hwSanitize \/ hwSanitize # "ok" \/ Answered("sanitize")'
    <3>1. CASE WorkerStep
      BY <3>1, WorkerAnswers, JobEffects DEF Answered
    <3>2. CASE ~WorkerStep
      BY <1>4, <3>2, EndpointKept DEF endpointVars, DriveStep, SanitizeEnds
    <3> QED
      BY <3>1, <3>2
  <2> QED
    BY <2>1, <2>2, <2>3 DEF CompletedTruthful
<1>5. CASE UNCHANGED vars
  BY <1>5 DEF vars, miVars, endpointVars, saniVars, CompletedTruthful, Answered
<1> QED
  BY <1>1, <1>2, <1>3, <1>4, <1>5, StepCases

-----------------------------------------------------------------------------
(* Nothing is read before it is set.                                       *)

\* What a command method adds to the queues.
LEMMA CommandAdds ==
  ASSUME TypeOK, NEW rest \in Seq(Reply), NEW cmd \in Commands,
         NEW c \in Handles \cup {NoCtrl}, Issue(rest, Request(cmd, c))
  PROVE  /\ \A x \in Range(jobs') : x \in Range(jobs) \/ (x.cmd = cmd /\ x.ctrl = c)
         /\ \A x \in Range(replies') : x \in Range(rest) \/ x.cmd = cmd
<1>1. Request(cmd, c) \in Job /\ Request(cmd, c).cmd = cmd /\ Request(cmd, c).ctrl = c
  BY DEF Request, Job
<1>2. /\ Range(jobs') \subseteq Range(jobs) \cup {Request(cmd, c)}
      /\ Range(replies') \subseteq Range(rest) \cup {Error(cmd)}
  BY <1>1, IssueFlow DEF TypeOK, QueuesOK
<1>3. Error(cmd).cmd = cmd
  BY DEF Error
<1> QED
  BY <1>1, <1>2, <1>3

\* A drive object without a controller only hears of scans; one that has a
\* controller keeps one.
LEMMA CallbackInitialised ==
  ASSUME TypeOK, InitialisedBeforeUse, Callback
  PROVE  InitialisedBeforeUse'
<1>0. QueuesOK /\ replies # <<>>
  BY CallbackFlow DEF TypeOK, QueuesOK
<1>1. Others \in Seq(Reply) /\ Head(replies) \in Range(replies) /\ Range(Others) \subseteq Range(replies)
  BY <1>0, TakeReply
<1>2. presence # "unset"
  BY <1>0 DEF InitialisedBeforeUse
<1> USE DEF Commands, EndpointCommands, ControllerCommands
<1>3. CASE OnScan
  <2>1. ctrl' \in Handles /\ Issue(Others, Request("identify", ctrl'))
    BY <1>0, <1>3, TakeReply, ReplyFields DEF OnScan, Got
  <2>2. ctrl' # NoCtrl
    BY <2>1, CommandConstants
  <2>3. \A x \in Range(jobs') : x \in Range(jobs) \/ x.ctrl = ctrl'
    <3>1. PICK c \in Handles : c = ctrl' /\ Issue(Others, Request("identify", c))
      BY <2>1
    <3> QED
      BY <1>1, <3>1, CommandAdds
  <2> QED
    BY <1>3, <2>2, <2>3 DEF OnScan, InitialisedBeforeUse
<1>4. CASE OnScanError
  <2>1. jobs' = jobs /\ replies' = Others
    BY <1>4, SilentTakes DEF SilentCallback
  <2> QED
    BY <1>1, <1>4, <2>1 DEF OnScanError, saniVars, InitialisedBeforeUse
<1>5. CASE ~OnScan /\ ~OnScanError
  <2>1. ctrl # NoCtrl
    <3>1. Head(replies).cmd # "scan"
      BY <1>5
         DEF Callback, OnIdentifyError, OnIdentify, OnPort, PollAbsent,
             PollSanitize, PollHealth, OnHealthError, OnHealth, OnSmartError, OnSmart,
             OnSanitizeError, OnSanitize, OnSanlogBusy, OnSanlogDone, Got
    <3> QED
      BY <1>1, <3>1 DEF InitialisedBeforeUse
  <2>2. ctrl' = ctrl /\ presence' # "unset"
    BY <1>2, <1>5
       DEF Callback, OnIdentifyError, OnIdentify, OnPort, PollAbsent, Initialize,
           PollSanitize, PollHealth, OnHealthError, OnHealth, OnSmartError, OnSmart,
           OnSanitizeError, OnSanitize, OnSanlogBusy, OnSanlogDone, lifeVars
  <2>3. \A x \in Range(jobs') :
          x \in Range(jobs) \/ x.cmd \notin ControllerCommands \/ x.ctrl = ctrl
    <3>1. CASE SilentCallback
      BY <3>1, SilentTakes
    <3>2. CASE OnIdentifyError \/ OnIdentify \/ PollAbsent \/ PollSanitize
      <4>1. \/ Issue(Others, Request("identify", ctrl))
            \/ Issue(Others, Request("port", NoCtrl))
            \/ Issue(Others, Request("scan", NoCtrl))
            \/ Issue(Others, Request("sanlog", ctrl))
        BY <3>2 DEF OnIdentifyError, OnIdentify, PollAbsent, Initialize, PollSanitize
      <4>2. ctrl \in Handles \cup {NoCtrl}
        BY DEF TypeOK
      <4> QED
        BY <1>1, <4>1, <4>2, CommandAdds
    <3>3. CASE PollHealth
      <4>1. /\ Request("health", NoCtrl) \in Job
            /\ Request("smart", ctrl) \in Job
        BY RequestIsJob
      <4>2. Range(jobs') \subseteq
              Range(jobs) \cup {Request("health", NoCtrl), Request("smart", ctrl)}
        BY <1>0, <1>1, <3>3, <4>1, IssueBothFlow DEF PollHealth
      <4> QED
        BY <4>2 DEF Request
    <3> QED
      BY <1>5, <3>1, <3>2, <3>3 DEF Callback, SilentCallback
  <2> QED
    BY <2>1, <2>2, <2>3 DEF InitialisedBeforeUse
<1> QED
  BY <1>3, <1>4, <1>5

LEMMA OtherInitialised ==
  ASSUME TypeOK, InitialisedBeforeUse, OtherStep
  PROVE  InitialisedBeforeUse'
<1> USE DEF Commands, EndpointCommands, ControllerCommands
<1>0. ctrl \in Handles \cup {NoCtrl} /\ replies \in Seq(Reply)
  BY DEF TypeOK
<1>1. CASE WorkerStep
  <2>1. /\ jobs # <<>> /\ Range(jobs) = {Head(jobs)} \cup Range(jobs')
        /\ \A x \in Range(replies') \ Range(replies) : x.cmd = Head(jobs).cmd
    BY <1>1, WorkerAnswers DEF JobAnswered
  <2> QED
    BY <1>1, <2>1 DEF WorkerStep, lifeVars, saniVars, InitialisedBeforeUse
<1>2. CASE DriveStep \/ SetFaultProperty
  BY <1>2 DEF DriveStep, SanitizeEnds, SetFaultProperty, miVars, lifeVars, saniVars,
              InitialisedBeforeUse
<1>3. CASE TimerExpires
  BY <1>3 DEF TimerExpires, InitialisedBeforeUse
<1>4. ASSUME NEW method \in EraseMethods, Erase(method)
      PROVE  InitialisedBeforeUse'
  <2>1. ctrl # NoCtrl /\ presence # "unset"
    BY <1>4 DEF Erase, InitialisedBeforeUse
  <2>2. \A x \in Range(jobs') : x \in Range(jobs) \/ x.ctrl = ctrl
    BY <1>0, <1>4, CommandAdds DEF Erase
  <2> QED
    BY <1>4, <2>1, <2>2 DEF Erase, lifeVars, saniVars, InitialisedBeforeUse
<1>5. CASE EmEndpoints
  <2>1. /\ \A x \in Range(jobs') : x \in Range(jobs) \/ (x.cmd = "scan" /\ x.ctrl = NoCtrl)
        /\ \A x \in Range(replies') : x \in Range(replies) \/ x.cmd = "scan"
    BY <1>0, <1>5, CommandAdds DEF EmEndpoints, Initialize
  <2>2. /\ presence' = "absent"
        /\ UNCHANGED <<ctrl, saniCap, inProgress, armed>>
    BY <1>5 DEF EmEndpoints, Initialize, saniVars
  <2> QED
    BY <2>1, <2>2 DEF InitialisedBeforeUse
<1> QED
  BY <1>1, <1>2, <1>3, <1>4, <1>5 DEF OtherStep

LEMMA NextInitialised ==
  ASSUME TypeOK, InitialisedBeforeUse, [Next]_vars
  PROVE  InitialisedBeforeUse'
<1>1. CASE Restart
  <2>1. jobs' = <<>> /\ replies' = <<>>
    BY <1>1 DEF Restart
  <2> QED
    BY <1>1, <2>1 DEF Restart, InitialisedBeforeUse, Range
<1>2. CASE UNCHANGED vars
  BY <1>2 DEF vars, miVars, lifeVars, saniVars, InitialisedBeforeUse
<1> QED
  BY <1>1, <1>2, CallbackInitialised, OtherInitialised, StepCases

-----------------------------------------------------------------------------
(* Without mishaps: the drive object knows of the operation that runs.     *)

\* A callback takes no job, and adds only commands that it issues itself: none
\* but erase() issues a sanitize command.
NoneOf(cmd, queue) == \A i \in 1..Len(queue) : queue[i].cmd # cmd

LEMMA NoneQueued ==
  ASSUME TypeOK
  PROVE  /\ NoneOf("sanitize", jobs) <=> ~Queued("sanitize")
         /\ NoneOf("sanitize", replies) <=> ~Answered("sanitize")
BY DEF NoneOf, Queued, Answered, Range, TypeOK

\* A queue that has lost its head, and one that has gained another command.
LEMMA TailOf ==
  ASSUME NEW S, NEW q \in Seq(S), q # <<>>, AtMostOne("sanitize", q)
  PROVE  /\ AtMostOne("sanitize", Tail(q))
         /\ NoneOf("sanitize", q) => NoneOf("sanitize", Tail(q))
         /\ Head(q).cmd = "sanitize" => NoneOf("sanitize", Tail(q))
<1>1. Len(q) \in Nat /\ Len(Tail(q)) = Len(q) - 1 /\ Head(q) = q[1]
  OBVIOUS
<1>2. \A i \in 1..Len(Tail(q)) : i + 1 \in 2..Len(q) /\ Tail(q)[i] = q[i + 1]
  OBVIOUS
<1>3. AtMostOne("sanitize", Tail(q))
  <2>1. SUFFICES ASSUME NEW i \in 1..Len(Tail(q)), NEW j \in 1..Len(Tail(q)),
                        Tail(q)[i].cmd = "sanitize", Tail(q)[j].cmd = "sanitize"
                 PROVE  i = j
    BY DEF AtMostOne
  <2>2. i + 1 \in 1..Len(q) /\ j + 1 \in 1..Len(q)
    BY <1>1, <1>2
  <2>3. i + 1 = j + 1
    BY <1>2, <2>1, <2>2 DEF AtMostOne
  <2> QED
    BY <1>1, <2>3
<1>4. NoneOf("sanitize", q) => NoneOf("sanitize", Tail(q))
  BY <1>1, <1>2 DEF NoneOf
<1>5. ASSUME Head(q).cmd = "sanitize" PROVE NoneOf("sanitize", Tail(q))
  <2>1. SUFFICES ASSUME NEW i \in 1..Len(Tail(q)), Tail(q)[i].cmd = "sanitize" PROVE FALSE
    BY DEF NoneOf
  <2>2. q[1].cmd = "sanitize" /\ q[i + 1].cmd = "sanitize" /\ i + 1 \in 2..Len(q)
    BY <1>1, <1>2, <1>5, <2>1
  <2>3. 1 = i + 1
    BY <1>1, <2>2 DEF AtMostOne
  <2> QED
    BY <1>1, <2>2, <2>3
<1> QED
  BY <1>3, <1>4, <1>5

LEMMA AppendOf ==
  ASSUME NEW S, NEW q \in Seq(S), NEW x \in S, AtMostOne("sanitize", q)
  PROVE  /\ x.cmd # "sanitize" =>
              /\ AtMostOne("sanitize", Append(q, x))
              /\ NoneOf("sanitize", q) => NoneOf("sanitize", Append(q, x))
         /\ NoneOf("sanitize", q) => AtMostOne("sanitize", Append(q, x))
<1>1. /\ Len(q) \in Nat /\ Len(Append(q, x)) = Len(q) + 1
      /\ Append(q, x)[Len(q) + 1] = x
      /\ \A i \in 1..Len(q) : Append(q, x)[i] = q[i]
  OBVIOUS
<1>2. \A i \in 1..Len(q) + 1 : i \in 1..Len(q) \/ i = Len(q) + 1
  BY <1>1
<1> QED
  BY <1>1, <1>2 DEF AtMostOne, NoneOf

\* What one step may do to the places of the sanitize command: it takes the reply
\* at most, unless it is erase() or the Worker.
KeepsPlaces(rest) ==
  /\ AtMostOne("sanitize", jobs)' /\ AtMostOne("sanitize", replies)'
  /\ NoneOf("sanitize", jobs) => NoneOf("sanitize", jobs)'
  /\ NoneOf("sanitize", rest) => NoneOf("sanitize", replies)'
  /\ \A x \in Range(replies') : x.cmd = "sanitize" => x \in Range(rest)

LEMMA IssueKeepsPlaces ==
  ASSUME QueuesOK, AtMostOne("sanitize", jobs),
         NEW rest \in Seq(Reply), AtMostOne("sanitize", rest),
         NEW request \in Job, request.cmd # "sanitize", Issue(rest, request)
  PROVE  KeepsPlaces(rest)
<1>1. Error(request.cmd) \in Reply /\ Error(request.cmd).cmd # "sanitize"
  BY ErrorIsReply DEF Job, Error
<1>2. \A x \in Range(replies') : x.cmd = "sanitize" => x \in Range(rest)
  BY <1>1, IssueFlow
<1>3. CASE nvmeEP
  <2>1. jobs' = Append(jobs, request) /\ replies' = rest
    BY <1>3 DEF Issue
  <2> QED
    BY <1>2, <2>1, AppendOf DEF KeepsPlaces, QueuesOK, AtMostOne, NoneOf
<1>4. CASE ~nvmeEP
  <2>1. jobs' = jobs /\ replies' = Append(rest, Error(request.cmd))
    BY <1>4 DEF Issue
  <2>2. /\ AtMostOne("sanitize", Append(rest, Error(request.cmd)))
        /\ NoneOf("sanitize", rest) => NoneOf("sanitize", Append(rest, Error(request.cmd)))
    BY <1>1, AppendOf
  <2> QED
    BY <1>2, <2>1, <2>2 DEF KeepsPlaces, AtMostOne, NoneOf
<1> QED
  BY <1>3, <1>4

LEMMA IssueBothKeepsPlaces ==
  ASSUME QueuesOK, AtMostOne("sanitize", jobs),
         NEW rest \in Seq(Reply), AtMostOne("sanitize", rest),
         NEW first \in Job, first.cmd # "sanitize",
         NEW second \in Job, second.cmd # "sanitize", IssueBoth(rest, first, second)
  PROVE  KeepsPlaces(rest)
<1>1. /\ Error(first.cmd) \in Reply /\ Error(first.cmd).cmd # "sanitize"
      /\ Error(second.cmd) \in Reply /\ Error(second.cmd).cmd # "sanitize"
  BY ErrorIsReply DEF Job, Error
<1>2. \A x \in Range(replies') : x.cmd = "sanitize" => x \in Range(rest)
  BY <1>1, IssueBothFlow
<1>3. CASE nvmeEP
  <2> DEFINE one == Append(jobs, first)
  <2>1. jobs' = Append(one, second) /\ replies' = rest
    BY <1>3 DEF IssueBoth
  <2>2. /\ one \in Seq(Job) /\ AtMostOne("sanitize", one)
        /\ NoneOf("sanitize", jobs) => NoneOf("sanitize", one)
    BY AppendOf DEF QueuesOK
  <2> HIDE DEF one
  <2>3. /\ AtMostOne("sanitize", Append(one, second))
        /\ NoneOf("sanitize", one) => NoneOf("sanitize", Append(one, second))
    BY <2>2, AppendOf
  <2> QED
    BY <1>2, <2>1, <2>2, <2>3 DEF KeepsPlaces, AtMostOne, NoneOf
<1>4. CASE ~nvmeEP
  <2> DEFINE one == Append(rest, Error(first.cmd))
  <2>1. jobs' = jobs /\ replies' = Append(one, Error(second.cmd))
    BY <1>4 DEF IssueBoth
  <2>2. /\ one \in Seq(Reply) /\ AtMostOne("sanitize", one)
        /\ NoneOf("sanitize", rest) => NoneOf("sanitize", one)
    BY <1>1, AppendOf
  <2> HIDE DEF one
  <2>3. /\ AtMostOne("sanitize", Append(one, Error(second.cmd)))
        /\ NoneOf("sanitize", one) => NoneOf("sanitize", Append(one, Error(second.cmd)))
    BY <1>1, <2>2, AppendOf
  <2> QED
    BY <1>2, <2>1, <2>2, <2>3 DEF KeepsPlaces, AtMostOne, NoneOf
<1> QED
  BY <1>3, <1>4

LEMMA OtherRequests ==
  ASSUME TypeOK, NEW cmd \in Commands, cmd # "sanitize"
  PROVE  /\ Request(cmd, NoCtrl) \in Job /\ Request(cmd, ctrl) \in Job
         /\ Request(cmd, NoCtrl).cmd # "sanitize" /\ Request(cmd, ctrl).cmd # "sanitize"
BY RequestIsJob DEF Request

LEMMA CallbackKeepsPlaces ==
  ASSUME TypeOK, AtMostOne("sanitize", jobs), AtMostOne("sanitize", replies), Callback
  PROVE  /\ replies # <<>>
         /\ KeepsPlaces(Others)
         /\ NoneOf("sanitize", replies) => NoneOf("sanitize", Others)
         /\ Head(replies).cmd = "sanitize" => NoneOf("sanitize", Others)
         /\ Range(replies) = {Head(replies)} \cup Range(Others)
<1>0. QueuesOK /\ replies # <<>>
  BY CallbackFlow DEF TypeOK, QueuesOK
<1>1. /\ Others \in Seq(Reply) /\ AtMostOne("sanitize", Others)
      /\ NoneOf("sanitize", replies) => NoneOf("sanitize", Others)
      /\ Head(replies).cmd = "sanitize" => NoneOf("sanitize", Others)
      /\ Range(replies) = {Head(replies)} \cup Range(Others)
  BY <1>0, TakeReply, TailOf DEF Others, QueuesOK
<1> USE DEF Commands, EndpointCommands, ControllerCommands
<1>2. CASE SilentCallback
  <2>1. jobs' = jobs /\ replies' = Others
    BY <1>2, SilentTakes
  <2> QED
    BY <1>0, <1>1, <2>1 DEF KeepsPlaces, AtMostOne, NoneOf
<1>3. CASE OnScan
  <2>1. Head(replies).ctrl \in Handles
    BY <1>0, <1>3, TakeReply, ReplyFields DEF OnScan, Got
  <2>2. Request("identify", ctrl') \in Job /\ Request("identify", ctrl').cmd # "sanitize"
    BY <1>3, <2>1 DEF OnScan, Request, Job
  <2> QED
    BY <1>0, <1>1, <1>3, <2>2, IssueKeepsPlaces DEF OnScan
<1>4. CASE OnIdentifyError \/ OnIdentify
  BY <1>0, <1>1, <1>4, OtherRequests, IssueKeepsPlaces DEF OnIdentifyError, OnIdentify
<1>5. CASE PollAbsent \/ PollSanitize
  BY <1>0, <1>1, <1>5, OtherRequests, IssueKeepsPlaces DEF PollAbsent, Initialize, PollSanitize
<1>6. CASE PollHealth
  BY <1>0, <1>1, <1>6, OtherRequests, IssueBothKeepsPlaces DEF PollHealth
<1> QED
  BY <1>0, <1>1, <1>2, <1>3, <1>4, <1>5, <1>6 DEF Callback, SilentCallback

\* The invariant in terms of the places.
LEMMA Places ==
  ASSUME TypeOK
  PROVE  OneSanitize <=>
           /\ AtMostOne("sanitize", jobs) /\ AtMostOne("sanitize", replies)
           /\ NoneOf("sanitize", jobs) \/ NoneOf("sanitize", replies)
           /\ inProgress => NoneOf("sanitize", jobs) /\ NoneOf("sanitize", replies)
BY NoneQueued DEF OneSanitize, InFlight

TrackInv == OneSanitize /\ RejectedTruthful /\ SanitizeTracked

LEMMA CallbackTracks ==
  ASSUME TypeOK, StaleLogOvertaken, TrackInv, Callback
  PROVE  TrackInv'
<1>1. /\ AtMostOne("sanitize", jobs) /\ AtMostOne("sanitize", replies)
      /\ NoneOf("sanitize", jobs) \/ NoneOf("sanitize", replies)
      /\ inProgress => NoneOf("sanitize", jobs) /\ NoneOf("sanitize", replies)
  BY Places DEF TrackInv
<1>2. /\ replies # <<>>
      /\ KeepsPlaces(Others)
      /\ NoneOf("sanitize", replies) => NoneOf("sanitize", Others)
      /\ Head(replies).cmd = "sanitize" => NoneOf("sanitize", Others)
      /\ Range(replies) = {Head(replies)} \cup Range(Others)
  BY <1>1, CallbackKeepsPlaces
<1>3. TypeOK' /\ hwSanitize' = hwSanitize
  BY NextTypeOK, EndpointKept DEF Next, endpointVars
<1>4. RejectedTruthful'
  BY <1>2, <1>3 DEF TrackInv, RejectedTruthful, KeepsPlaces
\* The reply to the sanitize command was the only one.
<1>5. CASE Head(replies).cmd = "sanitize"
  <2>1. NoneOf("sanitize", jobs)' /\ NoneOf("sanitize", replies)'
    <3>1. ~NoneOf("sanitize", replies)
      BY <1>2, <1>5 DEF NoneOf, TypeOK
    <3> QED
      BY <1>1, <1>2, <1>5, <3>1 DEF KeepsPlaces
  <2>2. OneSanitize'
    <3>1. (AtMostOne("sanitize", jobs) /\ AtMostOne("sanitize", replies))'
      BY <1>2 DEF KeepsPlaces
    <3> QED
      BY <1>3, <2>1, <3>1, NoneQueued, PTL DEF OneSanitize, InFlight, Queued, Answered, NoneOf, Range
  <2>3. SanitizeTracked'
    <3>1. Head(replies) \in Range(replies)
      BY <1>2
    <3>2. OnSanitizeError \/ OnSanitize
      BY <1>5
         DEF Callback, OnScanError, OnScan, OnIdentifyError, OnIdentify, OnPort, PollAbsent,
             PollSanitize, PollHealth, OnHealthError, OnHealth, OnSmartError, OnSmart,
             OnSanlogBusy, OnSanlogDone, Got
    <3>3. CASE OnSanitizeError
      <4>1. ~Head(replies).ok
        BY <3>3, <1>2, TakeReply, ReplyFields DEF OnSanitizeError, Got, TypeOK, QueuesOK
      <4>2. hwSanitize # "busy"
        BY <1>5, <3>1, <4>1 DEF TrackInv, RejectedTruthful
      <4> QED
        BY <1>3, <4>2 DEF SanitizeTracked
    <3>4. CASE OnSanitize
      BY <3>4 DEF OnSanitize, SanitizeTracked
    <3> QED
      BY <3>2, <3>3, <3>4
  <2> QED
    BY <1>4, <2>2, <2>3 DEF TrackInv
\* Another reply: the one to the sanitize command stays.
<1>6. CASE Head(replies).cmd # "sanitize"
  <2>1. inProgress' => inProgress
    BY <1>6
       DEF Callback, OnScanError, OnScan, OnIdentifyError, OnIdentify, OnPort, PollAbsent,
           PollSanitize, PollHealth, OnHealthError, OnHealth, OnSmartError, OnSmart,
           OnSanitizeError, OnSanitize, OnSanlogBusy, OnSanlogDone, Got, lifeVars, saniVars
  <2>2. OneSanitize'
    <3>1. /\ (AtMostOne("sanitize", jobs) /\ AtMostOne("sanitize", replies))'
          /\ (NoneOf("sanitize", jobs))' \/ (NoneOf("sanitize", replies))'
          /\ inProgress' => (NoneOf("sanitize", jobs) /\ NoneOf("sanitize", replies))'
      BY <1>1, <1>2, <2>1 DEF KeepsPlaces
    <3>2. TypeOK' => /\ (NoneOf("sanitize", jobs) <=> ~Queued("sanitize"))'
                     /\ (NoneOf("sanitize", replies) <=> ~Answered("sanitize"))'
      BY NoneQueued, PTL
    <3> QED
      BY <1>3, <3>1, <3>2 DEF OneSanitize, InFlight
  <2>3. SanitizeTracked'
    <3>1. SUFFICES ASSUME hwSanitize = "busy", ~Answered("sanitize")' PROVE inProgress'
      BY <1>3 DEF SanitizeTracked
    <3>2. ~Answered("sanitize")
      <4>1. Answered("sanitize") => Answered("sanitize")'
        <5>1. Range(Others) \subseteq Range(replies')
          BY CallbackFlow
        <5> QED
          BY <1>2, <1>6, <5>1 DEF Answered
      <4> QED
        BY <3>1, <4>1
    <3>3. inProgress
      BY <3>1, <3>2 DEF TrackInv, SanitizeTracked
    <3>4. CASE OnSanlogDone
      <4>1. Head(replies) = replies[1] /\ 1 \in 1..Len(replies)
        BY <1>2 DEF TypeOK
      <4>2. replies[1].cmd = "sanlog" /\ replies[1].ok
        BY <3>4, <4>1 DEF OnSanlogDone, Got
      <4>3. ~\E j \in 1+1..Len(replies) : replies[j].cmd = "sanitize"
        BY <3>2 DEF Answered, Range, TypeOK
      <4>4. replies[1].sstat \notin {"ok", "failed"}
        BY <3>1, <4>1, <4>2, <4>3 DEF StaleLogOvertaken
      <4> QED
        BY <3>3, <3>4, <4>1, <4>4 DEF OnSanlogDone
    <3>5. CASE ~OnSanlogDone
      BY <1>6, <3>3, <3>5
         DEF Callback, OnScanError, OnScan, OnIdentifyError, OnIdentify, OnPort, PollAbsent,
             PollSanitize, PollHealth, OnHealthError, OnHealth, OnSmartError, OnSmart,
             OnSanitizeError, OnSanitize, OnSanlogBusy, Got, lifeVars, saniVars
    <3> QED
      BY <3>4, <3>5
  <2> QED
    BY <1>4, <2>2, <2>3 DEF TrackInv
<1> QED
  BY <1>5, <1>6

\* The Worker answers the sanitize command: the drive knows of no operation then,
\* and rejects the command without starting one, or starts it.
LEMMA WorkerTracks ==
  ASSUME Mishaps = {}, TypeOK, TrackInv, WorkerStep
  PROVE  TrackInv'
<1>1. /\ AtMostOne("sanitize", jobs) /\ AtMostOne("sanitize", replies)
      /\ NoneOf("sanitize", jobs) \/ NoneOf("sanitize", replies)
      /\ inProgress => NoneOf("sanitize", jobs) /\ NoneOf("sanitize", replies)
  BY Places DEF TrackInv
<1>2. JobAnswered /\ jobs # <<>> /\ jobs' = Tail(jobs) /\ inProgress' = inProgress
  BY WorkerAnswers DEF JobAnswered, WorkerStep, saniVars
<1>3. /\ AtMostOne("sanitize", jobs)'
      /\ NoneOf("sanitize", jobs) => NoneOf("sanitize", jobs)'
      /\ Head(jobs).cmd = "sanitize" => NoneOf("sanitize", jobs)'
  BY <1>1, <1>2, TailOf DEF TypeOK, AtMostOne, NoneOf
<1>4. /\ Len(replies) \in Nat /\ Len(replies') \in Nat
      /\ \A i \in 1..Len(replies) : replies'[i] = replies[i]
      /\ \A i \in Len(replies)+1..Len(replies') : replies'[i].cmd = Head(jobs).cmd
  BY <1>2 DEF JobAnswered, QueuesOK, Extends, TypeOK
<1>5. TypeOK'
  BY NextTypeOK DEF Next
<1>6. TypeOK' => /\ (NoneOf("sanitize", jobs) <=> ~Queued("sanitize"))'
                 /\ (NoneOf("sanitize", replies) <=> ~Answered("sanitize"))'
  BY NoneQueued, PTL
<1>7. CASE Head(jobs).cmd # "sanitize"
  <2>1. hwSanitize' = hwSanitize
    BY <1>7, JobEffects
  <2>2. /\ AtMostOne("sanitize", replies)'
        /\ NoneOf("sanitize", replies) => NoneOf("sanitize", replies)'
    <3>1. \A i \in 1..Len(replies') :
            replies'[i].cmd = "sanitize" => i \in 1..Len(replies) /\ replies[i].cmd = "sanitize"
      BY <1>4, <1>7
    <3> QED
      BY <1>1, <3>1 DEF AtMostOne, NoneOf
  <2>3. OneSanitize'
    BY <1>1, <1>2, <1>3, <1>5, <1>6, <2>2 DEF OneSanitize, InFlight
  <2>4. RejectedTruthful'
    BY <1>2, <1>7, <2>1 DEF JobAnswered, RejectedTruthful, TrackInv
  <2>5. SanitizeTracked'
    BY <1>2, <2>1 DEF JobAnswered, SanitizeTracked, TrackInv, Answered
  <2> QED
    BY <2>3, <2>4, <2>5 DEF TrackInv
<1>8. CASE Head(jobs).cmd = "sanitize"
  <2>1. Queued("sanitize") /\ ~Answered("sanitize") /\ ~inProgress /\ NoneOf("sanitize", replies)
    <3>1. ~NoneOf("sanitize", jobs)
      BY <1>2, <1>8 DEF NoneOf, TypeOK
    <3> QED
      BY <1>1, <3>1, NoneQueued
  <2>2. hwSanitize # "busy"
    BY <2>1 DEF TrackInv, SanitizeTracked
  <2>3. SanitizeStarts \/ SanitizeRejected
    BY <1>8
       DEF WorkerStep, RunJob, Run, ScanSucceeds, ScanFails, CommandFails, InfoSucceeds,
           HealthSucceeds, SmartSucceeds, SmartRefused, SanlogSucceeds, SanlogFails,
           SanitizeReplyLost
  <2>4. PICK x \in {Done("sanitize"), Error("sanitize")} :
           /\ replies' = Append(replies, x)
           /\ x.ok \/ hwSanitize' = hwSanitize
    <3>1. CASE SanitizeStarts
      <4>1. replies' = Append(replies, Done("sanitize")) /\ Done("sanitize").ok
        BY <3>1 DEF SanitizeStarts, Answer, Done
      <4> QED
        BY <4>1
    <3>2. CASE SanitizeRejected
      <4>1. replies' = Append(replies, Error("sanitize")) /\ hwSanitize' = hwSanitize
        BY <3>2 DEF SanitizeRejected, Answer, endpointVars
      <4> QED
        BY <4>1
    <3> QED
      BY <2>3, <3>1, <3>2
  <2>5. x \in Reply /\ x.cmd = "sanitize"
    <3>1. Done("sanitize") \in Reply /\ Error("sanitize") \in Reply
      BY DoneIsReply, ErrorIsReply DEF Commands, ControllerCommands
    <3>2. Done("sanitize").cmd = "sanitize" /\ Error("sanitize").cmd = "sanitize"
      BY DEF Done, Error
    <3> QED
      BY <2>4, <3>1, <3>2
  <2>6. Range(replies') = Range(replies) \cup {x}
    BY <2>4, <2>5, RangeAppend DEF TypeOK
  <2>7. AtMostOne("sanitize", replies)'
    <3>1. AtMostOne("sanitize", Append(replies, x))
      BY <1>1, <2>1, <2>5, AppendOf DEF TypeOK
    <3> QED
      BY <2>4, <3>1 DEF AtMostOne
  <2>8. Answered("sanitize")' /\ ~Queued("sanitize")'
    BY <1>3, <1>5, <1>6, <1>8, <2>5, <2>6 DEF Answered
  <2>9. OneSanitize'
    BY <1>2, <1>3, <2>1, <2>7, <2>8 DEF OneSanitize, InFlight
  <2>10. RejectedTruthful'
    <3>1. \A y \in Range(replies) : y.cmd # "sanitize"
      BY <2>1 DEF Answered
    <3> QED
      BY <2>2, <2>4, <2>6, <3>1 DEF RejectedTruthful
  <2>11. SanitizeTracked'
    BY <2>8 DEF SanitizeTracked
  <2> QED
    BY <2>9, <2>10, <2>11 DEF TrackInv
<1> QED
  BY <1>7, <1>8

\* erase() is let through only while none is on its way and no operation is known.
LEMMA EraseTracks ==
  ASSUME Mishaps = {}, TypeOK, TrackInv, NEW method \in EraseMethods, Erase(method)
  PROVE  TrackInv'
<1>1. ~InFlight("sanitize") /\ ~inProgress /\ inProgress' = inProgress /\ hwSanitize' = hwSanitize
  BY DEF Erase, saniVars, endpointVars
<1>2. NoneOf("sanitize", jobs) /\ NoneOf("sanitize", replies)
  BY <1>1, NoneQueued DEF InFlight
<1>3. /\ AtMostOne("sanitize", jobs) /\ AtMostOne("sanitize", replies)
      /\ hwSanitize # "busy"
  BY <1>1 DEF TrackInv, OneSanitize, SanitizeTracked, InFlight
<1>4. Request("sanitize", ctrl) \in Job /\ Error("sanitize") \in Reply
  BY RequestIsJob, ErrorIsReply DEF Commands, ControllerCommands
<1>5. RejectedTruthful' /\ SanitizeTracked'
  BY <1>1, <1>3 DEF RejectedTruthful, SanitizeTracked
<1>6. CASE nvmeEP
  <2>1. jobs' = Append(jobs, Request("sanitize", ctrl)) /\ replies' = replies
    BY <1>6 DEF Erase, Issue
  <2>2. AtMostOne("sanitize", Append(jobs, Request("sanitize", ctrl)))
    BY <1>2, <1>3, <1>4, AppendOf DEF TypeOK
  <2>3. OneSanitize'
    BY <1>1, <1>3, <2>1, <2>2 DEF OneSanitize, AtMostOne, InFlight, Answered
  <2> QED
    BY <1>5, <2>3 DEF TrackInv
<1>7. CASE ~nvmeEP
  <2>1. jobs' = jobs /\ replies' = Append(replies, Error("sanitize"))
    BY <1>7 DEF Erase, Issue, Request
  <2>2. AtMostOne("sanitize", Append(replies, Error("sanitize")))
    BY <1>2, <1>3, <1>4, AppendOf DEF TypeOK
  <2>3. OneSanitize'
    BY <1>1, <1>3, <2>1, <2>2 DEF OneSanitize, AtMostOne, InFlight, Queued
  <2> QED
    BY <1>5, <2>3 DEF TrackInv
<1> QED
  BY <1>6, <1>7

LEMMA NextTracks ==
  ASSUME Mishaps = {}, TypeOK, StaleLogOvertaken, TrackInv, [Next]_vars
  PROVE  TrackInv'
<1>1. CASE Callback
  BY <1>1, CallbackTracks
<1>2. CASE WorkerStep
  BY <1>2, WorkerTracks
<1>3. CASE DriveStep
  BY <1>3
     DEF DriveStep, SanitizeEnds, saniVars, TrackInv, OneSanitize, RejectedTruthful,
         SanitizeTracked, AtMostOne, InFlight, Queued, Answered
<1>4. CASE TimerExpires \/ EmEndpoints
  <2>1. AtMostOne("sanitize", jobs) /\ AtMostOne("sanitize", replies) /\ QueuesOK
    BY DEF TrackInv, OneSanitize, TypeOK, QueuesOK
  <2>2. KeepsPlaces(replies)
    <3>1. CASE EmEndpoints
      BY <2>1, <3>1, OtherRequests, IssueKeepsPlaces
         DEF EmEndpoints, Initialize, QueuesOK, Commands, EndpointCommands
    <3>2. CASE TimerExpires
      <4>1. Done("timer") \in Reply /\ Done("timer").cmd # "sanitize"
        BY DoneIsReply DEF Done
      <4>2. jobs' = jobs /\ replies' = Append(replies, Done("timer"))
        BY <3>2 DEF TimerExpires
      <4>3. Range(replies') = Range(replies) \cup {Done("timer")}
        BY <2>1, <4>1, <4>2, RangeAppend DEF QueuesOK
      <4>4. /\ AtMostOne("sanitize", Append(replies, Done("timer")))
            /\ NoneOf("sanitize", replies) => NoneOf("sanitize", Append(replies, Done("timer")))
        BY <2>1, <4>1, AppendOf DEF QueuesOK
      <4> QED
        BY <2>1, <4>1, <4>2, <4>3, <4>4 DEF KeepsPlaces, AtMostOne, NoneOf
    <3> QED
      BY <1>4, <3>1, <3>2
  <2>3. inProgress' = inProgress /\ hwSanitize' = hwSanitize
    BY <1>4 DEF TimerExpires, EmEndpoints, saniVars, endpointVars
  <2>4. TypeOK'
    BY <1>4, NextTypeOK DEF Next
  <2>5. TypeOK' => /\ (NoneOf("sanitize", jobs) <=> ~Queued("sanitize"))'
                   /\ (NoneOf("sanitize", replies) <=> ~Answered("sanitize"))'
    BY NoneQueued, PTL
  <2>6. OneSanitize'
    BY <2>2, <2>3, <2>4, <2>5, Places DEF KeepsPlaces, OneSanitize, InFlight, TrackInv
  <2>7. RejectedTruthful'
    BY <2>2, <2>3 DEF KeepsPlaces, RejectedTruthful, TrackInv
  <2>8. SanitizeTracked'
    <3>1. Range(replies) \subseteq Range(replies')
      BY <1>4, OthersFlow DEF OtherStep
    <3> QED
      BY <2>3, <3>1 DEF SanitizeTracked, Answered, TrackInv
  <2> QED
    BY <2>6, <2>7, <2>8 DEF TrackInv
<1>5. CASE \E method \in EraseMethods : Erase(method)
  BY <1>5, EraseTracks
<1>6. CASE SetFaultProperty \/ UNCHANGED vars
  BY <1>6
     DEF SetFaultProperty, vars, miVars, endpointVars, saniVars, TrackInv, OneSanitize,
         RejectedTruthful, SanitizeTracked, AtMostOne, InFlight, Queued, Answered
<1>7. CASE Restart
  BY <1>7 DEF Restart
<1> QED
  BY <1>1, <1>2, <1>3, <1>4, <1>5, <1>6, <1>7 DEF Next

-----------------------------------------------------------------------------
(* An absent drive, while scans do not fail.                                *)

\* The endpoint stays as it was found, and takes every command.
LEMMA EndpointTakes ==
  ASSUME [Next]_vars, ~Restart
  PROVE  /\ nvmeEP' = nvmeEP
         /\ nvmeEP /\ Callback => replies' = Others
         /\ nvmeEP /\ OtherStep /\ ~WorkerStep => replies' \in {replies, Append(replies, Done("timer"))}
<1>1. nvmeEP' = nvmeEP
  BY DEF Next, Callback, OnScanError, OnScan, OnIdentifyError, OnIdentify, OnPort, PollAbsent,
         PollSanitize, PollHealth, OnHealthError, OnHealth, OnSmartError, OnSmart,
         OnSanitizeError, OnSanitize, OnSanlogBusy, OnSanlogDone,
         TimerExpires, Erase, EmEndpoints, SetFaultProperty, miVars, endpointVars, vars,
         DriveStep, SanitizeEnds, WorkerStep, RunJob, ScanSucceeds, ScanFails, CommandFails,
         InfoSucceeds, HealthSucceeds, SmartSucceeds, SmartRefused, SanlogSucceeds, SanlogFails,
         SanitizeStarts, SanitizeRejected, SanitizeReplyLost
<1>2. nvmeEP /\ Callback => replies' = Others
  BY DEF Callback, OnScanError, OnScan, OnIdentifyError, OnIdentify, OnPort, PollAbsent,
         PollSanitize, PollHealth, OnHealthError, OnHealth, OnSmartError, OnSmart,
         OnSanitizeError, OnSanitize, OnSanlogBusy, OnSanlogDone, Initialize, Issue, IssueBoth,
         Consume
<1>3. nvmeEP /\ OtherStep /\ ~WorkerStep => replies' \in {replies, Append(replies, Done("timer"))}
  BY DEF OtherStep, TimerExpires, Erase, EmEndpoints, Initialize, Issue, SetFaultProperty, miVars,
         DriveStep, SanitizeEnds
<1> QED
  BY <1>1, <1>2, <1>3

LEMMA NextRetried ==
  ASSUME "scan" \notin Failing, TypeOK, InitialisedBeforeUse, Retried, [Next]_vars
  PROVE  Retried'
<1>0. QueuesOK
  BY DEF TypeOK, QueuesOK
<1>1. CASE Restart
  <2>1. replies' = <<>> /\ presence' = "unset"
    BY <1>1 DEF Restart
  <2> QED
    BY <2>1 DEF Retried, Range
<1>2. CASE UNCHANGED vars
  BY <1>2 DEF vars, miVars, endpointVars, lifeVars, Retried, PollPending, CycleCommands, InFlight, Queued, Answered
<1>3. SUFFICES ASSUME ~Restart, Callback \/ OtherStep, nvmeEP'
               PROVE  /\ presence' # "unset" => PollPending'
                      /\ \A x \in Range(replies') : x.cmd = "scan" => x.ok
  BY <1>1, <1>2, StepCases DEF Retried
<1>4. nvmeEP /\ \A x \in Range(replies) : x.cmd = "scan" => x.ok
  BY <1>3, EndpointTakes DEF Retried
<1>5. CASE Callback
  <2>1. replies # <<>> /\ Range(replies) = {Head(replies)} \cup Range(Others)
    BY <1>0, <1>5, CallbackFlow, TakeReply
  <2>2. presence # "unset"
    BY <2>1 DEF InitialisedBeforeUse
  <2>3. ~OnScanError
    <3>1. Head(replies).cmd = "scan" => Head(replies).ok
      BY <1>4, <2>1
    <3>2. FALSE # TRUE
      OBVIOUS
    <3> QED
      BY <3>1, <3>2 DEF OnScanError, Got
  <2>4. PollPending'
    BY <1>4, <1>5, <2>2, <2>3, CallbackKeepsPending DEF Retried
  <2> QED
    BY <1>3, <1>4, <1>5, <2>1, <2>4, EndpointTakes
<1>6. CASE OtherStep
  <2>1. presence' # "unset" => PollPending'
    <3>1. CASE EmEndpoints
      <4>1. Request("scan", NoCtrl) \in Job /\ Request("scan", NoCtrl).cmd = "scan"
        BY RequestIsJob DEF Request, Commands, EndpointCommands
      <4>2. InFlight("scan")'
        BY <1>0, <3>1, <4>1, IssueFlow DEF EmEndpoints, Initialize, QueuesOK
      <4> QED
        BY <4>2 DEF PollPending, CycleCommands
    <3>2. CASE ~EmEndpoints
      <4>1. presence' = presence
        BY <1>6, <3>2 DEF OtherStep, WorkerStep, DriveStep, TimerExpires, Erase,
                          SetFaultProperty, lifeVars
      <4> QED
        BY <1>4, <1>6, <4>1, OthersKeepPending DEF Retried
    <3> QED
      BY <3>1, <3>2
  <2>2. \A x \in Range(replies') : x.cmd = "scan" => x.ok
    <3>1. CASE WorkerStep /\ Head(jobs).cmd = "scan"
      <4>1. \E handle \in Handles : ScanSucceeds(handle)
        BY <3>1
           DEF WorkerStep, RunJob, Run, ScanFails, MayFail, ControllerCommands, CommandFails,
               InfoSucceeds, HealthSucceeds, SmartSucceeds, SmartRefused, SanlogSucceeds,
               SanlogFails, SanitizeStarts, SanitizeRejected, SanitizeReplyLost
      <4>2. PICK handle \in Handles : ScanSucceeds(handle)
        BY <4>1
      <4> DEFINE x == [cmd |-> "scan", ok |-> TRUE, ctrl |-> handle]
      <4>3. replies' = Append(replies, x) /\ x.ok
        BY <4>2 DEF ScanSucceeds, Answer
      <4>4. x \in Reply
        BY DEF Reply
      <4> HIDE DEF x
      <4>5. Range(replies') = Range(replies) \cup {x}
        BY <1>0, <4>3, <4>4, RangeAppend DEF QueuesOK
      <4> QED
        BY <1>4, <4>3, <4>5
    <3>2. CASE WorkerStep /\ Head(jobs).cmd # "scan"
      BY <1>4, <3>2, WorkerAnswers DEF JobAnswered
    <3>3. CASE ~WorkerStep
      <4>1. replies' \in {replies, Append(replies, Done("timer"))}
        BY <1>3, <1>4, <1>6, <3>3, EndpointTakes
      <4>2. Range(replies') \subseteq Range(replies) \cup {Done("timer")}
        BY <1>0, <4>1, DoneIsReply, RangeAppend DEF QueuesOK
      <4>3. Done("timer").ok
        BY DEF Done
      <4> QED
        BY <1>4, <4>2, <4>3
    <3> QED
      BY <3>1, <3>2, <3>3
  <2> QED
    BY <2>1, <2>2
<1> QED
  BY <1>3, <1>5, <1>6

-----------------------------------------------------------------------------
(* The operations that D-Bus shows are those of the drive: EraseOperation.  *)

\* A queue that has gained only some commands, at its end.
Grown(q, r, cmds) == Extends(q, r) /\ \A k \in Len(q)+1..Len(r) : r[k].cmd \in cmds

LEMMA GrownRange ==
  ASSUME NEW S, NEW q \in Seq(S), NEW r \in Seq(S), NEW cmds, Grown(q, r, cmds)
  PROVE  \A x \in Range(r) : x \in Range(q) \/ x.cmd \in cmds
<1>1. \A k \in 1..Len(r) : k \in 1..Len(q) \/ k \in Len(q)+1..Len(r)
  OBVIOUS
<1>2. ASSUME NEW k \in 1..Len(r) PROVE r[k] \in Range(q) \/ r[k].cmd \in cmds
  <2>1. CASE k \in 1..Len(q)
    BY <2>1 DEF Grown, Extends, Range
  <2>2. CASE k \in Len(q)+1..Len(r)
    BY <2>2 DEF Grown
  <2> QED
    BY <1>1, <2>1, <2>2
<1> QED
  BY <1>2 DEF Range

\* Logs stay before sanitize commands where a queue loses its head, and where it
\* gains no log, or gains logs but has no sanitize command.
LEMMA TailBehind ==
  ASSUME NEW S, NEW q \in Seq(S), q # <<>>, AllBehind(q, "sanlog", "sanitize")
  PROVE  AllBehind(Tail(q), "sanlog", "sanitize")
<1>1. Len(q) \in Nat /\ Len(Tail(q)) = Len(q) - 1
  OBVIOUS
<1>2. \A i \in 1..Len(Tail(q)) : i + 1 \in 1..Len(q) /\ Tail(q)[i] = q[i + 1]
  OBVIOUS
<1>3. SUFFICES ASSUME NEW i \in 1..Len(Tail(q)), NEW j \in 1..Len(Tail(q)),
                      Tail(q)[i].cmd = "sanitize", Tail(q)[j].cmd = "sanlog"
               PROVE  j < i
  BY DEF AllBehind
<1>4. j + 1 < i + 1
  BY <1>2, <1>3 DEF AllBehind
<1> QED
  BY <1>1, <1>4

LEMMA GrownBehind ==
  ASSUME NEW S, NEW q \in Seq(S), NEW r \in Seq(S), NEW cmds, Grown(q, r, cmds),
         AllBehind(q, "sanlog", "sanitize"),
         \/ "sanlog" \notin cmds
         \/ "sanitize" \notin cmds /\ \A x \in Range(q) : x.cmd # "sanitize"
  PROVE  AllBehind(r, "sanlog", "sanitize")
<1>1. /\ Len(q) \in Nat /\ Len(r) \in Nat
      /\ \A k \in 1..Len(r) : k \in 1..Len(q) \/ k \in Len(q)+1..Len(r)
  OBVIOUS
<1>2. CASE "sanlog" \notin cmds
  <2>1. SUFFICES ASSUME NEW i \in 1..Len(r), NEW j \in 1..Len(r),
                        r[i].cmd = "sanitize", r[j].cmd = "sanlog"
                 PROVE  j < i
    BY DEF AllBehind
  <2>2. j \in 1..Len(q) /\ q[j].cmd = "sanlog"
    BY <1>1, <1>2, <2>1 DEF Grown, Extends
  <2>3. CASE i \in 1..Len(q)
    BY <2>1, <2>2, <2>3 DEF AllBehind, Grown, Extends
  <2>4. CASE i \in Len(q)+1..Len(r)
    BY <1>1, <2>2, <2>4
  <2> QED
    BY <1>1, <2>3, <2>4
<1>3. CASE "sanitize" \notin cmds /\ \A x \in Range(q) : x.cmd # "sanitize"
  <2>1. \A x \in Range(r) : x.cmd # "sanitize"
    BY <1>3, GrownRange
  <2> QED
    BY <2>1 DEF AllBehind, Range
<1> QED
  BY <1>2, <1>3

LEMMA AppendGrows ==
  ASSUME NEW S, NEW q \in Seq(S), NEW cmds
  PROVE  /\ Grown(q, q, cmds)
         /\ \A x \in S : x.cmd \in cmds => Grown(q, Append(q, x), cmds)
         /\ \A x, y \in S : x.cmd \in cmds /\ y.cmd \in cmds
                            => Grown(q, Append(Append(q, x), y), cmds)
<1>1. Grown(q, q, cmds)
  BY DEF Grown, Extends
<1>2. ASSUME NEW x \in S, x.cmd \in cmds PROVE Grown(q, Append(q, x), cmds)
  BY <1>2 DEF Grown, Extends
<1>3. ASSUME NEW x \in S, NEW y \in S, x.cmd \in cmds, y.cmd \in cmds
      PROVE  Grown(q, Append(Append(q, x), y), cmds)
  <2> DEFINE r == Append(Append(q, x), y)
  <2>1. /\ Len(q) \in Nat /\ Len(r) = Len(q) + 2
        /\ \A i \in 1..Len(q) : r[i] = q[i]
        /\ r[Len(q) + 1] = x /\ r[Len(q) + 2] = y
    OBVIOUS
  <2> HIDE DEF r
  <2>2. \A k \in Len(q)+1..Len(r) : k = Len(q) + 1 \/ k = Len(q) + 2
    BY <2>1
  <2>3. \A k \in Len(q)+1..Len(r) : r[k].cmd \in cmds
    BY <1>3, <2>1, <2>2
  <2>4. Grown(q, r, cmds)
    BY <2>1, <2>3 DEF Grown, Extends
  <2> QED
    BY <2>4 DEF r
<1> QED
  BY <1>1, <1>2, <1>3

LEMMA IssueGrows ==
  ASSUME QueuesOK, NEW rest \in Seq(Reply), NEW request \in Job, Issue(rest, request)
  PROVE  /\ Grown(jobs, jobs', {request.cmd})
         /\ Grown(rest, replies', {request.cmd})
         /\ ~nvmeEP => jobs' = jobs
<1>1. Error(request.cmd) \in Reply /\ Error(request.cmd).cmd = request.cmd
  BY ErrorIsReply DEF Job, Error
<1>2. CASE nvmeEP
  <2>1. jobs' = Append(jobs, request) /\ replies' = rest
    BY <1>2 DEF Issue
  <2> QED
    BY <1>2, <2>1, AppendGrows DEF QueuesOK
<1>3. CASE ~nvmeEP
  <2>1. jobs' = jobs /\ replies' = Append(rest, Error(request.cmd))
    BY <1>3 DEF Issue
  <2> QED
    BY <1>1, <2>1, AppendGrows DEF QueuesOK
<1> QED
  BY <1>2, <1>3

LEMMA IssueBothGrows ==
  ASSUME QueuesOK, NEW rest \in Seq(Reply), NEW first \in Job, NEW second \in Job,
         IssueBoth(rest, first, second)
  PROVE  /\ Grown(jobs, jobs', {first.cmd, second.cmd})
         /\ Grown(rest, replies', {first.cmd, second.cmd})
         /\ ~nvmeEP => jobs' = jobs
<1>1. /\ Error(first.cmd) \in Reply /\ Error(first.cmd).cmd = first.cmd
      /\ Error(second.cmd) \in Reply /\ Error(second.cmd).cmd = second.cmd
  BY ErrorIsReply DEF Job, Error
<1>2. CASE nvmeEP
  <2>1. jobs' = Append(Append(jobs, first), second) /\ replies' = rest
    BY <1>2 DEF IssueBoth
  <2> QED
    BY <1>2, <2>1, AppendGrows DEF QueuesOK
<1>3. CASE ~nvmeEP
  <2>1. jobs' = jobs /\ replies' = Append(Append(rest, Error(first.cmd)), Error(second.cmd))
    BY <1>3 DEF IssueBoth
  <2> QED
    BY <1>1, <2>1, AppendGrows DEF QueuesOK
<1> QED
  BY <1>2, <1>3

\* What a callback issues: never a sanitize command, and a log only to poll the
\* operation it knows of.
LEMMA CallbackGrows ==
  ASSUME TypeOK, Callback
  PROVE  \E cmds :
           /\ Grown(jobs, jobs', cmds) /\ Grown(Others, replies', cmds)
           /\ ~nvmeEP => jobs' = jobs
           /\ "sanitize" \notin cmds
           /\ "sanlog" \in cmds => inProgress
<1>0. QueuesOK /\ replies # <<>> /\ Others \in Seq(Reply)
  BY CallbackFlow, TakeReply DEF TypeOK, QueuesOK
<1> USE DEF Commands, EndpointCommands, ControllerCommands
<1>1. CASE SilentCallback
  <2>1. jobs' = jobs /\ replies' = Others
    BY <1>1, SilentTakes
  <2>2. Grown(jobs, jobs', {}) /\ Grown(Others, replies', {})
    BY <1>0, <2>1 DEF Grown, Extends, QueuesOK
  <2> QED
    BY <2>1, <2>2
<1>2. ASSUME NEW cmd \in Commands \ {"sanitize"}, NEW c \in Handles \cup {NoCtrl},
             Issue(Others, Request(cmd, c)), cmd = "sanlog" => inProgress
      PROVE  \E cmds :
               /\ Grown(jobs, jobs', cmds) /\ Grown(Others, replies', cmds)
               /\ ~nvmeEP => jobs' = jobs
               /\ "sanitize" \notin cmds
               /\ "sanlog" \in cmds => inProgress
  <2>1. Request(cmd, c) \in Job /\ Request(cmd, c).cmd = cmd
    BY DEF Request, Job
  <2>2. Grown(jobs, jobs', {cmd}) /\ Grown(Others, replies', {cmd}) /\ (~nvmeEP => jobs' = jobs)
    BY <1>0, <1>2, <2>1, IssueGrows
  <2> QED
    BY <1>2, <2>2
<1>3. ctrl \in Handles \cup {NoCtrl} /\ NoCtrl \in Handles \cup {NoCtrl}
  BY DEF TypeOK
<1>4. CASE OnScan
  <2>1. Head(replies).ctrl \in Handles
    BY <1>0, <1>4, TakeReply, ReplyFields DEF OnScan, Got
  <2>2. \E c \in Handles : Issue(Others, Request("identify", c))
    BY <1>4, <2>1 DEF OnScan
  <2> QED
    BY <1>2, <2>2
<1>5. CASE OnIdentifyError \/ OnIdentify
  <2>1. \E cmd \in {"identify", "port"}, c \in {ctrl, NoCtrl} : Issue(Others, Request(cmd, c))
    BY <1>5 DEF OnIdentifyError, OnIdentify
  <2> QED
    BY <1>2, <1>3, <2>1
<1>6. CASE PollAbsent
  BY <1>2, <1>3, <1>6 DEF PollAbsent, Initialize
<1>7. CASE PollSanitize
  BY <1>2, <1>3, <1>7 DEF PollSanitize
<1>8. CASE PollHealth
  <2>1. /\ Request("health", NoCtrl) \in Job /\ Request("health", NoCtrl).cmd = "health"
        /\ Request("smart", ctrl) \in Job /\ Request("smart", ctrl).cmd = "smart"
    BY RequestIsJob DEF Request
  <2>2. IssueBoth(Others, Request("health", NoCtrl), Request("smart", ctrl))
    BY <1>8 DEF PollHealth
  <2>3. /\ Grown(jobs, jobs', {"health", "smart"}) /\ Grown(Others, replies', {"health", "smart"})
        /\ ~nvmeEP => jobs' = jobs
    BY <1>0, <2>1, <2>2, IssueBothGrows
  <2> QED
    BY <2>3
<1> QED
  BY <1>1, <1>4, <1>5, <1>6, <1>7, <1>8 DEF Callback, SilentCallback

\* What adds neither a sanitize command, nor a log while one is in flight, keeps
\* the order.
LEMMA GrowsLogsFirst ==
  ASSUME TypeOK, TypeOK', LogsFirst, nvmeEP' = nvmeEP,
         NEW rest \in Seq(Reply), Range(rest) \subseteq Range(replies),
         AllBehind(rest, "sanlog", "sanitize"),
         NEW cmds, Grown(jobs, jobs', cmds), Grown(rest, replies', cmds),
         ~nvmeEP => jobs' = jobs,
         "sanitize" \notin cmds, "sanlog" \in cmds => ~InFlight("sanitize")
  PROVE  LogsFirst'
<1>1. jobs \in Seq(Job) /\ jobs' \in Seq(Job) /\ replies' \in Seq(Reply)
  BY DEF TypeOK
<1>2. /\ \A x \in Range(jobs') : x \in Range(jobs) \/ x.cmd \in cmds
      /\ \A x \in Range(replies') : x \in Range(rest) \/ x.cmd \in cmds
  BY <1>1, GrownRange
<1>3. "sanlog" \in cmds => /\ \A x \in Range(jobs) : x.cmd # "sanitize"
                           /\ \A x \in Range(rest) : x.cmd # "sanitize"
  BY DEF InFlight, Queued, Answered
<1>4. AllBehind(jobs', "sanlog", "sanitize")
  BY <1>1, <1>3, GrownBehind DEF LogsFirst
<1>5. AllBehind(replies', "sanlog", "sanitize")
  BY <1>1, <1>3, GrownBehind
<1>6. Answered("sanitize")' => ~Queued("sanlog")'
  <2>1. SUFFICES ASSUME Answered("sanitize")' PROVE ~Queued("sanlog")'
    OBVIOUS
  <2>2. Answered("sanitize")
    BY <1>2, <2>1 DEF Answered
  <2>3. ~Queued("sanlog") /\ "sanlog" \notin cmds
    BY <2>2 DEF LogsFirst, InFlight
  <2> QED
    BY <1>2, <2>3 DEF Queued
<1>7. ~nvmeEP' => jobs' = <<>>
  BY DEF LogsFirst
<1> QED
  BY <1>4, <1>5, <1>6, <1>7 DEF LogsFirst, AllBehind

LEMMA CallbackLogsFirst ==
  ASSUME TypeOK, TypeOK', OneSanitize, LogsFirst, Callback
  PROVE  LogsFirst'
<1>1. replies # <<>> /\ nvmeEP' = nvmeEP
  BY CallbackFlow, EndpointKept DEF endpointVars
<1>2. /\ Others \in Seq(Reply) /\ Range(Others) \subseteq Range(replies)
      /\ AllBehind(Others, "sanlog", "sanitize")
  <2>1. QueuesOK
    BY DEF TypeOK, QueuesOK
  <2> QED
    BY <1>1, <2>1, TakeReply, TailBehind DEF LogsFirst, Others, QueuesOK
<1>3. PICK cmds : /\ Grown(jobs, jobs', cmds) /\ Grown(Others, replies', cmds)
                  /\ ~nvmeEP => jobs' = jobs
                  /\ "sanitize" \notin cmds
                  /\ "sanlog" \in cmds => inProgress
  BY CallbackGrows
<1>4. "sanlog" \in cmds => ~InFlight("sanitize")
  BY <1>3 DEF OneSanitize
<1> QED
  BY <1>1, <1>2, <1>3, <1>4, GrowsLogsFirst

\* The Worker moves the head of one queue to the end of the other.
LEMMA WorkerLogsFirst ==
  ASSUME TypeOK, TypeOK', LogsFirst, WorkerStep
  PROVE  LogsFirst'
<1>1. JobAnswered /\ jobs # <<>> /\ jobs' = Tail(jobs)
  BY WorkerAnswers DEF JobAnswered
<1>2. jobs \in Seq(Job) /\ replies \in Seq(Reply) /\ replies' \in Seq(Reply)
  BY DEF TypeOK
<1>3. /\ Head(jobs) \in Range(jobs) /\ Range(jobs') \subseteq Range(jobs)
      /\ Head(jobs) = jobs[1] /\ 1 \in 1..Len(jobs)
  BY <1>1, <1>2 DEF JobAnswered
<1>4. AllBehind(jobs', "sanlog", "sanitize")
  BY <1>1, <1>2, TailBehind DEF LogsFirst
<1>5. AllBehind(replies', "sanlog", "sanitize")
  <2> DEFINE cmds == {Head(jobs).cmd}
  <2>1. Grown(replies, replies', cmds)
    BY <1>1 DEF JobAnswered, Grown
  <2>2. AllBehind(replies, "sanlog", "sanitize")
    BY DEF LogsFirst
  <2>3. \/ "sanlog" \notin cmds
        \/ "sanitize" \notin cmds /\ \A x \in Range(replies) : x.cmd # "sanitize"
    BY <1>3 DEF LogsFirst, Queued, Answered
  <2> HIDE DEF cmds
  <2> QED
    BY <1>2, <2>1, <2>2, <2>3, GrownBehind
<1>6. Answered("sanitize")' => ~Queued("sanlog")'
  <2>1. CASE Head(jobs).cmd = "sanitize"
    <3>1. \A j \in 1..Len(jobs) : jobs[j].cmd # "sanlog"
      BY <1>2, <1>3, <2>1 DEF LogsFirst, AllBehind
    <3>2. ~Queued("sanlog")
      BY <1>2, <3>1 DEF Queued, Range
    <3> QED
      BY <1>3, <3>2 DEF Queued
  <2>2. CASE Head(jobs).cmd # "sanitize"
    <3>1. Answered("sanitize")' => Answered("sanitize")
      BY <1>1, <2>2 DEF JobAnswered, Answered
    <3> QED
      BY <1>3, <3>1 DEF LogsFirst, Queued
  <2> QED
    BY <2>1, <2>2
<1>7. ~nvmeEP' => jobs' = <<>>
  BY <1>1, <1>2
     DEF LogsFirst, WorkerStep, RunJob, ScanSucceeds, ScanFails, CommandFails, InfoSucceeds,
         HealthSucceeds, SmartSucceeds, SmartRefused, SanlogSucceeds, SanlogFails,
         SanitizeStarts, SanitizeRejected, SanitizeReplyLost, endpointVars
<1> QED
  BY <1>4, <1>5, <1>6, <1>7 DEF LogsFirst, AllBehind

\* A sanitize command joins a queue behind the logs, and where it is answered at
\* once, no log waits.
LEMMA EraseLogsFirst ==
  ASSUME Mishaps = {}, TypeOK, TypeOK', LogsFirst, NEW method, Erase(method)
  PROVE  LogsFirst'
<1>1. /\ ~InFlight("sanitize") /\ nvmeEP' = nvmeEP /\ QueuesOK
      /\ Issue(replies, Request("sanitize", ctrl))
  BY DEF Erase, endpointVars, TypeOK, QueuesOK
<1>2. /\ jobs \in Seq(Job) /\ jobs' \in Seq(Job)
      /\ replies \in Seq(Reply) /\ replies' \in Seq(Reply)
  BY DEF TypeOK
<1>3. Request("sanitize", ctrl) \in Job /\ Request("sanitize", ctrl).cmd = "sanitize"
  BY RequestIsJob DEF Request, Commands, ControllerCommands
<1>4. /\ Grown(jobs, jobs', {"sanitize"}) /\ Grown(replies, replies', {"sanitize"})
      /\ ~nvmeEP => jobs' = jobs
  BY <1>1, <1>2, <1>3, IssueGrows
<1>5. AllBehind(jobs', "sanlog", "sanitize") /\ AllBehind(replies', "sanlog", "sanitize")
  BY <1>2, <1>4, GrownBehind DEF LogsFirst
<1>6. Answered("sanitize")' => ~Queued("sanlog")'
  <2>1. CASE nvmeEP
    <3>1. replies' = replies
      BY <1>1, <2>1 DEF Issue
    <3> QED
      BY <1>1, <3>1 DEF InFlight, Answered
  <2>2. CASE ~nvmeEP
    <3>1. jobs' = <<>>
      BY <1>4, <2>2 DEF LogsFirst
    <3> QED
      BY <3>1 DEF Queued, Range
  <2> QED
    BY <2>1, <2>2
<1> QED
  BY <1>1, <1>4, <1>5, <1>6 DEF LogsFirst, AllBehind

LEMMA NextLogsFirst ==
  ASSUME Mishaps = {}, TypeOK, OneSanitize, LogsFirst, [Next]_vars
  PROVE  LogsFirst'
<1>0. TypeOK' /\ QueuesOK /\ AllBehind(replies, "sanlog", "sanitize")
  BY NextTypeOK DEF TypeOK, QueuesOK, LogsFirst
<1>1. CASE Callback
  BY <1>0, <1>1, CallbackLogsFirst
<1>2. CASE WorkerStep
  BY <1>0, <1>2, WorkerLogsFirst
<1>3. CASE DriveStep \/ SetFaultProperty \/ UNCHANGED vars
  <2>1. jobs' = jobs /\ replies' = replies /\ nvmeEP' = nvmeEP
    BY <1>3 DEF DriveStep, SanitizeEnds, SetFaultProperty, vars, miVars, endpointVars
  <2> QED
    BY <2>1 DEF LogsFirst, AllBehind, Queued, Answered
<1>4. CASE TimerExpires
  <2>1. /\ jobs' = jobs /\ nvmeEP' = nvmeEP /\ replies' = Append(replies, Done("timer"))
        /\ Done("timer") \in Reply /\ Done("timer").cmd \in {"timer"}
    BY <1>4, DoneIsReply DEF TimerExpires, endpointVars, Done
  <2>2. Grown(jobs, jobs', {"timer"}) /\ Grown(replies, replies', {"timer"})
    BY <1>0, <2>1, AppendGrows DEF QueuesOK
  <2> QED
    BY <1>0, <2>1, <2>2, GrowsLogsFirst DEF QueuesOK
<1>5. CASE EmEndpoints
  <2>1. Issue(replies, Request("scan", NoCtrl)) /\ nvmeEP' = nvmeEP
    BY <1>5 DEF EmEndpoints, Initialize, endpointVars
  <2>2. Request("scan", NoCtrl) \in Job /\ Request("scan", NoCtrl).cmd = "scan"
    BY RequestIsJob DEF Request, Commands, EndpointCommands
  <2>3. /\ Grown(jobs, jobs', {"scan"}) /\ Grown(replies, replies', {"scan"})
        /\ ~nvmeEP => jobs' = jobs
    BY <1>0, <2>1, <2>2, IssueGrows DEF QueuesOK
  <2> QED
    BY <1>0, <2>1, <2>3, GrowsLogsFirst DEF QueuesOK
<1>6. CASE \E method \in EraseMethods : Erase(method)
  BY <1>0, <1>6, EraseLogsFirst
<1>7. CASE Restart
  BY <1>7 DEF Restart
<1> QED
  BY <1>1, <1>2, <1>3, <1>4, <1>5, <1>6, <1>7 DEF Next

\* The callbacks but those of the sanitize operation.
OtherCallback == Callback /\ ~OnSanitizeError /\ ~OnSanitize /\ ~OnSanlogDone

LEMMA OtherCallbackKeeps ==
  ASSUME OtherCallback
  PROVE  inProgress' = inProgress /\ status' = status /\ Head(replies).cmd # "sanitize"
BY DEF OtherCallback, Callback, OnScanError, OnScan, OnIdentifyError, OnIdentify, OnPort,
       PollAbsent, PollSanitize, PollHealth, OnHealthError, OnHealth, OnSmartError, OnSmart,
       OnSanlogBusy, saniVars, Got

\* Replies that a callback adds are errors, and those that it leaves were there.
LEMMA CallbackAddsErrors ==
  ASSUME TypeOK, Callback
  PROVE  /\ replies # <<>> /\ hwSanitize' = hwSanitize
         /\ Range(replies) = {Head(replies)} \cup Range(Others)
         /\ Range(Others) \subseteq Range(replies')
         /\ \A x \in Range(replies') : x \in Range(Others) \/ ~x.ok
<1>1. /\ replies # <<>> /\ QueuesOK /\ ErrorsAdded(Others, replies')
      /\ Range(Others) \subseteq Range(replies')
  BY CallbackFlow DEF TypeOK, QueuesOK
<1>2. Others \in Seq(Reply) /\ Range(replies) = {Head(replies)} \cup Range(Others)
  BY <1>1, TakeReply
<1>3. replies' \in Seq(Reply)
  BY NextQueuesOK DEF QueuesOK, Next
<1>4. ASSUME NEW k \in 1..Len(replies') PROVE replies'[k] \in Range(Others) \/ ~replies'[k].ok
  <2>1. CASE k \in 1..Len(Others)
    BY <1>1, <1>2, <2>1 DEF ErrorsAdded, Extends, Range
  <2>2. CASE k \in Len(Others)+1..Len(replies')
    BY <1>1, <2>2 DEF ErrorsAdded
  <2> QED
    BY <1>2, <1>3, <2>1, <2>2
<1>5. \A x \in Range(replies') : x \in Range(Others) \/ ~x.ok
  BY <1>3, <1>4 DEF Range
<1>6. hwSanitize' = hwSanitize
  BY EndpointKept DEF endpointVars
<1> QED
  BY <1>1, <1>2, <1>5, <1>6

\* While the drive object knows of an operation, the logs that wait with an outcome
\* tell what the drive shows.
LEMMA KnownLogsCurrent ==
  ASSUME TypeOK, StaleLogOvertaken, ~Answered("sanitize")
  PROVE  \A x \in Range(replies) :
           x.cmd = "sanlog" /\ x.ok /\ x.sstat \in {"ok", "failed"} => x.sstat = hwSanitize
<1>1. ASSUME NEW i \in 1..Len(replies),
             replies[i].cmd = "sanlog", replies[i].ok, replies[i].sstat \in {"ok", "failed"},
             replies[i].sstat # hwSanitize
      PROVE  FALSE
  <2>1. PICK j \in i+1..Len(replies) : replies[j].cmd = "sanitize"
    BY <1>1 DEF StaleLogOvertaken
  <2>2. j \in 1..Len(replies)
    BY <2>1 DEF TypeOK
  <2> QED
    BY <2>1, <2>2 DEF Answered, Range, TypeOK
<1> QED
  BY <1>1 DEF Range, TypeOK

\* What neither shows another status nor brings a log.
LEMMA LateLogKept ==
  ASSUME LateLogRepeats, status' = status, inProgress' = inProgress, hwSanitize' = hwSanitize,
         Queued("sanlog")' => Queued("sanlog") \/ inProgress,
         \A x \in Range(replies') : x.cmd = "sanlog" /\ x.ok => x \in Range(replies)
  PROVE  LateLogRepeats'
BY DEF LateLogRepeats

LEMMA CallbackLateLog ==
  ASSUME TypeOK, OneSanitize, StaleLogOvertaken, LogsFirst, LateLogRepeats, Callback
  PROVE  LateLogRepeats'
<1>1. /\ replies # <<>> /\ hwSanitize' = hwSanitize
      /\ Range(replies) = {Head(replies)} \cup Range(Others)
      /\ \A x \in Range(replies') : x \in Range(Others) \/ ~x.ok
  BY CallbackAddsErrors
<1>2. \A x \in Range(replies') : x.cmd = "sanlog" /\ x.ok => x \in Range(replies)
  BY <1>1
<1>3. CASE OnSanitize
  BY <1>3 DEF OnSanitize, LateLogRepeats
\* The reply to the command is behind all logs.
<1>4. CASE OnSanitizeError
  <2>1. Head(replies).cmd = "sanitize" /\ jobs' = jobs
    BY <1>4 DEF OnSanitizeError, Got, Consume
  <2>2. ~Queued("sanlog")
    BY <1>1, <2>1 DEF LogsFirst, Answered
  <2>3. ASSUME NEW x \in Range(replies) PROVE x.cmd # "sanlog"
    <3>1. PICK j \in 1..Len(replies) : x = replies[j]
      BY DEF Range, TypeOK
    <3>2. Head(replies) = replies[1] /\ 1 \in 1..Len(replies)
      BY <1>1 DEF TypeOK
    <3> QED
      BY <2>1, <3>1, <3>2 DEF LogsFirst, AllBehind
  <2> QED
    BY <1>2, <2>1, <2>2, <2>3 DEF LateLogRepeats, Queued
<1>5. CASE OnSanlogDone /\ inProgress
  <2>1. /\ Head(replies).cmd = "sanlog" /\ Head(replies).ok /\ jobs' = jobs
        /\ Head(replies) \in Range(replies)
    BY <1>1, <1>5 DEF OnSanlogDone, Got, Consume
  <2>2. \A x \in Range(replies) :
          x.cmd = "sanlog" /\ x.ok /\ x.sstat \in {"ok", "failed"} => x.sstat = hwSanitize
    BY <1>5, KnownLogsCurrent DEF OneSanitize, InFlight
  <2>3. CASE Head(replies).sstat \in {"ok", "failed"}
    <3>1. status' = Outcome(hwSanitize) /\ hwSanitize \in {"ok", "failed"}
      BY <1>5, <2>1, <2>2, <2>3 DEF OnSanlogDone, Outcome
    <3> QED
      BY <1>1, <1>2, <2>2, <3>1 DEF LateLogRepeats
  <2>4. CASE Head(replies).sstat \notin {"ok", "failed"}
    BY <1>5, <2>4 DEF OnSanlogDone, LateLogRepeats
  <2> QED
    BY <2>3, <2>4
<1>6. CASE OnSanlogDone /\ ~inProgress
  <2>1. /\ Head(replies).cmd = "sanlog" /\ Head(replies).ok /\ jobs' = jobs
        /\ Head(replies) \in Range(replies)
    BY <1>1, <1>6 DEF OnSanlogDone, Got, Consume
  <2>2. inProgress' = inProgress
    <3>1. inProgress = FALSE
      BY <1>6 DEF TypeOK
    <3> QED
      BY <1>6, <3>1 DEF OnSanlogDone
  <2>3. status' = status
    <3>1. Head(replies).sstat \in {"ok", "failed"} => status = Outcome(Head(replies).sstat)
      BY <1>6, <2>1 DEF LateLogRepeats
    <3> QED
      BY <1>6, <3>1 DEF OnSanlogDone, Outcome
  <2> QED
    BY <1>1, <1>2, <2>1, <2>2, <2>3, LateLogKept DEF Queued
<1>7. CASE OtherCallback
  <2>1. inProgress' = inProgress /\ status' = status
    BY <1>7, OtherCallbackKeeps
  <2>2. Queued("sanlog")' => Queued("sanlog") \/ inProgress
    <3>1. PICK cmds : Grown(jobs, jobs', cmds) /\ ("sanlog" \in cmds => inProgress)
      BY CallbackGrows
    <3>2. jobs \in Seq(Job) /\ jobs' \in Seq(Job)
      BY NextQueuesOK DEF QueuesOK, Next, TypeOK
    <3>3. \A x \in Range(jobs') : x \in Range(jobs) \/ x.cmd \in cmds
      BY <3>1, <3>2, GrownRange
    <3> QED
      BY <3>1, <3>3 DEF Queued
  <2> QED
    BY <1>1, <1>2, <2>1, <2>2, LateLogKept
<1> QED
  BY <1>3, <1>4, <1>5, <1>6, <1>7 DEF OtherCallback

LEMMA WorkerLateLog ==
  ASSUME TypeOK, LogsFirst, LateLogRepeats, WorkerStep
  PROVE  LateLogRepeats'
<1>1. /\ status' = status /\ inProgress' = inProgress
      /\ jobs # <<>> /\ Range(jobs) = {Head(jobs)} \cup Range(jobs')
      /\ \A x \in Range(replies') \ Range(replies) : x.cmd = Head(jobs).cmd
  BY WorkerAnswers DEF JobAnswered, WorkerStep, saniVars
<1>2. CASE Head(jobs).cmd = "sanitize"
  <2>1. ~Queued("sanlog")
    <3>1. Head(jobs) = jobs[1] /\ 1 \in 1..Len(jobs)
      BY <1>1 DEF TypeOK
    <3>2. \A j \in 1..Len(jobs) : jobs[j].cmd # "sanlog"
      BY <1>2, <3>1 DEF LogsFirst, AllBehind, TypeOK
    <3> QED
      BY <3>2 DEF Queued, Range, TypeOK
  <2>2. ~Queued("sanlog")'
    BY <1>1, <2>1 DEF Queued
  <2>3. \A x \in Range(replies') : x.cmd = "sanlog" => x \in Range(replies)
    BY <1>1, <1>2
  <2>4. SUFFICES ASSUME ~inProgress
                 PROVE  \A x \in Range(replies') :
                          x.cmd = "sanlog" /\ x.ok /\ x.sstat \in {"ok", "failed"}
                          => status = Outcome(x.sstat)
    BY <1>1, <2>2 DEF LateLogRepeats
  <2> QED
    BY <2>3, <2>4 DEF LateLogRepeats
\* A log that is read now tells what the drive shows, or nothing.
<1>3. CASE Head(jobs).cmd = "sanlog"
  <2>1. hwSanitize' = hwSanitize
    BY <1>3, JobEffects
  <2>2. SanlogSucceeds \/ SanlogFails
    BY <1>3
       DEF WorkerStep, RunJob, Run, ScanSucceeds, ScanFails, CommandFails, InfoSucceeds,
           HealthSucceeds, SmartSucceeds, SmartRefused,
           SanitizeStarts, SanitizeRejected, SanitizeReplyLost
  <2>3. PICK sstat \in {hwSanitize, "never"} : replies' = Append(replies, SanitizeLog(sstat))
    BY <2>2 DEF SanlogSucceeds, SanlogFails, Answer
  <2>4. Range(replies') = Range(replies) \cup {SanitizeLog(sstat)}
    <3>1. SanitizeLog(sstat) \in Reply
      BY <2>3 DEF SanitizeLog, Reply, TypeOK, Sanitizing
    <3> QED
      BY <2>3, <3>1, RangeAppend DEF TypeOK
  <2>5. Queued("sanlog")
    BY <1>1, <1>3 DEF Queued
  <2>6. SUFFICES ASSUME ~inProgress
                 PROVE  /\ hwSanitize \in {"ok", "failed"} /\ status = Outcome(hwSanitize)
                        /\ \A x \in Range(replies') :
                             x.cmd = "sanlog" /\ x.ok /\ x.sstat \in {"ok", "failed"}
                             => status = Outcome(x.sstat)
    BY <1>1, <2>1 DEF LateLogRepeats
  <2>7. hwSanitize \in {"ok", "failed"} /\ status = Outcome(hwSanitize)
    BY <2>5, <2>6 DEF LateLogRepeats
  <2>8. SanitizeLog(sstat).sstat \in {"ok", "failed"} => SanitizeLog(sstat).sstat = hwSanitize
    BY <2>3 DEF SanitizeLog
  <2> QED
    BY <2>4, <2>6, <2>7, <2>8 DEF LateLogRepeats
<1>4. CASE Head(jobs).cmd \notin {"sanitize", "sanlog"}
  <2>1. hwSanitize' = hwSanitize
    BY <1>4, JobEffects
  <2>2. Queued("sanlog")' => Queued("sanlog")
    BY <1>1 DEF Queued
  <2>3. \A x \in Range(replies') : x.cmd = "sanlog" => x \in Range(replies)
    BY <1>1, <1>4
  <2> QED
    BY <1>1, <2>1, <2>2, <2>3, LateLogKept
<1> QED
  BY <1>2, <1>3, <1>4

LEMMA NextLateLog ==
  ASSUME Mishaps = {}, TypeOK, OneSanitize, StaleLogOvertaken, LogsFirst, LateLogRepeats,
         [Next]_vars
  PROVE  LateLogRepeats'
<1>0. QueuesOK
  BY DEF TypeOK, QueuesOK
<1>1. CASE Callback
  BY <1>1, CallbackLateLog
<1>2. CASE WorkerStep
  BY <1>2, WorkerLateLog
<1>3. CASE DriveStep
  <2>1. hwSanitize = "busy" /\ jobs' = jobs /\ replies' = replies /\ UNCHANGED saniVars
    BY <1>3 DEF DriveStep, SanitizeEnds
  <2>2. inProgress \/ ~Queued("sanlog")
    BY <2>1 DEF LateLogRepeats
  <2> QED
    BY <2>1, <2>2 DEF LateLogRepeats, Queued, saniVars
<1>4. CASE TimerExpires \/ EmEndpoints \/ \E method \in EraseMethods : Erase(method)
  <2>1. status' = status /\ inProgress' = inProgress /\ hwSanitize' = hwSanitize
    BY <1>4 DEF TimerExpires, EmEndpoints, Erase, endpointVars, saniVars
  <2>2. \E cmd \in {"timer", "scan", "sanitize"} :
          /\ \A x \in Range(jobs') : x \in Range(jobs) \/ x.cmd = cmd
          /\ \A x \in Range(replies') : x \in Range(replies) \/ x.cmd = cmd
    <3>1. CASE TimerExpires
      <4>1. jobs' = jobs /\ replies' = Append(replies, Done("timer")) /\ Done("timer").cmd = "timer"
        BY <3>1 DEF TimerExpires, Done
      <4>2. Range(replies') = Range(replies) \cup {Done("timer")}
        BY <1>0, <4>1, DoneIsReply, RangeAppend DEF QueuesOK
      <4> QED
        BY <4>1, <4>2
    <3>2. ASSUME NEW cmd \in {"scan", "sanitize"}, NEW c \in Handles \cup {NoCtrl},
                 Issue(replies, Request(cmd, c))
          PROVE  /\ \A x \in Range(jobs') : x \in Range(jobs) \/ x.cmd = cmd
                 /\ \A x \in Range(replies') : x \in Range(replies) \/ x.cmd = cmd
      <4>1. cmd \in Commands /\ replies \in Seq(Reply)
        BY DEF Commands, EndpointCommands, ControllerCommands, TypeOK
      <4> QED
        BY <3>2, <4>1, CommandAdds
    <3>3. CASE EmEndpoints
      BY <3>2, <3>3 DEF EmEndpoints, Initialize
    <3>4. CASE \E method \in EraseMethods : Erase(method)
      BY <3>2, <3>4 DEF Erase, TypeOK
    <3> QED
      BY <1>4, <3>1, <3>3, <3>4
  <2>3. /\ Queued("sanlog")' => Queued("sanlog")
        /\ \A x \in Range(replies') : x.cmd = "sanlog" => x \in Range(replies)
    BY <2>2 DEF Queued
  <2> QED
    BY <2>1, <2>3, LateLogKept
<1>5. CASE SetFaultProperty \/ UNCHANGED vars
  <2>1. UNCHANGED <<jobs, replies, status, inProgress, hwSanitize>>
    BY <1>5 DEF SetFaultProperty, vars, miVars, endpointVars, saniVars
  <2> QED
    BY <2>1 DEF LateLogRepeats, Queued
<1>6. CASE Restart
  BY <1>6 DEF Restart
<1> QED
  BY <1>1, <1>2, <1>3, <1>4, <1>5, <1>6 DEF Next

-----------------------------------------------------------------------------
(* All together.                                                           *)

LEMMA InitIInv == Init => IInv
<1> SUFFICES ASSUME Init PROVE IInv
  OBVIOUS
<1>1. TypeOK /\ StatusInv
  BY InitTypeOK, InitStatusInv
<1>2. jobs = <<>> /\ replies = <<>>
  BY DEF Init, MiInit
<1>3. InitialisedBeforeUse
  BY <1>2 DEF Init, InitialisedBeforeUse, Range
<1>4. LastScanCurrent /\ StaleLogOvertaken /\ BusyLogIsNewer
  BY <1>2 DEF LastScanCurrent, StaleLogOvertaken, BusyLogIsNewer
<1>5. /\ PollAlive /\ PresentBacked /\ CtrlCurrent
      /\ CompletedTruthful /\ CompletedIsFull /\ OperationShown
  BY DEF Init, PollAlive, PollPending, CycleCommands, PresentBacked, CtrlCurrent, CompletedTruthful, CompletedIsFull,
         OperationShown
<1> QED
  BY <1>1, <1>3, <1>4, <1>5 DEF IInv

LEMMA NextIInv == IInv /\ [Next]_vars => IInv'
<1> SUFFICES ASSUME IInv, [Next]_vars PROVE IInv'
  OBVIOUS
<1> USE DEF IInv
<1>1. TypeOK'
  BY NextTypeOK
<1>2. StatusInv'
  BY StepStatus, NextStatusInv
<1>3. PollAlive' /\ PresentBacked' /\ InitialisedBeforeUse'
  BY NextPollAlive, NextPresentBacked, NextInitialised
<1>4. LastScanCurrent' /\ CtrlCurrent'
  BY NextLastScan, NextCtrlCurrent
<1>5. StaleLogOvertaken' /\ CompletedTruthful'
  BY NextStaleLog, NextCompletedTruthful
<1>6. BusyLogIsNewer' /\ CompletedIsFull' /\ OperationShown'
  BY NextBusyLog, NextCompletedIsFull, NextOperationShown
<1> QED
  BY <1>1, <1>2, <1>3, <1>4, <1>5, <1>6

\* Every part of IInv holds in every reachable state of a drive object, for any
\* number of commands in flight and whatever is lost, overlaps or restarts
\* (NVMeDevice.cpp:218-333, 463-741).
THEOREM DeviceInvariant == Spec => []IInv
<1>1. Init => IInv
  BY InitIInv
<1>2. IInv /\ [Next]_vars => IInv'
  BY NextIInv
<1> QED
  BY <1>1, <1>2, PTL DEF Spec

\* The polling of a present drive never stops: whichever commands fail, some
\* step of the chain that leads back to scanTimer is pending
\* (NVMeDevice.cpp:218-304, 463-663).
THEOREM PollingGoesOn == Spec => []PollAlive
<1>1. IInv => PollAlive
  BY DEF IInv
<1> QED
  BY <1>1, DeviceInvariant, PTL

\* Commands are sent to a controller that no rescan has closed, once the reply
\* to the last scan is handled (NVMeMi.cpp:299-362, NVMeDevice.cpp:306-333).
THEOREM ControllerCurrent == Spec => []CtrlCurrent
<1>1. IInv => CtrlCurrent
  BY DEF IInv
<1> QED
  BY <1>1, DeviceInvariant, PTL

\* An operation that still runs or has failed is not shown as completed, unless the
\* reply to its command is about to correct it (NVMeDevice.cpp:490-561, 665-741).
THEOREM CompletedIsTrue == Spec => []CompletedTruthful
<1>1. IInv => CompletedTruthful
  BY DEF IInv
<1> QED
  BY <1>1, DeviceInvariant, PTL

\* What is shown as completed is shown at 100 per cent, also where operations
\* overlap or the process restarts (NVMeDevice.cpp:499-561).
THEOREM CompletedShownFull == Spec => []CompletedIsFull
<1>1. IInv => CompletedIsFull
  BY DEF IInv
<1> QED
  BY <1>1, DeviceInvariant, PTL

\* What the constructor leaves unset is not used before it is set
\* (NVMeDevice.cpp:33-55).
THEOREM SetBeforeUse == Spec => []InitialisedBeforeUse
<1>1. IInv => InitialisedBeforeUse
  BY DEF IInv
<1> QED
  BY <1>1, DeviceInvariant, PTL

\* D-Bus shows a drive as present only while the last scan found it, or the next
\* one has not replied (NVMeDevice.cpp:306-333).
THEOREM PresenceIsBacked == Spec => []PresentBacked
<1>1. IInv => PresentBacked
  BY DEF IInv
<1> QED
  BY <1>1, DeviceInvariant, PTL

LEMMA SanitizeInvariant == ASSUME Mishaps = {} PROVE Spec => []SanitizeInv
<1>1. Init => SanitizeInv
  <2> SUFFICES ASSUME Init PROVE SanitizeInv
    OBVIOUS
  <2>1. IInv
    BY InitIInv
  <2>2. jobs = <<>> /\ replies = <<>> /\ hwSanitize = "never" /\ ~inProgress
    BY DEF Init, MiInit
  <2>3. TrackInv
    BY <2>2 DEF TrackInv, OneSanitize, AtMostOne, InFlight, Queued, Answered, Range,
                RejectedTruthful, SanitizeTracked
  <2> QED
    BY <2>1, <2>3 DEF SanitizeInv, TrackInv
<1>2. SanitizeInv /\ [Next]_vars => SanitizeInv'
  BY NextIInv, NextTracks DEF SanitizeInv, TrackInv, IInv
<1> QED
  BY <1>1, <1>2, PTL DEF Spec

\* Unless erase() calls overlap, a reply is lost or the process restarts, the drive
\* object knows of every operation of the drive, whichever commands fail and however
\* many are in flight (NVMeDevice.cpp:490-561, 665-741).
THEOREM OperationsTracked == ASSUME Mishaps = {} PROVE Spec => []SanitizeTracked
<1>1. SanitizeInv => SanitizeTracked
  BY DEF SanitizeInv
<1> QED
  BY <1>1, SanitizeInvariant, PTL

\* Under the same condition, no health polling is begun during an operation
\* (NVMeDevice.cpp:562-565).
THEOREM NoPollWhileSanitizing == ASSUME Mishaps = {} PROVE Spec => QuietWhileSanitizing
<1>1. SanitizeInv => (PollHealth => hwSanitize # "busy" \/ Answered("sanitize"))
  BY DEF SanitizeInv, SanitizeTracked, PollHealth
<1> QED
  BY <1>1, SanitizeInvariant, PTL DEF QuietWhileSanitizing

\* The two interfaces never disagree on whether an operation is under way
\* (NVMeDevice.cpp:516-561, 673-741).
THEOREM InterfacesAgree == Spec => []OperationShown
<1>1. IInv => OperationShown
  BY DEF IInv
<1> QED
  BY <1>1, DeviceInvariant, PTL

LEMMA EraseInvariant == ASSUME Mishaps = {} PROVE Spec => []EraseInv
<1>1. Init => LogsFirst /\ LateLogRepeats
  <2> SUFFICES ASSUME Init PROVE LogsFirst /\ LateLogRepeats
    OBVIOUS
  <2>1. jobs = <<>> /\ replies = <<>>
    BY DEF Init, MiInit
  <2> QED
    BY <2>1 DEF LogsFirst, AllBehind, Queued, Answered, Range, LateLogRepeats
<1>2. /\ SanitizeInv /\ LogsFirst /\ LateLogRepeats /\ [Next]_vars
      => LogsFirst' /\ LateLogRepeats'
  BY NextLogsFirst, NextLateLog DEF SanitizeInv, IInv
<1> QED
  BY <1>1, <1>2, SanitizeInvariant, PTL DEF Spec, EraseInv

\* The drive has accepted a command that is not shown until the reply is handled,
\* and only the reply to a sanitize command says so.
LEMMA CallbackAccepted ==
  ASSUME TypeOK, OneSanitize, Callback
  PROVE  /\ Head(replies).cmd = "sanitize" => ~Accepted' /\ (Accepted <=> Head(replies).ok)
         /\ Head(replies).cmd # "sanitize" => (Accepted' <=> Accepted)
<1>1. /\ replies # <<>>
      /\ Range(replies) = {Head(replies)} \cup Range(Others)
      /\ Range(Others) \subseteq Range(replies')
      /\ \A x \in Range(replies') : x \in Range(Others) \/ ~x.ok
  BY CallbackAddsErrors
<1>2. CASE Head(replies).cmd # "sanitize"
  BY <1>1, <1>2 DEF Accepted
<1>3. CASE Head(replies).cmd = "sanitize"
  <2>1. NoneOf("sanitize", Others) /\ Others \in Seq(Reply)
    BY <1>1, <1>3, CallbackKeepsPlaces, TakeReply DEF OneSanitize, TypeOK, QueuesOK
  <2>2. \A x \in Range(Others) : x.cmd # "sanitize"
    BY <2>1 DEF NoneOf, Range
  <2> QED
    BY <1>1, <1>3, <2>2 DEF Accepted
<1> QED
  BY <1>2, <1>3

LEMMA CallbackErases ==
  ASSUME EraseInv, Callback
  PROVE  Erasing!Next \/ UNCHANGED <<status, Accepted, hwSanitize>>
<1> USE DEF EraseInv, SanitizeInv, IInv
<1>1. /\ replies # <<>> /\ hwSanitize' = hwSanitize
      /\ Range(replies) = {Head(replies)} \cup Range(Others)
  BY CallbackAddsErrors
<1>2. /\ Head(replies).cmd = "sanitize" => ~Accepted' /\ (Accepted <=> Head(replies).ok)
      /\ Head(replies).cmd # "sanitize" => (Accepted' <=> Accepted)
  BY CallbackAccepted
<1>3. Accepted \in BOOLEAN /\ Accepted' \in BOOLEAN
  BY DEF Accepted
<1>4. Head(replies) \in Range(replies) /\ Head(replies).ok \in BOOLEAN
  BY <1>1, TakeReply, ReplyFields DEF TypeOK, QueuesOK
<1>5. CASE OnSanitize
  <2>1. Head(replies).cmd = "sanitize" /\ Head(replies).ok /\ status' = "InProgress"
    BY <1>5 DEF OnSanitize, Got
  <2>2. Erasing!Announce
    BY <1>1, <1>2, <1>3, <2>1 DEF Erasing!Announce
  <2> QED
    BY <2>2 DEF Erasing!Next
<1>6. CASE OnSanitizeError
  <2>1. Head(replies).cmd = "sanitize" /\ ~Head(replies).ok /\ status' = "Failed"
    BY <1>4, <1>6 DEF OnSanitizeError, Got
  <2>2. hwSanitize # "busy" /\ status # "InProgress"
    BY <1>4, <2>1 DEF RejectedTruthful, OneSanitize, InFlight, Answered, OperationShown
  <2>3. Accepted = FALSE /\ Accepted' = FALSE
    BY <1>2, <1>3, <2>1
  <2>4. Erasing!Refuse
    BY <1>1, <2>1, <2>2, <2>3 DEF Erasing!Refuse, Erasing!Idle
  <2> QED
    BY <2>4 DEF Erasing!Next
<1>7. CASE OnSanlogDone
  <2>1. Head(replies).cmd = "sanlog" /\ Head(replies).ok
    BY <1>7 DEF OnSanlogDone, Got
  <2>2. Accepted' = Accepted
    BY <1>2, <1>3, <2>1
  <2>3. CASE Head(replies).sstat \notin {"ok", "failed"}
    BY <1>1, <1>7, <2>2, <2>3 DEF OnSanlogDone
  <2>4. CASE Head(replies).sstat \in {"ok", "failed"} /\ inProgress
    <3>1. ~Accepted /\ status = "InProgress"
      BY <2>4 DEF OneSanitize, InFlight, Answered, Accepted, OperationShown
    <3>2. Head(replies).sstat = hwSanitize
      BY <1>4, <2>1, <2>4, KnownLogsCurrent DEF OneSanitize, InFlight
    <3>3. \/ hwSanitize = "ok" /\ status' = "Completed"
          \/ hwSanitize = "failed" /\ status' = "Failed"
      BY <1>7, <2>4, <3>2 DEF OnSanlogDone
    <3>4. Erasing!Conclude
      BY <1>1, <2>2, <3>1, <3>3 DEF Erasing!Conclude
    <3> QED
      BY <3>4 DEF Erasing!Next
  <2>5. CASE Head(replies).sstat \in {"ok", "failed"} /\ ~inProgress
    <3>1. status = Outcome(Head(replies).sstat)
      BY <1>4, <2>1, <2>5 DEF LateLogRepeats
    <3> QED
      BY <1>1, <1>7, <2>2, <2>5, <3>1 DEF OnSanlogDone, Outcome
  <2> QED
    BY <2>3, <2>4, <2>5
<1>8. CASE OtherCallback
  <2>1. Accepted' = Accepted /\ status' = status
    BY <1>2, <1>3, <1>8, OtherCallbackKeeps
  <2> QED
    BY <1>1, <2>1
<1> QED
  BY <1>5, <1>6, <1>7, <1>8 DEF OtherCallback

LEMMA WorkerErases ==
  ASSUME Mishaps = {}, EraseInv, WorkerStep
  PROVE  Erasing!Next \/ UNCHANGED <<status, Accepted, hwSanitize>>
<1> USE DEF EraseInv, SanitizeInv, IInv
<1>1. /\ status' = status /\ jobs # <<>> /\ Range(jobs) = {Head(jobs)} \cup Range(jobs')
      /\ Range(replies) \subseteq Range(replies')
      /\ \A x \in Range(replies') \ Range(replies) : x.cmd = Head(jobs).cmd
  BY WorkerAnswers DEF JobAnswered, WorkerStep, saniVars
<1>2. Accepted \in BOOLEAN /\ Accepted' \in BOOLEAN
  BY DEF Accepted
<1>3. CASE Head(jobs).cmd # "sanitize"
  <2>1. Accepted' <=> Accepted
    BY <1>1, <1>3 DEF Accepted
  <2> QED
    BY <1>1, <1>2, <1>3, <2>1, JobEffects
<1>4. CASE Head(jobs).cmd = "sanitize"
  <2>1. ~Answered("sanitize") /\ ~inProgress
    BY <1>1, <1>4 DEF OneSanitize, InFlight, Queued
  <2>2. Accepted = FALSE /\ status # "InProgress"
    BY <1>2, <2>1 DEF Answered, Accepted, OperationShown
  <2>3. SanitizeStarts \/ SanitizeRejected
    BY <1>4
       DEF WorkerStep, RunJob, Run, ScanSucceeds, ScanFails, CommandFails, InfoSucceeds,
           HealthSucceeds, SmartSucceeds, SmartRefused, SanlogSucceeds, SanlogFails,
           SanitizeReplyLost
  <2>4. CASE SanitizeStarts
    <3>1. /\ hwSanitize # "busy" /\ hwSanitize' = "busy"
          /\ replies' = Append(replies, Done("sanitize"))
      BY <2>4 DEF SanitizeStarts, Answer
    <3>2. Range(replies') = Range(replies) \cup {Done("sanitize")}
      BY <3>1, DoneIsReply, RangeAppend DEF TypeOK
    <3>3. Done("sanitize").cmd = "sanitize" /\ Done("sanitize").ok
      BY DEF Done
    <3>4. Accepted' = TRUE
      BY <1>2, <3>2, <3>3 DEF Accepted
    <3>5. Erasing!Begin
      BY <1>1, <2>2, <3>1, <3>4 DEF Erasing!Begin, Erasing!Idle
    <3> QED
      BY <3>5 DEF Erasing!Next
  <2>5. CASE SanitizeRejected
    <3>1. hwSanitize' = hwSanitize /\ replies' = Append(replies, Error("sanitize"))
      BY <2>5 DEF SanitizeRejected, Answer, endpointVars
    <3>2. Range(replies') = Range(replies) \cup {Error("sanitize")}
      BY <3>1, ErrorIsReply, RangeAppend DEF TypeOK, Commands, ControllerCommands
    <3>3. ~Error("sanitize").ok
      BY DEF Error
    <3>4. Accepted' <=> Accepted
      BY <3>2, <3>3 DEF Accepted
    <3> QED
      BY <1>1, <1>2, <3>1, <3>4
  <2> QED
    BY <2>3, <2>4, <2>5
<1> QED
  BY <1>3, <1>4

LEMMA StepErases ==
  ASSUME Mishaps = {}, EraseInv, [Next]_vars
  PROVE  Erasing!Next \/ UNCHANGED <<status, Accepted, hwSanitize>>
<1>0. Accepted \in BOOLEAN /\ Accepted' \in BOOLEAN /\ TypeOK
  BY DEF Accepted, EraseInv, SanitizeInv, IInv
<1>1. CASE Callback
  BY <1>1, CallbackErases
<1>2. CASE WorkerStep
  BY <1>2, WorkerErases
<1>3. CASE DriveStep
  <2>1. /\ hwSanitize = "busy" /\ hwSanitize' \in {"ok", "failed"}
        /\ replies' = replies /\ status' = status
    BY <1>3 DEF DriveStep, SanitizeEnds, saniVars
  <2>2. Accepted' <=> Accepted
    BY <2>1 DEF Accepted
  <2>3. Erasing!End
    BY <1>0, <2>1, <2>2 DEF Erasing!End
  <2> QED
    BY <2>3 DEF Erasing!Next
<1>4. CASE OtherStep /\ ~WorkerStep /\ ~DriveStep
  <2>1. /\ Range(replies) \subseteq Range(replies') /\ Extends(replies, replies')
        /\ \A i \in Len(replies)+1..Len(replies') :
             ~replies'[i].ok \/ replies'[i].cmd = "timer"
    BY <1>0, <1>4, OthersFlow
  <2>2. replies \in Seq(Reply) /\ replies' \in Seq(Reply)
    BY <1>0, <1>4, NextQueuesOK DEF TypeOK, QueuesOK, Next, OtherStep
  <2>3. ASSUME NEW x \in Range(replies'), x.cmd = "sanitize", x.ok PROVE x \in Range(replies)
    <3>1. PICK i \in 1..Len(replies') : x = replies'[i]
      BY <2>2 DEF Range
    <3>2. i \in 1..Len(replies)
      BY <2>1, <2>2, <2>3, <3>1
    <3> QED
      BY <2>1, <2>2, <3>1, <3>2 DEF Extends, Range
  <2>4. Accepted' <=> Accepted
    BY <2>1, <2>3 DEF Accepted
  <2>5. status' = status /\ hwSanitize' = hwSanitize
    BY <1>4, EndpointKept
       DEF endpointVars, OtherStep, TimerExpires, Erase, EmEndpoints, SetFaultProperty, saniVars
  <2> QED
    BY <1>0, <2>4, <2>5
<1>5. CASE Restart
  BY <1>5 DEF Restart
<1>6. CASE UNCHANGED vars
  <2>1. replies' = replies /\ status' = status /\ hwSanitize' = hwSanitize
    BY <1>6 DEF vars, miVars, endpointVars, saniVars
  <2>2. Accepted' <=> Accepted
    BY <2>1 DEF Accepted
  <2> QED
    BY <1>0, <2>1, <2>2
<1> QED
  BY <1>1, <1>2, <1>3, <1>4, <1>5, <1>6, StepCases

\* Unless erase() calls overlap, a reply is lost or the process restarts, D-Bus
\* callers see the operations of the drive one by one: announced, then concluded
\* once, as they ended, whichever commands fail (NVMeDevice.cpp:463-561, 665-741).
THEOREM EraseImplemented == ASSUME Mishaps = {} PROVE Spec => ImplementsErase
<1>1. Init => Erasing!Init
  <2> SUFFICES ASSUME Init PROVE Erasing!Init
    OBVIOUS
  <2>1. replies = <<>> /\ status = "Unset" /\ hwSanitize = "never"
    BY DEF Init, MiInit
  <2>2. Accepted = FALSE
    BY <2>1 DEF Accepted, Range
  <2> QED
    BY <2>1, <2>2 DEF Erasing!Init
<1>2. EraseInv /\ [Next]_vars => [Erasing!Next]_(Erasing!eraseVars)
  BY StepErases DEF Erasing!eraseVars
<1> QED
  BY <1>1, <1>2, EraseInvariant, PTL DEF Spec, ImplementsErase, Erasing!Spec

\* A drive that is not found is looked for again as long as the scans themselves
\* succeed: only a scan that fails, or a drive without an endpoint, leaves it absent
\* for good (NVMeDevice.cpp:306-333, 463-480).
THEOREM AbsentRetried ==
  ASSUME "scan" \notin Failing
  PROVE  Spec => [](nvmeEP => AbsentIsRetried)
<1>1. Init => Retried
  <2> SUFFICES ASSUME Init PROVE Retried
    OBVIOUS
  <2>1. replies = <<>> /\ presence = "unset"
    BY DEF Init, MiInit
  <2> QED
    BY <2>1 DEF Retried, Range
<1>2. IInv /\ Retried /\ [Next]_vars => Retried'
  BY NextRetried DEF IInv
<1>3. Retried => (nvmeEP => AbsentIsRetried)
  BY DEF Retried, AbsentIsRetried
<1> QED
  BY <1>1, <1>2, <1>3, DeviceInvariant, PTL DEF Spec

-----------------------------------------------------------------------------
(* The poll cycles.  Each entry of a queue counts for one cycle or none.   *)

Link(x) == IF x.cmd \in CycleCommands THEN 1 ELSE 0

LEMMA LinksNatural ==
  ASSUME NEW S, NEW q \in Seq(S)
  PROVE  /\ IsFiniteSet({k \in DOMAIN q : q[k].cmd \in CycleCommands})
         /\ Links(q) \in Nat
<1>1. IsFiniteSet(1..Len(q))
  BY FS_Interval
<1>2. {k \in DOMAIN q : q[k].cmd \in CycleCommands} \in SUBSET (1..Len(q))
  OBVIOUS
<1>3. IsFiniteSet({k \in DOMAIN q : q[k].cmd \in CycleCommands})
  BY <1>1, <1>2, FS_Subset
<1> QED
  BY <1>3, FS_CardinalityType DEF Links

LEMMA LinksAppend ==
  ASSUME NEW S, NEW q \in Seq(S), NEW x \in S
  PROVE  Links(Append(q, x)) = Links(q) + Link(x)
<1> DEFINE Old == {k \in DOMAIN q : q[k].cmd \in CycleCommands}
           New == {k \in DOMAIN Append(q, x) : Append(q, x)[k].cmd \in CycleCommands}
           last == Len(q) + 1
<1>1. IsFiniteSet(Old) /\ Cardinality(Old) \in Nat
  BY LinksNatural DEF Links
<1>2. /\ DOMAIN Append(q, x) = 1..last /\ DOMAIN q = 1..Len(q) /\ last = Len(q) + 1
      /\ Append(q, x)[last] = x
      /\ \A k \in DOMAIN q : Append(q, x)[k] = q[k]
  OBVIOUS
<1>3. last \notin Old
  OBVIOUS
<1>4. CASE x.cmd \in CycleCommands
  <2>1. New = Old \cup {last}
    BY <1>2, <1>4
  <2>2. Cardinality(Old \cup {last}) = Cardinality(Old) + 1
    BY <1>1, <1>3, FS_AddElement
  <2> QED
    BY <1>4, <2>1, <2>2 DEF Links, Link
<1>5. CASE x.cmd \notin CycleCommands
  <2>1. New = Old
    BY <1>2, <1>5
  <2>2. Links(Append(q, x)) = Links(q) /\ Links(q) \in Nat
    BY <1>1, <2>1 DEF Links
  <2>3. Link(x) = 0
    BY <1>5 DEF Link
  <2> QED
    BY <2>2, <2>3
<1> QED
  BY <1>4, <1>5

LEMMA LinksTail ==
  ASSUME NEW S, NEW q \in Seq(S), q # <<>>
  PROVE  Links(q) = Links(Tail(q)) + Link(Head(q))
<1> DEFINE t == Tail(q)
           All == {k \in DOMAIN q : q[k].cmd \in CycleCommands}
           Rest == {k \in DOMAIN t : t[k].cmd \in CycleCommands}
           Moved == All \ {1}
           shift == [k \in Rest |-> k + 1]
<1>1. /\ t \in Seq(S) /\ Len(t) = Len(q) - 1 /\ Len(q) \in Nat /\ Len(q) > 0
      /\ DOMAIN t = 1..Len(t) /\ DOMAIN q = 1..Len(q)
      /\ \A k \in 1..Len(t) : t[k] = q[k + 1]
      /\ Head(q) = q[1]
  OBVIOUS
<1> HIDE DEF t
<1>2. IsFiniteSet(All) /\ IsFiniteSet(Rest) /\ Links(q) = Cardinality(All) /\ Links(t) = Cardinality(Rest)
  BY <1>1, LinksNatural DEF Links
<1>3. \A k \in Rest : k + 1 \in Moved
  BY <1>1
<1>4. \A m \in Moved : m - 1 \in Rest
  <2> SUFFICES ASSUME NEW m \in Moved PROVE m - 1 \in Rest
    OBVIOUS
  <2>1. m \in 2..Len(q) /\ q[m].cmd \in CycleCommands
    BY <1>1
  <2>2. m - 1 \in 1..Len(t) /\ m - 1 + 1 = m
    BY <1>1, <2>1
  <2>3. t[m - 1] = q[m]
    BY <1>1, <2>2
  <2> QED
    BY <1>1, <2>1, <2>2, <2>3
<1>5. Rest \subseteq Int /\ Moved \subseteq Int
  BY <1>1
<1>6. shift \in Bijection(Rest, Moved)
  <2> HIDE DEF Rest, Moved
  <2>1. shift \in [Rest -> Moved]
    BY <1>3
  <2>2. \A j, k \in Rest : shift[j] = shift[k] => j = k
    BY <1>5
  <2>3. \A m \in Moved : \E k \in Rest : shift[k] = m
    BY <1>4, <1>5
  <2> QED
    BY <2>1, <2>2, <2>3 DEF Bijection, Injection, Surjection, IsInjective
<1>7. Cardinality(Moved) = Cardinality(Rest)
  BY <1>2, <1>6, FS_Bijection DEF ExistsBijection
<1>8. Cardinality(All) \in Nat
  BY <1>2, FS_CardinalityType
<1>9. Cardinality(Moved) = IF 1 \in All THEN Cardinality(All) - 1 ELSE Cardinality(All)
  BY <1>2, FS_RemoveElement
<1>10. 1 \in All <=> Head(q).cmd \in CycleCommands
  BY <1>1
<1>11. Link(Head(q)) = IF 1 \in All THEN 1 ELSE 0
  BY <1>10 DEF Link
<1>12. Links(q) = Links(t) + Link(Head(q))
  <2> HIDE DEF All, Rest, Moved
  <2> QED
    BY <1>2, <1>7, <1>8, <1>9, <1>11
<1> QED
  BY <1>12 DEF t

\* A command that is issued counts once, in either queue.
LEMMA LinksIssue ==
  ASSUME QueuesOK, NEW rest \in Seq(Reply), NEW request \in Job,
         Issue(rest, request)
  PROVE  Links(jobs') + Links(replies') = Links(jobs) + Links(rest) + Link(request)
<1>0. Links(jobs) \in Nat /\ Links(rest) \in Nat /\ Link(request) \in Nat
  BY LinksNatural DEF QueuesOK, Link
<1>1. CASE nvmeEP
  <2>1. jobs' = Append(jobs, request) /\ replies' = rest
    BY <1>1 DEF Issue
  <2>2. Links(Append(jobs, request)) = Links(jobs) + Link(request)
    BY LinksAppend DEF QueuesOK
  <2> QED
    BY <1>0, <2>1, <2>2
<1>2. CASE ~nvmeEP
  <2>1. Error(request.cmd) \in Reply /\ Link(Error(request.cmd)) = Link(request)
    BY ErrorIsReply DEF Job, Error, Link
  <2>2. Links(Append(rest, Error(request.cmd))) = Links(rest) + Link(request)
    BY <2>1, LinksAppend
  <2>3. jobs' = jobs /\ replies' = Append(rest, Error(request.cmd))
    BY <1>2 DEF Issue
  <2> QED
    BY <1>0, <2>2, <2>3
<1> QED
  BY <1>1, <1>2

LEMMA LinksIssueBoth ==
  ASSUME QueuesOK, NEW rest \in Seq(Reply), NEW first \in Job, NEW second \in Job,
         IssueBoth(rest, first, second)
  PROVE  Links(jobs') + Links(replies')
           = Links(jobs) + Links(rest) + Link(first) + Link(second)
<1>0. /\ Links(jobs) \in Nat /\ Links(rest) \in Nat
      /\ Link(first) \in Nat /\ Link(second) \in Nat
  BY LinksNatural DEF QueuesOK, Link
<1>1. CASE nvmeEP
  <2>1. Append(jobs, first) \in Seq(Job)
    BY DEF QueuesOK
  <2>2. Links(jobs') = Links(Append(jobs, first)) + Link(second)
    BY <1>1, <2>1, LinksAppend DEF IssueBoth
  <2>3. Links(Append(jobs, first)) = Links(jobs) + Link(first)
    BY LinksAppend DEF QueuesOK
  <2> QED
    BY <1>0, <1>1, <2>2, <2>3 DEF IssueBoth
<1>2. CASE ~nvmeEP
  <2>1. /\ Error(first.cmd) \in Reply /\ Link(Error(first.cmd)) = Link(first)
        /\ Error(second.cmd) \in Reply /\ Link(Error(second.cmd)) = Link(second)
    BY ErrorIsReply DEF Job, Error, Link
  <2>2. Append(rest, Error(first.cmd)) \in Seq(Reply)
    BY <2>1
  <2>3. Links(Append(rest, Error(first.cmd))) = Links(rest) + Link(first)
    BY <2>1, LinksAppend
  <2>4. Links(replies') = Links(Append(rest, Error(first.cmd))) + Link(second)
    BY <1>2, <2>1, <2>2, LinksAppend DEF IssueBoth
  <2> QED
    BY <1>0, <1>2, <2>3, <2>4 DEF IssueBoth
<1> QED
  BY <1>1, <1>2

\* A closure that the Worker runs hands its cycle on, once.
LEMMA LinksWorker ==
  ASSUME TypeOK, WorkerStep, ~SmartRefused
  PROVE  Links(jobs') + Links(replies') = Links(jobs) + Links(replies)
<1>1. JobAnswered
  BY WorkerAnswers
<1>2. PICK x \in Reply : replies' = Append(replies, x)
  <2>1. \E x : replies' = Append(replies, x)
    BY DEF WorkerStep, RunJob, ScanSucceeds, ScanFails, CommandFails, InfoSucceeds,
           HealthSucceeds, SmartSucceeds, SanlogSucceeds, SanlogFails,
           SanitizeStarts, SanitizeRejected, SanitizeReplyLost, Answer
  <2>2. PICK x : replies' = Append(replies, x)
    BY <2>1
  <2>3. replies \in Seq(Reply) /\ replies' \in Seq(Reply)
    BY <1>1 DEF JobAnswered, QueuesOK, TypeOK
  <2>4. Len(replies') = Len(replies) + 1 /\ replies'[Len(replies) + 1] = x
    BY <2>2, <2>3
  <2>5. x \in Reply
    BY <2>3, <2>4
  <2> QED
    BY <2>2, <2>5
<1>3. x.cmd = Head(jobs).cmd
  BY <1>1, <1>2 DEF JobAnswered, TypeOK
<1>4. Links(replies') = Links(replies) + Link(x)
  BY <1>2, LinksAppend DEF TypeOK
<1>5. Links(jobs) = Links(jobs') + Link(Head(jobs))
  BY <1>1, LinksTail DEF JobAnswered, TypeOK
<1>6. /\ Links(replies) \in Nat /\ Links(jobs') \in Nat
      /\ Link(x) \in Nat /\ Link(Head(jobs)) = Link(x)
  BY <1>1, <1>3, LinksNatural DEF JobAnswered, QueuesOK, TypeOK, Link
<1> QED
  BY <1>4, <1>5, <1>6

\* A callback takes its own cycle, and goes on with it or ends it.
LEMMA LinksCallback ==
  ASSUME TypeOK, Callback, ~(OnSanlogDone /\ ~armed)
  PROVE  PollCycles' <= PollCycles
<1> DEFINE rest == Links(Others)
           Waits(timer) == IF timer THEN 1 ELSE 0
<1>0. QueuesOK
  BY DEF TypeOK, QueuesOK
<1>1. replies # <<>> /\ Others \in Seq(Reply)
  BY <1>0, CallbackFlow, TakeReply
<1>2. Links(replies) = rest + Link(Head(replies))
  BY <1>0, <1>1, LinksTail DEF QueuesOK, Others
<1>3. /\ Links(jobs) \in Nat /\ rest \in Nat /\ Link(Head(replies)) \in Nat
      /\ Links(replies) \in Nat
  BY <1>0, <1>1, LinksNatural DEF QueuesOK, Link
<1>4. /\ PollCycles = Links(jobs) + Links(replies) + Waits(armed)
      /\ PollCycles' = Links(jobs') + Links(replies') + Waits(armed')
  BY DEF PollCycles
<1>5. QueuesOK'
  BY NextQueuesOK DEF Next
<1>6. Links(jobs') \in Nat /\ Links(replies') \in Nat
  BY <1>5, LinksNatural DEF QueuesOK
<1>7. Waits(armed) \in {0, 1} /\ Waits(armed') \in {0, 1}
  OBVIOUS
<1> HIDE DEF rest, Waits
<1> USE DEF Commands, EndpointCommands, ControllerCommands, CycleCommands
<1>8. CASE SilentCallback
  <2>1. Links(jobs') + Links(replies') = Links(jobs) + rest
    BY <1>8, SilentTakes DEF rest
  <2>2. Waits(armed') <= Waits(armed) + Link(Head(replies))
    <3>1. CASE OnPort \/ OnSmartError \/ OnSmart
      <4>1. Link(Head(replies)) = 1
        BY <3>1 DEF OnPort, OnSmartError, OnSmart, Got, Link
      <4> QED
        BY <1>7, <4>1
    <3>2. CASE ~(OnPort \/ OnSmartError \/ OnSmart)
      <4>1. armed' = armed
        BY <1>8, <3>2
           DEF SilentCallback, OnScanError, OnHealthError, OnHealth, OnSanitizeError,
               OnSanitize, OnSanlogBusy, OnSanlogDone, lifeVars, TypeOK
      <4> QED
        BY <1>3, <1>7, <4>1
    <3> QED
      BY <3>1, <3>2
  <2> QED
    BY <1>2, <1>3, <1>4, <1>6, <1>7, <2>1, <2>2
<1>9. ASSUME NEW request \in Job, Issue(Others, request), armed' = armed,
             Head(replies).cmd \in CycleCommands
      PROVE  PollCycles' <= PollCycles
  <2>1. Links(jobs') + Links(replies') = Links(jobs) + rest + Link(request)
    BY <1>0, <1>1, <1>9, LinksIssue DEF rest
  <2>2. Link(request) \in {0, 1} /\ Link(Head(replies)) = 1
    BY <1>9 DEF Link
  <2>3. Waits(armed') = Waits(armed)
    BY <1>9
  <2> QED
    BY <1>2, <1>3, <1>4, <1>6, <1>7, <2>1, <2>2, <2>3
<1>10. CASE OnScan
  <2>1. Head(replies).ctrl \in Handles /\ Head(replies).cmd = "scan"
    BY <1>0, <1>10, TakeReply, ReplyFields DEF OnScan, Got
  <2>2. Request("identify", Head(replies).ctrl) \in Job
    BY <2>1 DEF Request, Job
  <2> QED
    BY <1>9, <1>10, <2>1, <2>2 DEF OnScan
<1>11. CASE OnIdentifyError \/ OnIdentify
  <2>1. Head(replies).cmd = "identify" /\ armed' = armed
    BY <1>11 DEF OnIdentifyError, OnIdentify, Got, lifeVars
  <2>2. \E cmd \in {"identify", "port"}, c \in {ctrl, NoCtrl} : Issue(Others, Request(cmd, c))
    BY <1>11 DEF OnIdentifyError, OnIdentify
  <2>3. PICK cmd \in {"identify", "port"}, c \in {ctrl, NoCtrl} :
          Issue(Others, Request(cmd, c))
    BY <2>2
  <2>4. Request(cmd, c) \in Job
    BY <2>3, RequestIsJob
  <2> QED
    BY <1>9, <2>1, <2>3, <2>4
<1>12. CASE PollAbsent
  <2>1. Head(replies).cmd = "timer" /\ armed' = armed /\ Issue(Others, Request("scan", NoCtrl))
    BY <1>12 DEF PollAbsent, Initialize, Got
  <2>2. Request("scan", NoCtrl) \in Job
    BY RequestIsJob
  <2> QED
    BY <1>9, <2>1, <2>2
<1>13. CASE PollSanitize
  <2>1. Head(replies).cmd = "timer" /\ Issue(Others, Request("sanlog", ctrl))
    BY <1>13 DEF PollSanitize, Got
  <2>2. Request("sanlog", ctrl) \in Job
    BY RequestIsJob
  <2>3. Links(jobs') + Links(replies') = Links(jobs) + rest + Link(Request("sanlog", ctrl))
    BY <1>0, <1>1, <2>1, <2>2, LinksIssue DEF rest
  <2>4. Link(Request("sanlog", ctrl)) = 0 /\ Link(Head(replies)) = 1
    BY <2>1 DEF Link, Request
  <2> QED
    BY <1>2, <1>3, <1>4, <1>6, <1>7, <2>3, <2>4
<1>14. CASE PollHealth
  <2> DEFINE first == Request("health", NoCtrl)
             second == Request("smart", ctrl)
  <2>1. Head(replies).cmd = "timer" /\ IssueBoth(Others, first, second) /\ armed' = armed
    BY <1>14 DEF PollHealth, Got, lifeVars
  <2>2. first \in Job /\ second \in Job
    BY RequestIsJob
  <2>3. Link(first) = 0 /\ Link(second) = 1 /\ Link(Head(replies)) = 1
    BY <2>1 DEF Link, Request
  <2> HIDE DEF first, second
  <2>4. Links(jobs') + Links(replies') = Links(jobs) + rest + Link(first) + Link(second)
    BY <1>0, <1>1, <2>1, <2>2, LinksIssueBoth DEF rest
  <2>5. Waits(armed') = Waits(armed)
    BY <2>1
  <2> QED
    BY <1>2, <1>3, <1>4, <1>6, <1>7, <2>3, <2>4, <2>5
<1> QED
  BY <1>8, <1>10, <1>11, <1>12, <1>13, <1>14 DEF Callback, SilentCallback

\* The timer hands its cycle to the main loop, and a sanitize command has none.
LEMMA LinksOthers ==
  ASSUME TypeOK, OtherStep, ~EmEndpoints, ~SmartRefused
  PROVE  PollCycles' <= PollCycles
<1>0. QueuesOK
  BY DEF TypeOK, QueuesOK
<1>1. Links(jobs) \in Nat /\ Links(replies) \in Nat
  BY <1>0, LinksNatural DEF QueuesOK
<1>2. CASE WorkerStep
  <2>1. Links(jobs') + Links(replies') = Links(jobs) + Links(replies)
    BY <1>2, LinksWorker
  <2>2. armed' = armed
    BY <1>2 DEF WorkerStep, lifeVars
  <2>3. Links(jobs') \in Nat /\ Links(replies') \in Nat
    BY <1>2, WorkerAnswers, LinksNatural DEF JobAnswered, QueuesOK
  <2> QED
    BY <1>1, <2>1, <2>2, <2>3 DEF PollCycles
<1>3. CASE TimerExpires
  <2>1. Links(replies') = Links(replies) + Link(Done("timer"))
    BY <1>0, <1>3, DoneIsReply, LinksAppend DEF TimerExpires, QueuesOK
  <2>2. Link(Done("timer")) = 1
    BY DEF Link, Done, CycleCommands
  <2>3. armed /\ armed' = FALSE /\ jobs' = jobs
    BY <1>3 DEF TimerExpires
  <2> QED
    BY <1>1, <2>1, <2>2, <2>3 DEF PollCycles
<1>4. ASSUME NEW method \in EraseMethods, Erase(method)
      PROVE  PollCycles' <= PollCycles
  <2>1. Request("sanitize", ctrl) \in Job /\ Link(Request("sanitize", ctrl)) = 0
    BY RequestIsJob DEF Request, Link, CycleCommands, Commands, ControllerCommands
  <2>2. Issue(replies, Request("sanitize", ctrl)) /\ armed' = armed
    BY <1>4 DEF Erase, lifeVars
  <2>3. Links(jobs') + Links(replies')
          = Links(jobs) + Links(replies) + Link(Request("sanitize", ctrl))
    BY <1>0, <2>1, <2>2, LinksIssue DEF QueuesOK
  <2>4. QueuesOK'
    BY <1>0, <2>1, <2>2, IssueFlow DEF QueuesOK
  <2>5. Links(jobs') \in Nat /\ Links(replies') \in Nat
    BY <2>4, LinksNatural DEF QueuesOK
  <2> QED
    BY <1>1, <2>1, <2>2, <2>3, <2>5 DEF PollCycles
<1>5. CASE DriveStep \/ SetFaultProperty
  <2>1. jobs' = jobs /\ replies' = replies /\ armed' = armed
    BY <1>5 DEF DriveStep, SanitizeEnds, SetFaultProperty, miVars, lifeVars
  <2> QED
    BY <1>1, <2>1 DEF PollCycles
<1> QED
  BY <1>2, <1>3, <1>4, <1>5 DEF OtherStep

LEMMA StepCycles ==
  ASSUME TypeOK, [Next]_vars, PollCycles' > PollCycles
  PROVE  EmEndpoints \/ (OnSanlogDone /\ ~armed) \/ SmartRefused
<1>0. Links(jobs) \in Nat /\ Links(replies) \in Nat
  BY LinksNatural DEF TypeOK
<1>1. Links(jobs)' \in Nat /\ Links(replies)' \in Nat
  BY NextTypeOK, LinksNatural DEF TypeOK
<1>2. PollCycles \in Nat /\ PollCycles' \in Nat
  BY <1>0, <1>1 DEF PollCycles
<1>3. CASE UNCHANGED vars
  <2>1. PollCycles' = PollCycles
    BY <1>3 DEF vars, miVars, lifeVars, PollCycles
  <2> QED
    BY <1>2, <2>1
<1>4. CASE Restart
  <2>1. jobs' = <<>> /\ replies' = <<>> /\ ~armed'
    BY <1>4 DEF Restart
  <2>2. Links(<<>>) = 0
    <3>1. {k \in DOMAIN <<>> : <<>>[k].cmd \in CycleCommands} = {}
      OBVIOUS
    <3> QED
      BY <3>1, FS_EmptySet DEF Links
  <2>3. PollCycles' = 0
    BY <2>1, <2>2 DEF PollCycles
  <2> QED
    BY <1>2, <2>3
<1>5. CASE Callback
  BY <1>2, <1>5, LinksCallback
<1>6. CASE OtherStep
  BY <1>2, <1>6, LinksOthers
<1> QED
  BY <1>3, <1>4, <1>5, <1>6, StepCases

\* A poll cycle goes on or ends, and never becomes two, whichever commands fail and
\* however sanitize operations, overlapping calls and restarts come between: one more
\* is begun only by Entity Manager's signal, by the end of a sanitize operation while
\* the timer's handler is queued, and by a refused SMART log
\* (NVMeDevice.cpp:218-304, 463-663).
THEOREM CyclesDoNotSplit == Spec => CyclesBegun
<1>1. TypeOK /\ [Next]_vars =>
        [PollCycles' > PollCycles =>
           EmEndpoints \/ (OnSanlogDone /\ ~armed) \/ SmartRefused]_vars
  BY StepCycles
<1> QED
  BY <1>1, DeviceTypes, PTL DEF Spec, CyclesBegun
=============================================================================
