-------------------------- MODULE NVMeDeviceProofs --------------------------
(***************************************************************************)
(* Proofs about one drive object, for any handles, failures, mishaps,      *)
(* warnings and bound: its types, and that a failure of the drive which it *)
(* shows stays shown.                                                      *)
(***************************************************************************)
EXTENDS NVMeDevice, NVMeMiProofs, DriveStatusProofs

\* A callback leaves a well-typed queue, and what it leaves is what was there.
LEMMA TakeReply ==
  ASSUME QueuesOK, replies # <<>>
  PROVE  /\ Others \in Seq(Reply)
         /\ Head(replies) \in Reply
         /\ Range(replies) = {Head(replies)} \cup Range(Others)
BY RangeHeadTail DEF QueuesOK, Others

LEMMA RequestIsJob ==
  ASSUME TypeOK, NEW cmd \in Commands
  PROVE  Request(cmd, NoCtrl) \in Job /\ Request(cmd, ctrl) \in Job
BY DEF TypeOK, Request, Job

\* The callbacks that issue no command.
SilentCallback ==
  \/ OnScanError \/ OnPort
  \/ OnHealthError \/ OnHealth \/ OnSmartError \/ OnSmart
  \/ OnSanitizeError \/ OnSanitize \/ OnSanlogBusy \/ OnSanlogDone

LEMMA SilentTakes ==
  SilentCallback => replies # <<>> /\ jobs' = jobs /\ replies' = Others
BY DEF SilentCallback, OnScanError, OnPort, OnHealthError, OnHealth, OnSmartError,
       OnSmart, OnSanitizeError, OnSanitize, OnSanlogBusy, OnSanlogDone, Got, Consume

-----------------------------------------------------------------------------
(* Types.                                                                  *)

LEMMA NextQueuesOK == ASSUME TypeOK, Next PROVE QueuesOK'
<1>0. QueuesOK
  BY DEF TypeOK, QueuesOK
<1> USE DEF Commands, EndpointCommands, ControllerCommands
<1>1. CASE SilentCallback
  BY <1>0, <1>1, SilentTakes, TakeReply DEF QueuesOK
<1>2. CASE OnScan
  <2>1. Head(replies).ctrl \in Handles /\ Others \in Seq(Reply)
    BY <1>0, <1>2, TakeReply, ReplyFields DEF OnScan, Got
  <2>2. Request("identify", ctrl') \in Job
    BY <1>2, <2>1 DEF OnScan, Request, Job
  <2> QED
    BY <1>0, <1>2, <2>1, <2>2, IssueFlow DEF OnScan
<1>3. CASE OnIdentifyError \/ OnIdentify
  BY <1>0, <1>3, TakeReply, RequestIsJob, IssueFlow DEF OnIdentifyError, OnIdentify, Got
<1>4. CASE PollAbsent \/ PollSanitize
  BY <1>0, <1>4, TakeReply, RequestIsJob, IssueFlow
     DEF PollAbsent, Initialize, PollSanitize, Got
<1>5. CASE PollHealth
  BY <1>0, <1>5, TakeReply, RequestIsJob, IssueBothFlow DEF PollHealth, Got
<1>6. CASE WorkerStep
  BY <1>0, <1>6, RunJobAnswers DEF WorkerStep, JobAnswered, TypeOK
<1>7. CASE TimerExpires
  BY <1>0, <1>7, DoneIsReply DEF TimerExpires, QueuesOK
<1>8. CASE \E method \in EraseMethods : Erase(method)
  BY <1>0, <1>8, RequestIsJob, IssueFlow DEF Erase, QueuesOK
<1>9. CASE EmEndpoints
  BY <1>0, <1>9, RequestIsJob, IssueFlow DEF EmEndpoints, Initialize, QueuesOK
<1>10. CASE DriveStep \/ SetFaultProperty
  BY <1>0, <1>10 DEF DriveStep, SanitizeEnds, SetFaultProperty, miVars, QueuesOK
<1>11. CASE Restart
  <2>1. jobs' = <<>> /\ replies' = <<>>
    BY <1>11 DEF Restart
  <2> QED
    BY <2>1 DEF QueuesOK
<1> QED
  BY <1>1, <1>2, <1>3, <1>4, <1>5, <1>6, <1>7, <1>8, <1>9, <1>10, <1>11
     DEF Next, Callback, SilentCallback

LEMMA NextTypeOK == ASSUME TypeOK, [Next]_vars PROVE TypeOK'
<1>1. CASE UNCHANGED vars
  BY <1>1 DEF TypeOK, vars, miVars, endpointVars, lifeVars, saniVars
<1>2. CASE Next
  <2>1. jobs' \in Seq(Job) /\ replies' \in Seq(Reply)
    BY <1>2, NextQueuesOK DEF QueuesOK
  <2> USE DEF TypeOK, endpointVars, lifeVars, saniVars
  <2>2. CASE OnScanError \/ OnPort \/ OnHealthError \/ OnHealth \/ OnSmartError \/ OnSmart
    <3>1. CASE OnScanError \/ OnPort
      BY <2>1, <3>1 DEF OnScanError, OnPort
    <3>2. CASE OnHealthError \/ OnSmartError
      BY <2>1, <3>2 DEF OnHealthError, OnSmartError
    <3>3. CASE OnHealth \/ OnSmart
      BY <2>1, <3>3 DEF OnHealth, OnSmart
    <3> QED
      BY <2>2, <3>1, <3>2, <3>3
  <2>3. CASE OnSanitizeError \/ OnSanitize \/ OnSanlogBusy \/ OnSanlogDone
    <3>1. CASE OnSanitizeError \/ OnSanitize \/ OnSanlogBusy
      BY <2>1, <3>1 DEF OnSanitizeError, OnSanitize, OnSanlogBusy
    <3>2. CASE OnSanlogDone
      <4>1. /\ status' \in {status, "Completed", "Failed"}
            /\ progress' \in {progress, "full", "none"}
            /\ inProgress' \in {inProgress, FALSE}
        BY <3>2 DEF OnSanlogDone
      <4> QED
        BY <2>1, <3>2, <4>1 DEF OnSanlogDone
    <3> QED
      BY <2>3, <3>1, <3>2
  <2>4. CASE OnScan
    <3>1. Head(replies).ctrl \in Handles
      BY <2>4, TakeReply, ReplyFields DEF OnScan, Got, QueuesOK
    <3> QED
      BY <2>1, <2>4, <3>1 DEF OnScan
  <2>5. CASE OnIdentifyError
    <3>1. retry' \in 0..maxIdentifyCmdRetry
      BY <2>5 DEF OnIdentifyError, maxIdentifyCmdRetry
    <3> QED
      BY <2>1, <2>5, <3>1 DEF OnIdentifyError
  <2>6. CASE OnIdentify
    BY <2>1, <2>6 DEF OnIdentify
  <2>7. CASE PollAbsent \/ PollSanitize \/ PollHealth
    BY <2>1, <2>7 DEF PollAbsent, Initialize, PollSanitize, PollHealth
  <2>8. CASE WorkerStep
    <3>1. open' \in SUBSET Handles /\ hwSanitize' \in Sanitizing /\ nvmeEP' = nvmeEP
      BY <2>8
         DEF WorkerStep, RunJob, ScanSucceeds, ScanFails, CommandFails, InfoSucceeds,
             HealthSucceeds, SmartSucceeds, SmartRefused, SanlogSucceeds, SanlogFails,
             SanitizeStarts, SanitizeRejected, SanitizeReplyLost, Sanitizing
    <3> QED
      BY <2>1, <2>8, <3>1 DEF WorkerStep
  <2>9. CASE DriveStep
    BY <2>1, <2>9 DEF DriveStep, SanitizeEnds, Sanitizing
  <2>10. CASE TimerExpires \/ EmEndpoints
    BY <2>1, <2>10 DEF TimerExpires, EmEndpoints, Initialize
  <2>11. CASE \E method \in EraseMethods : Erase(method)
    BY <2>1, <2>11 DEF Erase
  <2>12. CASE SetFaultProperty
    BY <2>1, <2>12 DEF SetFaultProperty, miVars
  <2>13. CASE Restart
    <3>1. retry' \in 0..maxIdentifyCmdRetry
      BY <2>13 DEF Restart, maxIdentifyCmdRetry
    <3> QED
      BY <2>1, <2>13, <3>1 DEF Restart
  <2> QED
    BY <1>2, <2>2, <2>3, <2>4, <2>5, <2>6, <2>7, <2>8, <2>9, <2>10, <2>11, <2>12, <2>13
       DEF Next, Callback
<1> QED
  BY <1>1, <1>2

-----------------------------------------------------------------------------
(* The status.  Only the replies to the health poll and to the SMART log,   *)
(* Entity Manager, D-Bus callers and a restart touch it.                   *)

LEMMA StepStatus == ASSUME TypeOK, [Next]_vars PROVE [StatusNext]_statusVars
<1>0. QueuesOK
  BY DEF TypeOK, QueuesOK
<1>1. CASE OnHealth
  <2>1. Head(replies).functional \in BOOLEAN
    BY <1>0, <1>1, TakeReply, ReplyFields, CommandConstants DEF OnHealth, Got
  <2> QED
    BY <1>1, <2>1 DEF OnHealth, StatusNext
<1>2. CASE OnSmart
  <2>1. Head(replies).reported \in SUBSET Warnings
    BY <1>0, <1>2, TakeReply, ReplyFields, DeviceConstants DEF OnSmart, Got
  <2> QED
    BY <1>2, <2>1 DEF OnSmart, StatusNext
<1>3. CASE EmEndpoints
  BY <1>3 DEF EmEndpoints, StatusNext
<1>4. CASE SetFaultProperty
  BY <1>4 DEF SetFaultProperty, StatusNext
<1>5. CASE Restart
  BY <1>5 DEF Restart, StatusNext
<1>6. CASE \/ OnScanError \/ OnScan \/ OnIdentifyError \/ OnIdentify \/ OnPort
           \/ PollAbsent \/ PollSanitize \/ PollHealth
           \/ OnHealthError \/ OnSmartError
           \/ OnSanitizeError \/ OnSanitize \/ OnSanlogBusy \/ OnSanlogDone
  BY <1>6
     DEF OnScanError, OnScan, OnIdentifyError, OnIdentify, OnPort,
         PollAbsent, PollSanitize, PollHealth, OnHealthError, OnSmartError,
         OnSanitizeError, OnSanitize, OnSanlogBusy, OnSanlogDone
<1>7. CASE \/ WorkerStep \/ DriveStep \/ TimerExpires
           \/ \E method \in EraseMethods : Erase(method)
  BY <1>7 DEF WorkerStep, DriveStep, TimerExpires, Erase
<1>8. CASE UNCHANGED vars
  BY <1>8 DEF vars
<1> QED
  BY <1>1, <1>2, <1>3, <1>4, <1>5, <1>6, <1>7, <1>8 DEF Next, Callback

LEMMA InitTypeOK == Init => TypeOK /\ StatusInit
<1> SUFFICES ASSUME Init PROVE TypeOK
  BY DEF Init
<1>1. jobs \in Seq(Job) /\ replies \in Seq(Reply)
  <2>1. jobs = <<>> /\ replies = <<>>
    BY DEF Init, MiInit
  <2> QED
    BY <2>1
<1>2. retry \in 0..maxIdentifyCmdRetry
  BY DEF Init, maxIdentifyCmdRetry
<1> QED
  BY <1>1, <1>2 DEF Init, MiInit, TypeOK, Sanitizing

\* Every variable of the drive object keeps its type, the retry counter its
\* bound, and every reply that waits is one its callback expects
\* (NVMeDevice.cpp:218-333, 463-741; NVMeMi.cpp:146-925).
THEOREM DeviceTypes == Spec => []TypeOK
<1>1. Init => TypeOK
  BY InitTypeOK
<1>2. TypeOK /\ [Next]_vars => TypeOK'
  BY NextTypeOK
<1> QED
  BY <1>1, <1>2, PTL DEF Spec

\* However polls, scans, sanitize operations, failures and restarts interleave, the
\* failure of the drive that D-Bus shows stays shown while its SMART warnings do not
\* change: every handler moves the status by a step of DriveStatus
\* (NVMeDevice.cpp:335-389, 567-661; NVMeDevice.hpp:144-168).
THEOREM DeviceCriticalStays == Spec => CriticalKept
<1>1. Init => TypeOK
  BY InitTypeOK
<1>2. TypeOK /\ [Next]_vars =>
        [health = "Critical" /\ ~driveFunctional' /\ smartWarning' = smartWarning
         => health' = "Critical"]_statusVars
  BY StepStatus, StepKeepsCritical DEF statusVars
<1> QED
  BY <1>1, <1>2, DeviceTypes, PTL DEF Spec, CriticalKept
=============================================================================
