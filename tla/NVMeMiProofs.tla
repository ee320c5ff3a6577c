---------------------------- MODULE NVMeMiProofs ----------------------------
(***************************************************************************)
(* Lemmas about the command layer of a drive: a command that is issued is  *)
(* in flight, and stays so until a callback takes its reply.               *)
(***************************************************************************)
EXTENDS NVMeMi, TLAPS

(* Sequences as queues: what their range gains and loses.                  *)

LEMMA RangeAppend ==
  ASSUME NEW S, NEW q \in Seq(S), NEW x \in S
  PROVE  Range(Append(q, x)) = Range(q) \cup {x}
<1>1. ASSUME NEW y \in Range(q) PROVE y \in Range(Append(q, x))
  BY <1>1 DEF Range
<1>2. x \in Range(Append(q, x))
  <2>1. Append(q, x)[Len(q) + 1] = x /\ Len(q) + 1 \in DOMAIN Append(q, x)
    OBVIOUS
  <2> QED
    BY <2>1 DEF Range
<1>3. Range(Append(q, x)) \subseteq Range(q) \cup {x}
  BY DEF Range
<1> QED
  BY <1>1, <1>2, <1>3

LEMMA RangeAppendTwice ==
  ASSUME NEW S, NEW q \in Seq(S), NEW x \in S, NEW y \in S
  PROVE  Range(Append(Append(q, x), y)) = Range(q) \cup {x, y}
<1> DEFINE r == Append(q, x)
<1>1. r \in Seq(S) /\ Range(r) = Range(q) \cup {x}
  BY RangeAppend
<1> HIDE DEF r
<1>2. Range(Append(r, y)) = Range(r) \cup {y}
  BY <1>1, RangeAppend
<1> QED
  BY <1>1, <1>2 DEF r

LEMMA RangeHeadTail ==
  ASSUME NEW S, NEW q \in Seq(S), q # <<>>
  PROVE  Range(q) = {Head(q)} \cup Range(Tail(q))
<1>1. ASSUME NEW i \in DOMAIN q PROVE q[i] \in {Head(q)} \cup Range(Tail(q))
  <2>1. CASE i = 1
    BY <2>1
  <2>2. CASE i # 1
    <3>1. i - 1 \in DOMAIN Tail(q) /\ Tail(q)[i - 1] = q[i]
      BY <2>2
    <3> QED
      BY <3>1 DEF Range
  <2> QED
    BY <2>1, <2>2
<1>2. Head(q) \in Range(q)
  BY DEF Range
<1>3. ASSUME NEW i \in DOMAIN Tail(q) PROVE Tail(q)[i] \in Range(q)
  <2>1. i + 1 \in DOMAIN q /\ Tail(q)[i] = q[i + 1]
    OBVIOUS
  <2> QED
    BY <2>1 DEF Range
<1> QED
  BY <1>1, <1>2, <1>3 DEF Range

LEMMA RangeType == ASSUME NEW S, NEW q \in Seq(S) PROVE Range(q) \subseteq S
BY DEF Range

-----------------------------------------------------------------------------
(* The queues of the command layer.                                        *)

QueuesOK == jobs \in Seq(Job) /\ replies \in Seq(Reply)

\* Replies are only ever added at the end, error replies by the main loop.
Extends(q, r) == Len(q) <= Len(r) /\ \A i \in 1..Len(q) : r[i] = q[i]

ErrorsAdded(q, r) == Extends(q, r) /\ \A i \in Len(q)+1..Len(r) : ~r[i].ok

LEMMA ReplyFields ==
  ASSUME NEW x \in Reply
  PROVE  /\ x.ok \in BOOLEAN
         /\ x.cmd \in Commands \cup {"timer"}
         /\ x.cmd = "scan" /\ x.ok => x.ctrl \in Handles
         /\ x.cmd = "health" /\ x.ok => x.functional \in Functional
         /\ x.cmd = "smart" /\ x.ok => x.reported \in Readings \cup {{}}
         /\ x.cmd = "sanlog" /\ x.ok => x.sstat \in Sanitizing
BY DEF Reply, Commands, EndpointCommands, ControllerCommands

LEMMA ErrorIsReply == \A cmd \in Commands : Error(cmd) \in Reply
BY DEF Error, Reply

LEMMA DoneIsReply ==
  \A cmd \in {"identify", "port", "sanitize", "timer"} : Done(cmd) \in Reply
BY DEF Done, Reply

\* A command that is issued is in flight, with or without an endpoint.
LEMMA IssueFlow ==
  ASSUME QueuesOK, NEW rest \in Seq(Reply), NEW request \in Job,
         Issue(rest, request)
  PROVE  /\ QueuesOK'
         /\ Range(jobs) \subseteq Range(jobs')
         /\ Range(jobs') \subseteq Range(jobs) \cup {request}
         /\ Range(rest) \subseteq Range(replies')
         /\ Range(replies') \subseteq Range(rest) \cup {Error(request.cmd)}
         /\ InFlight(request.cmd)'
         /\ ErrorsAdded(rest, replies')
<1> USE DEF ErrorsAdded, Extends
<1>1. CASE nvmeEP
  <2>1. jobs' = Append(jobs, request) /\ replies' = rest
    BY <1>1 DEF Issue
  <2>2. Range(jobs') = Range(jobs) \cup {request}
    BY <2>1, RangeAppend DEF QueuesOK
  <2>3. QueuesOK'
    BY <2>1 DEF QueuesOK
  <2>4. Queued(request.cmd)'
    BY <2>2 DEF Queued
  <2> QED
    BY <2>1, <2>2, <2>3, <2>4 DEF InFlight
<1>2. CASE ~nvmeEP
  <2>1. jobs' = jobs /\ replies' = Append(rest, Error(request.cmd))
    BY <1>2 DEF Issue
  <2>2. Error(request.cmd) \in Reply /\ Error(request.cmd).cmd = request.cmd
    BY ErrorIsReply DEF Job, Error
  <2>3. Range(replies') = Range(rest) \cup {Error(request.cmd)}
    BY <2>1, <2>2, RangeAppend
  <2>6. ErrorsAdded(rest, replies')
    BY <2>1 DEF Error
  <2>4. QueuesOK'
    BY <2>1, <2>2 DEF QueuesOK
  <2>5. Answered(request.cmd)'
    BY <2>2, <2>3 DEF Answered
  <2> QED
    BY <2>1, <2>3, <2>4, <2>5, <2>6 DEF InFlight
<1> QED
  BY <1>1, <1>2

\* Two commands in a row.
LEMMA IssueBothFlow ==
  ASSUME QueuesOK, NEW rest \in Seq(Reply), NEW first \in Job, NEW second \in Job,
         IssueBoth(rest, first, second)
  PROVE  /\ QueuesOK'
         /\ Range(jobs) \subseteq Range(jobs')
         /\ Range(jobs') \subseteq Range(jobs) \cup {first, second}
         /\ Range(rest) \subseteq Range(replies')
         /\ Range(replies') \subseteq Range(rest) \cup {Error(first.cmd), Error(second.cmd)}
         /\ InFlight(second.cmd)'
         /\ ErrorsAdded(rest, replies')
<1> USE DEF ErrorsAdded, Extends
<1>1. CASE nvmeEP
  <2>1. jobs' = Append(Append(jobs, first), second) /\ replies' = rest
    BY <1>1 DEF IssueBoth
  <2>2. Range(jobs') = Range(jobs) \cup {first, second}
    BY <2>1, RangeAppendTwice DEF QueuesOK
  <2>3. QueuesOK'
    BY <2>1 DEF QueuesOK
  <2>4. Queued(second.cmd)'
    BY <2>2 DEF Queued
  <2> QED
    BY <2>1, <2>2, <2>3, <2>4 DEF InFlight
<1>2. CASE ~nvmeEP
  <2>1. /\ jobs' = jobs
        /\ replies' = Append(Append(rest, Error(first.cmd)), Error(second.cmd))
    BY <1>2 DEF IssueBoth
  <2>2. Error(first.cmd) \in Reply /\ Error(second.cmd) \in Reply
    BY ErrorIsReply DEF Job
  <2>3. Range(replies') = Range(rest) \cup {Error(first.cmd), Error(second.cmd)}
    BY <2>1, <2>2, RangeAppendTwice
  <2>4. QueuesOK'
    BY <2>1, <2>2 DEF QueuesOK
  <2>5. Answered(second.cmd)'
    <3>1. Error(second.cmd).cmd = second.cmd
      BY DEF Error
    <3> QED
      BY <2>3, <3>1 DEF Answered
  <2>6. ErrorsAdded(rest, replies')
    BY <2>1 DEF Error
  <2> QED
    BY <2>1, <2>3, <2>4, <2>5, <2>6 DEF InFlight
<1> QED
  BY <1>1, <1>2

\* What a closure that the Worker runs does to the queues: the command moves
\* from one to the other, and nothing is lost.
JobAnswered ==
  /\ QueuesOK'
  /\ jobs # <<>>
  /\ jobs' = Tail(jobs)
  /\ Range(jobs) = {Head(jobs)} \cup Range(jobs')
  /\ Range(replies) \subseteq Range(replies')
  /\ \A x \in Range(replies') \ Range(replies) : x.cmd = Head(jobs).cmd
  /\ Extends(replies, replies') /\ Len(replies) < Len(replies')
  /\ \A i \in Len(replies)+1..Len(replies') : replies'[i].cmd = Head(jobs).cmd

LEMMA OneAnswer ==
  ASSUME QueuesOK, jobs # <<>>, jobs' = Tail(jobs),
         NEW x \in Reply, x.cmd = Head(jobs).cmd, replies' = Append(replies, x)
  PROVE  JobAnswered
<1>1. Range(replies') = Range(replies) \cup {x}
  BY RangeAppend DEF QueuesOK
<1>2. Range(jobs) = {Head(jobs)} \cup Range(jobs')
  BY RangeHeadTail DEF QueuesOK
<1>3. QueuesOK'
  BY DEF QueuesOK
<1>4. /\ Extends(replies, replies') /\ Len(replies) < Len(replies')
      /\ \A i \in Len(replies)+1..Len(replies') : replies'[i].cmd = Head(jobs).cmd
  BY DEF Extends, QueuesOK
<1> QED
  BY <1>1, <1>2, <1>3, <1>4 DEF JobAnswered

LEMMA TwoAnswers ==
  ASSUME QueuesOK, jobs # <<>>, jobs' = Tail(jobs),
         NEW x \in Reply, NEW y \in Reply,
         x.cmd = Head(jobs).cmd, y.cmd = Head(jobs).cmd,
         replies' = Append(Append(replies, x), y)
  PROVE  JobAnswered
<1>1. Append(replies, x) \in Seq(Reply)
  BY DEF QueuesOK
<1>2. Range(replies') = Range(replies) \cup {x, y}
  BY RangeAppendTwice DEF QueuesOK
<1>3. Range(jobs) = {Head(jobs)} \cup Range(jobs')
  BY RangeHeadTail DEF QueuesOK
<1>4. QueuesOK'
  BY <1>1 DEF QueuesOK
<1>5. /\ Extends(replies, replies') /\ Len(replies) < Len(replies')
      /\ \A i \in Len(replies)+1..Len(replies') : replies'[i].cmd = Head(jobs).cmd
  BY DEF Extends, QueuesOK
<1> QED
  BY <1>2, <1>3, <1>4, <1>5 DEF JobAnswered

\* Every way to run a closure answers it.
LEMMA RunJobAnswers ==
  ASSUME QueuesOK, hwSanitize \in Sanitizing, RunJob
  PROVE  JobAnswered
<1> USE DEF Run, Answer
<1>1. ASSUME NEW handle \in Handles, ScanSucceeds(handle)
      PROVE  JobAnswered
  <2>1. [cmd |-> "scan", ok |-> TRUE, ctrl |-> handle] \in Reply
    BY DEF Reply
  <2> QED
    BY <1>1, <2>1, OneAnswer DEF ScanSucceeds
<1>2. ASSUME NEW cmd \in Commands,
             Run(cmd), replies' = Append(replies, Error(cmd))
      PROVE  JobAnswered
  BY <1>2, ErrorIsReply, OneAnswer DEF Error
<1>3. ASSUME NEW cmd \in {"identify", "port", "sanitize"},
             Run(cmd), replies' = Append(replies, Done(cmd))
      PROVE  JobAnswered
  BY <1>3, DoneIsReply, OneAnswer DEF Done
<1>4. ASSUME NEW functional \in Functional, HealthSucceeds(functional)
      PROVE  JobAnswered
  <2>1. [cmd |-> "health", ok |-> TRUE, functional |-> functional] \in Reply
    BY DEF Reply
  <2> QED
    BY <1>4, <2>1, OneAnswer DEF HealthSucceeds
<1>5. ASSUME NEW reported \in Readings, SmartSucceeds(reported)
      PROVE  JobAnswered
  <2>1. SmartLog(reported) \in Reply /\ SmartLog(reported).cmd = "smart"
    BY DEF Reply, SmartLog
  <2> QED
    BY <1>5, <2>1, OneAnswer DEF SmartSucceeds
<1>6. CASE SmartRefused
  <2>1. SmartLog({}) \in Reply /\ SmartLog({}).cmd = "smart"
    BY DEF Reply, SmartLog
  <2>2. Error("smart") \in Reply /\ Error("smart").cmd = "smart"
    BY ErrorIsReply DEF Error, Commands, ControllerCommands
  <2> QED
    BY <1>6, <2>1, <2>2, TwoAnswers DEF SmartRefused
<1>7. ASSUME NEW sstat \in Sanitizing,
             Run("sanlog"), replies' = Append(replies, SanitizeLog(sstat))
      PROVE  JobAnswered
  <2>1. SanitizeLog(sstat) \in Reply /\ SanitizeLog(sstat).cmd = "sanlog"
    BY DEF Reply, SanitizeLog
  <2> QED
    BY <1>7, <2>1, OneAnswer
<1> USE DEF Commands, EndpointCommands, ControllerCommands, Sanitizing
<1>8. CASE ScanFails
  BY <1>8, <1>2 DEF ScanFails
<1>9. ASSUME NEW cmd \in {"identify", "port", "health", "smart"},
             (InfoSucceeds(cmd) /\ cmd \in {"identify", "port"}) \/ CommandFails(cmd)
      PROVE  JobAnswered
  BY <1>9, <1>2, <1>3 DEF InfoSucceeds, CommandFails
<1>10. CASE SanlogSucceeds \/ SanlogFails
  BY <1>10, <1>7 DEF SanlogSucceeds, SanlogFails
<1>11. CASE SanitizeStarts \/ SanitizeRejected \/ SanitizeReplyLost
  BY <1>11, <1>2, <1>3 DEF SanitizeStarts, SanitizeRejected, SanitizeReplyLost
<1> QED
  BY <1>1, <1>4, <1>5, <1>6, <1>8, <1>9, <1>10, <1>11 DEF RunJob

=============================================================================
