----------------------------- MODULE MiCommands -----------------------------
(***************************************************************************)
(* The commands of NVMeMi that module NVMeMi leaves out or abstracts: log  *)
(* pages of every kind, raw transfers, firmware commit and security send   *)
(* and receive, for one drive.  The closures of all but firmware commit    *)
(* run on the shared Worker's thread, that of firmware commit in the main  *)
(* loop; replies are posted to the main loop.  An exchange with the drive  *)
(* begins in one step and ends in a later one, so that the threads overlap *)
(* as they do.                                                             *)
(*                                                                         *)
(* A call is named by its number, a request by its kind.                   *)
(***************************************************************************)
EXTENDS Naturals, Sequences

CONSTANTS
  Requests,             \* the kinds of calls that are made
  Errnos,               \* how an exchange fails
  MaxCalls              \* bound: calls made

\* Of adminGetLogPage(): the kinds of log that one exchange reads, among them
\* the two whose rc is a shadowed variable, telemetry by lid and lsp, and an lid
\* that is not known.
ShadowedLogs == {"reservation log", "sanitize log"}
TwoPartLogs  == {"host telemetry", "controller telemetry"}
InvalidLogs  == {"host telemetry bad lsp", "unknown log"}
LogRequests  ==
  {"log", "create host telemetry"} \cup ShadowedLogs \cup TwoPartLogs \cup InvalidLogs

Security == {"security send", "security receive"}

KnownRequests ==
  LogRequests \cup Security \cup {"security receive too long", "xfer", "fw commit"}

ASSUME CallConstants ==
  /\ Requests \subseteq KnownRequests
  /\ Errnos \cap {"none", "EINVAL", "done", "refused", "excess", "unknown",
                  "no_such_device", "bad_message", "invalid_argument", "protocol_error"} = {}
  /\ MaxCalls \in Nat

VARIABLES
  nvmeEP,               \* whether there is an endpoint
  calls,                \* the requests made, in order
  jobs,                 \* the calls whose closures wait for the Worker
  running,              \* the call the Worker runs, or 0
  left,                 \* its exchanges to come
  timeout, saved,       \* of the endpoint; adminXfer()'s local copy
  errno,                \* of the Worker's thread
  mainLoop,             \* posted to the main loop: replies and commits
  committing,           \* the call that firmware commit blocks the main loop for, or 0
  answers,              \* what each call's callback has been given, in order
  outcome,              \* how each call ended on the drive, for the properties
  failures              \* errnos the Worker's thread has seen, for the properties

workerVars == <<running, left, timeout, saved, errno, outcome, failures>>
vars == <<nvmeEP, calls, jobs, mainLoop, committing, answers, workerVars>>

Call == 1..MaxCalls

\* A callback's arguments: the error, and whether the rest is what the drive
\* answered, a buffer the drive has not filled, or nothing.
Reply(err, data) == [err |-> err, data |-> data]
Posted(call, reply) == [call |-> call, commit |-> FALSE, reply |-> reply]

Failed(err) == Reply(err, "nothing")

Init ==
  /\ nvmeEP \in BOOLEAN
  /\ calls = <<>> /\ jobs = <<>> /\ mainLoop = <<>>
  /\ running = 0 /\ left = 0 /\ committing = 0
  /\ timeout = "default" /\ saved = "default"
  /\ errno = "none"
  /\ answers = [call \in Call |-> <<>>]
  /\ outcome = [call \in Call |-> "unknown"]
  /\ failures = {}

-----------------------------------------------------------------------------
(* Calls, made from handlers of the main loop.                             *)

NewCall == Len(calls) + 1

MakeCall(request) ==
  /\ Len(calls) < MaxCalls
  /\ committing = 0
  /\ calls' = Append(calls, request)

\* Security commands do not look at nvmeEP; without it there is no controller
\* to send them to.
CallWithoutEndpoint(request) ==
  /\ ~nvmeEP
  /\ request \notin Security \cup {"security receive too long"}
  /\ MakeCall(request)
  /\ mainLoop' = Append(mainLoop, Posted(NewCall, Failed("no_such_device")))
  /\ UNCHANGED <<nvmeEP, jobs, committing, answers, workerVars>>

CallWorker(request) ==
  /\ nvmeEP
  /\ request \notin {"fw commit", "security receive too long"}
  /\ MakeCall(request)
  /\ jobs' = Append(jobs, NewCall)
  /\ UNCHANGED <<nvmeEP, mainLoop, committing, answers, workerVars>>

adminFwCommit ==
  /\ nvmeEP
  /\ MakeCall("fw commit")
  /\ mainLoop' = Append(mainLoop, [call |-> NewCall, commit |-> TRUE])
  /\ UNCHANGED <<nvmeEP, jobs, committing, answers, workerVars>>

\* The callback is called before adminSecurityReceive() returns.
ReceiveTooLong ==
  /\ MakeCall("security receive too long")
  /\ answers' = [answers EXCEPT ![NewCall] = Append(@, Failed("invalid_argument"))]
  /\ UNCHANGED <<nvmeEP, jobs, mainLoop, committing, workerVars>>

MakesCall ==
  \/ \E request \in Requests : CallWithoutEndpoint(request) \/ CallWorker(request)
  \/ "fw commit" \in Requests /\ adminFwCommit
  \/ "security receive too long" \in Requests /\ ReceiveTooLong

-----------------------------------------------------------------------------
(* The Worker.                                                             *)

Exchanges(request) ==
  CASE request \in TwoPartLogs -> 2
    [] request \in InvalidLogs -> 0
    [] OTHER -> 1

StartJob ==
  /\ running = 0
  /\ jobs # <<>>
  /\ running' = Head(jobs)
  /\ jobs' = Tail(jobs)
  /\ left' = Exchanges(calls[running'])
  /\ IF calls[running'] = "xfer" THEN saved' = timeout /\ timeout' = "own"
                                 ELSE UNCHANGED <<saved, timeout>>
  /\ UNCHANGED <<nvmeEP, calls, mainLoop, committing, answers, errno, outcome, failures>>

\* rc < 0: the exchange failed, or was not made.
Negative(rc) == rc \in Errnos \cup {"EINVAL"}

\* Mutant: a log that cannot be asked for is not answered.
LogRepliesNotInvalid(request, rc, lastErrno) ==
  CASE rc = "done" \/ request \in ShadowedLogs ->
         <<Reply("none", IF rc = "done" THEN "answer" ELSE "unfilled")>>
    [] rc = "EINVAL" -> <<>>
    [] rc \in Errnos /\ request \notin ShadowedLogs -> <<Failed(lastErrno)>>
    [] rc = "refused" /\ request \notin ShadowedLogs ->
         <<Failed("bad_message"), Reply("none", "unfilled")>>

\* rc > 0 has no return after its reply: the success reply follows.  A
\* shadowed rc is success.
LogReplies(request, rc, lastErrno) ==
  CASE rc = "done" \/ request \in ShadowedLogs ->
         <<Reply("none", IF rc = "done" THEN "answer" ELSE "unfilled")>>
    [] Negative(rc) /\ request \notin ShadowedLogs -> <<Failed(lastErrno)>>
    [] rc = "refused" /\ request \notin ShadowedLogs ->
         <<Failed("bad_message"), Reply("none", "unfilled")>>

\* Mutant: rc is not looked at.
XferRepliesUnchecked(rc, lastErrno) == <<Reply("none", "answer")>>

\* Only rc < 0 is an error: what the drive refuses is in its answer.
XferReplies(rc, lastErrno) ==
  IF Negative(rc) THEN <<Failed(lastErrno)>> ELSE <<Reply("none", "answer")>>

\* A receive hands its buffer on whatever the status is: all zeros, unless the
\* drive has sent data.  A send has no data but the status.
SecurityData(request, rc) ==
  CASE rc = "done" -> "answer"
    [] request = "security receive" /\ rc # "done" -> "unfilled"
    [] request = "security send" /\ rc # "done" -> IF Negative(rc) THEN "nothing" ELSE "answer"

\* Mutant: no return after the reply to excess data.
SecurityRepliesOn(request, rc, lastErrno) ==
  LET reply == Reply(lastErrno, SecurityData(request, rc)) IN
  IF rc = "excess" THEN <<Failed("protocol_error"), reply>> ELSE <<reply>>

\* The error is errno whatever the status, but for a receive whose data are
\* too long.
SecurityReplies(request, rc, lastErrno) ==
  IF rc = "excess" THEN <<Failed("protocol_error")>>
                   ELSE <<Reply(lastErrno, SecurityData(request, rc))>>

\* The replies of the closure of `request`, when its last exchange gave rc and
\* left lastErrno.
Replies(request, rc, lastErrno) ==
  CASE request \in LogRequests -> LogReplies(request, rc, lastErrno)
    [] request = "xfer" -> XferReplies(rc, lastErrno)
    [] request \in Security -> SecurityReplies(request, rc, lastErrno)

\* Mutant: adminGetLogPage() does not set errno to EINVAL.
ErrnoAfterDrive(rc) == IF rc \in Errnos THEN rc ELSE errno

\* An exchange that fails sets errno; none resets it.
ErrnoAfter(rc) == IF Negative(rc) THEN rc ELSE errno

\* Mutant: a transfer that failed returns before it reverts the timeout.
RevertUnlessFailed(rc) ==
  IF calls[running] = "xfer" /\ ~Negative(rc) THEN timeout' = saved ELSE UNCHANGED timeout

\* adminXfer() reverts the timeout, whatever rc is.
Revert(rc) ==
  IF calls[running] = "xfer" THEN timeout' = saved ELSE UNCHANGED timeout

\* Mutant: security commands call their callbacks on the Worker's thread.
PostRepliesAtOnce(call, replies) ==
  IF calls[call] \in Security
  THEN /\ answers' = [answers EXCEPT ![call] = @ \o replies]
       /\ UNCHANGED mainLoop
  ELSE /\ mainLoop' = mainLoop \o [k \in DOMAIN replies |-> Posted(call, replies[k])]
       /\ UNCHANGED answers

PostReplies(call, replies) ==
  /\ mainLoop' = mainLoop \o [k \in DOMAIN replies |-> Posted(call, replies[k])]
  /\ UNCHANGED answers

\* The closure ends with rc, the result of its last exchange.
Finish(rc) ==
  /\ errno' = ErrnoAfter(rc)
  /\ Revert(rc)
  /\ PostReplies(running, Replies(calls[running], rc, errno'))
  /\ outcome' = [outcome EXCEPT ![running] = rc]
  /\ failures' = failures \cup {errno'}
  /\ running' = 0
  /\ left' = 0
  /\ UNCHANGED <<nvmeEP, calls, jobs, committing, saved>>

\* No exchange for a log that cannot be asked for.
RejectLog ==
  /\ running # 0
  /\ calls[running] \in InvalidLogs
  /\ Finish("EINVAL")

\* The header of a telemetry log was read, and the whole log is asked for.
NextExchange ==
  /\ left > 1
  /\ left' = left - 1
  /\ UNCHANGED <<nvmeEP, calls, jobs, mainLoop, committing, answers, running, timeout, saved,
                 errno, outcome, failures>>

LastExchange(rc) ==
  /\ left > 0
  /\ rc = "done" => left = 1
  /\ rc = "excess" => calls[running] = "security receive"
  /\ Finish(rc)

\* The Worker is shared: a command of another drive fails on its thread.
OtherDriveFails ==
  /\ running = 0
  /\ errno' \in Errnos
  /\ failures' = failures \cup {errno'}
  /\ UNCHANGED <<nvmeEP, calls, jobs, mainLoop, committing, answers, running, left, timeout, saved,
                 outcome>>

WorkerStep ==
  \/ StartJob
  \/ RejectLog
  \/ NextExchange
  \/ \E rc \in Errnos \cup {"done", "refused", "excess"} : LastExchange(rc)

-----------------------------------------------------------------------------
(* The main loop.                                                          *)

\* The next callback.
Deliver ==
  /\ committing = 0
  /\ mainLoop # <<>>
  /\ ~Head(mainLoop).commit
  /\ mainLoop' = Tail(mainLoop)
  /\ answers' = [answers EXCEPT ![Head(mainLoop).call] = Append(@, Head(mainLoop).reply)]
  /\ UNCHANGED <<nvmeEP, calls, jobs, committing, workerVars>>

\* The closure of adminFwCommit(): it talks to the drive beside the Worker,
\* without mctpMtx.
CommitStarts ==
  /\ committing = 0
  /\ mainLoop # <<>>
  /\ Head(mainLoop).commit
  /\ mainLoop' = Tail(mainLoop)
  /\ committing' = Head(mainLoop).call
  /\ UNCHANGED <<nvmeEP, calls, jobs, answers, workerVars>>

\* "done" stands for the four statuses that are taken as success.
CommitReply(rc) ==
  CASE rc = "done" -> Reply("none", "answer")
    [] rc = "refused" -> Reply("bad_message", "answer")
    [] OTHER -> Failed(rc)

CommitEnds(rc) ==
  /\ committing # 0
  /\ mainLoop' = Append(mainLoop, Posted(committing, CommitReply(rc)))
  /\ outcome' = [outcome EXCEPT ![committing] = rc]
  /\ committing' = 0
  /\ UNCHANGED <<nvmeEP, calls, jobs, answers, running, left, timeout, saved, errno, failures>>

MainStep ==
  \/ Deliver
  \/ CommitStarts
  \/ \E rc \in Errnos \cup {"done", "refused"} : CommitEnds(rc)

Next == MakesCall \/ WorkerStep \/ OtherDriveFails \/ MainStep

Spec == Init /\ [][Next]_vars

\* Both threads run, and an exchange ends, by its timeout if not otherwise.
\* That the Worker's thread wakes up for a job is in Worker.
FairSpec == Spec /\ WF_vars(WorkerStep) /\ WF_vars(MainStep)

-----------------------------------------------------------------------------
Outcomes == Errnos \cup {"done", "refused", "excess", "EINVAL", "unknown"}

ReplySet ==
  [err : Errnos \cup {"none", "EINVAL", "no_such_device", "bad_message", "invalid_argument",
                      "protocol_error"},
   data : {"answer", "unfilled", "nothing"}]

Posting ==
  [call : Call, commit : {FALSE}, reply : ReplySet] \cup [call : Call, commit : {TRUE}]

TypeOK ==
  /\ nvmeEP \in BOOLEAN
  /\ calls \in Seq(Requests) /\ Len(calls) <= MaxCalls
  /\ jobs \in Seq(Call)
  /\ running \in 0..MaxCalls /\ left \in 0..2
  /\ timeout \in {"default", "own"} /\ saved \in {"default", "own"}
  /\ errno \in Errnos \cup {"none", "EINVAL"}
  /\ mainLoop \in Seq(Posting)
  /\ committing \in 0..MaxCalls
  /\ answers \in [Call -> Seq(ReplySet)]
  /\ outcome \in [Call -> Outcomes]
  /\ failures \subseteq Errnos \cup {"none", "EINVAL"}

\* The endpoint has its default timeout but while a transfer runs, which then
\* holds the default to restore (NVMeMi.cpp:964-972), whatever transfer ran
\* before and however it ended.
TimeoutRestored ==
  timeout = "default" \/ (running # 0 /\ calls[running] = "xfer" /\ saved = "default")

\* Where a call is: waiting for or running on one of the threads, or answered or
\* about to be.  A call is at one place once, whatever thread runs it and however
\* it fails, but for a log page that the drive refuses: that one is answered
\* twice, first with the error (NVMeMi.cpp:894-912).
Places(call) ==
  {<<"jobs", k>> : k \in {k \in DOMAIN jobs : jobs[k] = call}} \cup
  {<<"main", k>> : k \in {k \in DOMAIN mainLoop : mainLoop[k].call = call}} \cup
  {<<"answer", k>> : k \in DOMAIN answers[call]} \cup
  {<<thread, 0>> : thread \in {thread \in {"worker", "commit"} :
                                call = IF thread = "worker" THEN running ELSE committing}}

AnsweredOnce ==
  \A call \in DOMAIN calls :
    LET places == Places(call) IN
    \/ \E place \in places : places = {place}
    \/ /\ calls[call] \in LogRequests \ ShadowedLogs
       /\ outcome[call] = "refused"
       /\ \E first, second \in places : first # second /\ places = {first, second}
       /\ answers[call] # <<>> => answers[call][1] = Failed("bad_message")

\* What is true of the one reply to a request that ended with rc.
Truthful(reply, request, rc) ==
  /\ reply.err = "none" =>
       \/ rc = "done" \/ request \in ShadowedLogs
       \/ rc = "refused" /\ request \in Security \cup {"xfer"}
  /\ reply.data = "answer" =>
       rc = "done" \/ (rc = "refused" /\ request \in {"security send", "xfer", "fw commit"})
  /\ reply.data = "unfilled" =>
       \/ request = "security receive" /\ (Negative(rc) \/ rc = "refused")
       \/ request \in ShadowedLogs /\ reply.err = "none"
  /\ rc = "done" =>
       reply.data = "answer" /\ (request \notin Security => reply.err = "none")

\* No failure is shown as success and no buffer as the drive's answer that the
\* drive has not filled, with these exceptions (NVMeMi.cpp:836-912, 973-990,
\* 1103-1107, 1134-1164): the reservation and sanitize logs, and the second answer to
\* a refused log page, are successes without data; a security command or a raw
\* transfer that the drive refuses may be shown as success, with the status beside
\* it; and a security receive that failed or was refused shows an unfilled buffer,
\* for a refusal with errno 0 as success.
SuccessIsReal ==
  \A call \in DOMAIN calls : \A k \in DOMAIN answers[call] :
    LET reply == answers[call][k] IN
    \/ Truthful(reply, calls[call], outcome[call])
    \/ /\ reply = Reply("none", "unfilled") /\ k = 2
       /\ calls[call] \in LogRequests \ ShadowedLogs /\ outcome[call] = "refused"

\* An errno in a reply is why the call failed.  Security commands alone show one
\* that they do not own: a command that failed before them, of any drive, has left
\* it on the Worker's thread.
Owned(reply, request, rc, seen) ==
  reply.err \in Errnos \cup {"EINVAL"} =>
    \/ rc = reply.err
    \/ request \in Security /\ rc \in {"done", "refused"} /\ reply.err \in seen

Owns(call, reply) == Owned(reply, calls[call], outcome[call], failures)

\* No answer blames a call for what another one met, although errno is read after
\* the exchange and kept by the thread (NVMeMi.cpp:888-891, 979-982, 1103-1107,
\* 1159-1165).
ErrnoIsOwn ==
  \A call \in DOMAIN calls : \A k \in DOMAIN answers[call] : Owns(call, answers[call][k])

\* Why it holds (CallsPending): the calls that wait for the Worker or run there are
\* of its kinds, have no outcome yet and wait at one place, so do the commits, and
\* the replies that wait own their errnos.
OnWorker(call) ==
  call \in DOMAIN calls /\ calls[call] \notin {"fw commit", "security receive too long"}

Commits(call) == call \in DOMAIN calls /\ calls[call] = "fw commit"

PendingJobs == {call \in Call : OnWorker(call) /\ outcome[call] = "unknown" /\ call # running}

OwnPostings ==
  {x \in Posting :
     /\ x.call \in DOMAIN calls
     /\ x.commit => Commits(x.call) /\ outcome[x.call] = "unknown" /\ x.call # committing
     /\ ~x.commit => Owns(x.call, x.reply)}

EachOnce(queue) == \A i, j \in DOMAIN queue : queue[i] = queue[j] => i = j

CommitsOnce(queue) ==
  \A i, j \in DOMAIN queue :
    queue[i].commit /\ queue[j].commit /\ queue[i].call = queue[j].call => i = j

CallsPending ==
  /\ jobs \in Seq(PendingJobs)
  /\ EachOnce(jobs)
  /\ running # 0 => OnWorker(running) /\ outcome[running] = "unknown"
  /\ mainLoop \in Seq(OwnPostings)
  /\ CommitsOnce(mainLoop)
  /\ committing # 0 => Commits(committing) /\ outcome[committing] = "unknown"
  /\ \A call \in Call \ DOMAIN calls : outcome[call] = "unknown" /\ answers[call] = <<>>

ErrnoKnown == errno = "none" \/ errno \in failures

WorkerKnown == saved = "default" /\ (running = 0 => left = 0)

\* They are inductive together.
CallsInv == TypeOK /\ TimeoutRestored /\ WorkerKnown /\ ErrnoIsOwn /\ CallsPending /\ ErrnoKnown

\* Why each call is answered once and truly (Stages): it waits or runs, without a
\* reply, or all its replies are posted or given, in their order.
JobAt(queue, call) == \E k \in DOMAIN queue : queue[k] = call
CommitAt(queue, call) == \E k \in DOMAIN queue : queue[k].commit /\ queue[k].call = call

Waits(call) ==
  JobAt(jobs, call) \/ running = call \/ committing = call \/ CommitAt(mainLoop, call)

RepliesTo(x, call) == x.call = call /\ ~x.commit

NoneAt(queue, call) == \A k \in DOMAIN queue : ~RepliesTo(queue[k], call)

OnlyAt(queue, call, x) ==
  \E i \in DOMAIN queue :
    /\ queue[i] = x
    /\ \A k \in DOMAIN queue : RepliesTo(queue[k], call) => k = i

PairAt(queue, call, x, y) ==
  \E i, j \in DOMAIN queue :
    /\ i < j /\ queue[i] = x /\ queue[j] = y
    /\ \A k \in DOMAIN queue : RepliesTo(queue[k], call) => k = i \/ k = j

HasOne(call, reply) ==
  /\ Truthful(reply, calls[call], outcome[call])
  /\ \/ answers[call] = <<>> /\ OnlyAt(mainLoop, call, Posted(call, reply))
     \/ answers[call] = <<reply>> /\ NoneAt(mainLoop, call)

HasTwo(call, first, second) ==
  /\ calls[call] \in LogRequests \ ShadowedLogs
  /\ outcome[call] = "refused"
  /\ \/ answers[call] = <<>>
        /\ PairAt(mainLoop, call, Posted(call, first), Posted(call, second))
     \/ answers[call] = <<first>> /\ OnlyAt(mainLoop, call, Posted(call, second))
     \/ answers[call] = <<first, second>> /\ NoneAt(mainLoop, call)

Stage(call) ==
  \/ Waits(call) /\ answers[call] = <<>> /\ NoneAt(mainLoop, call)
  \/ ~Waits(call) /\ \E reply \in ReplySet : HasOne(call, reply)
  \/ ~Waits(call) /\ HasTwo(call, Failed("bad_message"), Reply("none", "unfilled"))

Stages == \A call \in DOMAIN calls : Stage(call)

\* The callbacks of the calls that the Worker runs come in the order of the calls.
ViaWorker(call) == nvmeEP /\ OnWorker(call)

InOrder ==
  \A later \in DOMAIN calls : \A earlier \in 1..later - 1 :
    ViaWorker(earlier) /\ ViaWorker(later) /\ answers[later] # <<>> => answers[earlier] # <<>>

\* Why they do (Ordered): jobs, postings and answers follow the order of the calls.
WorkerCalls == {call \in DOMAIN calls : OnWorker(call)}

Due(call) == JobAt(jobs, call) \/ running = call

PostedFor(queue, call) == \E k \in DOMAIN queue : queue[k].call = call

PostedInOrder(queue, set) ==
  \A i, j \in DOMAIN queue :
    i < j /\ queue[i].call \in set /\ queue[j].call \in set => queue[i].call <= queue[j].call

Ordered ==
  nvmeEP =>
    /\ \A i, j \in DOMAIN jobs : i < j => jobs[i] < jobs[j]
    /\ running # 0 => \A k \in DOMAIN jobs : running < jobs[k]
    /\ PostedInOrder(mainLoop, WorkerCalls)
    /\ \A one, other \in WorkerCalls :
         /\ Due(other) /\ (PostedFor(mainLoop, one) \/ answers[one] # <<>>) => one < other
         /\ PostedFor(mainLoop, other) /\ answers[one] # <<>> => one <= other

\* The inductive invariant.
IInv == CallsInv /\ Stages /\ Ordered

\* Every call is answered, also while firmware commits block the main loop
\* (under FairSpec).
EveryCallAnswered ==
  \A call \in Call : call \in DOMAIN calls ~> answers[call] # <<>>
=============================================================================
