-------------------------- MODULE MiCommandsProofs --------------------------
(***************************************************************************)
(* Proofs about the commands, for any number of calls and any way in which *)
(* exchanges fail: IInv is inductive.  Steps that make a call keep what    *)
(* CallKept says, steps of the threads what OutcomesGrow says; the rest is *)
(* about the queues.                                                       *)
(***************************************************************************)
EXTENDS MiCommands, SequenceTheorems, TLAPS

(* Queues by their elements.                                               *)

LEMMA Appended ==
  ASSUME NEW S, NEW q \in Seq(S), NEW x \in S
  PROVE  /\ Append(q, x) \in Seq(S)
         /\ DOMAIN Append(q, x) = 1..Len(q) + 1
         /\ Len(Append(q, x)) = Len(q) + 1
         /\ \A i \in 1..Len(q) + 1 : Append(q, x)[i] = IF i = Len(q) + 1 THEN x ELSE q[i]
BY AppendProperties

LEMMA Taken ==
  ASSUME NEW S, NEW q \in Seq(S), q # <<>>
  PROVE  /\ Tail(q) \in Seq(S)
         /\ DOMAIN Tail(q) = 1..Len(q) - 1
         /\ Len(q) \in Nat /\ Len(q) >= 1
         /\ Head(q) = q[1] /\ Head(q) \in S /\ 1 \in DOMAIN q
         /\ \A i \in 1..Len(q) - 1 : Tail(q)[i] = q[i + 1] /\ i + 1 \in DOMAIN q
<1>1. Len(q) \in Nat /\ Len(q) >= 1 /\ DOMAIN q = 1..Len(q)
  BY EmptySeq
<1> QED
  BY <1>1, HeadTailProperties

LEMMA Longer ==
  ASSUME NEW S, NEW q \in Seq(S), NEW x \in S, NEW r, r = Append(q, x)
  PROVE  /\ Len(q) \in Nat /\ DOMAIN q = 1..Len(q)
         /\ DOMAIN r = 1..Len(q) + 1
         /\ r[Len(q) + 1] = x
         /\ \A i \in 1..Len(q) : r[i] = q[i]
         /\ \A i \in 1..Len(q) + 1 : i = Len(q) + 1 \/ i \in 1..Len(q)
<1>1. Len(q) \in Nat /\ DOMAIN q = 1..Len(q)
  OBVIOUS
<1>2. \A i \in 1..Len(q) + 1 : i = Len(q) + 1 \/ i \in 1..Len(q)
  BY <1>1
<1> QED
  BY <1>1, <1>2, Appended

LEMMA OnceLonger ==
  ASSUME NEW S, NEW q \in Seq(S), NEW x \in S, NEW r, r = Append(q, x),
         EachOnce(q), \A k \in DOMAIN q : q[k] # x
  PROVE  EachOnce(r)
<1>1. SUFFICES ASSUME NEW i \in DOMAIN r, NEW j \in DOMAIN r, r[i] = r[j] PROVE i = j
  BY DEF EachOnce
<1>2. CASE i \in DOMAIN q /\ j \in DOMAIN q
  <2>1. r[i] = q[i] /\ r[j] = q[j]
    BY <1>2, Longer
  <2> QED
    BY <2>1, <1>1, <1>2 DEF EachOnce
<1>3. CASE i = Len(q) + 1 \/ j = Len(q) + 1
  BY <1>1, <1>3, Longer
<1> QED
  BY <1>2, <1>3, Longer

LEMMA CommitsLonger ==
  ASSUME NEW S, NEW q \in Seq(S), NEW x \in S, NEW r, r = Append(q, x),
         CommitsOnce(q), x.commit => \A k \in DOMAIN q : q[k].call # x.call
  PROVE  CommitsOnce(r)
<1>1. SUFFICES ASSUME NEW i \in DOMAIN r, NEW j \in DOMAIN r,
                      r[i].commit, r[j].commit, r[i].call = r[j].call
               PROVE  i = j
  BY DEF CommitsOnce
<1>2. CASE i \in DOMAIN q /\ j \in DOMAIN q
  <2>1. r[i] = q[i] /\ r[j] = q[j]
    BY <1>2, Longer
  <2> QED
    BY <2>1, <1>1, <1>2 DEF CommitsOnce
<1>3. CASE i = Len(q) + 1 \/ j = Len(q) + 1
  BY <1>1, <1>3, Longer
<1> QED
  BY <1>2, <1>3, Longer

LEMMA OnceShorter ==
  ASSUME NEW S, NEW q \in Seq(S), q # <<>>, NEW r, r = Tail(q), EachOnce(q)
  PROVE  EachOnce(r) /\ \A k \in DOMAIN r : r[k] # Head(q)
<1>1. /\ Len(q) \in Nat /\ Len(q) >= 1 /\ DOMAIN q = 1..Len(q)
      /\ DOMAIN r = 1..Len(q) - 1 /\ Head(q) = q[1]
      /\ \A i \in 1..Len(q) - 1 : r[i] = q[i + 1]
  BY Taken
<1>2. ASSUME NEW i \in DOMAIN r, NEW j \in DOMAIN r, r[i] = r[j] PROVE i = j
  <2>1. i + 1 \in DOMAIN q /\ j + 1 \in DOMAIN q /\ q[i + 1] = q[j + 1]
    BY <1>1, <1>2
  <2>2. i + 1 = j + 1
    BY <2>1 DEF EachOnce
  <2> QED
    BY <2>2, <1>1
<1>3. ASSUME NEW k \in DOMAIN r PROVE r[k] # Head(q)
  <2>1. k + 1 \in DOMAIN q /\ 1 \in DOMAIN q /\ k + 1 # 1 /\ r[k] = q[k + 1]
    BY <1>1
  <2> QED
    BY <2>1, <1>1 DEF EachOnce
<1> QED
  BY <1>2, <1>3 DEF EachOnce

LEMMA CommitsShorter ==
  ASSUME NEW S, NEW q \in Seq(S), q # <<>>, NEW r, r = Tail(q), CommitsOnce(q)
  PROVE  /\ CommitsOnce(r)
         /\ Head(q).commit => \A k \in DOMAIN r : r[k].commit => r[k].call # Head(q).call
<1>1. /\ Len(q) \in Nat /\ Len(q) >= 1 /\ DOMAIN q = 1..Len(q)
      /\ DOMAIN r = 1..Len(q) - 1 /\ Head(q) = q[1]
      /\ \A i \in 1..Len(q) - 1 : r[i] = q[i + 1]
  BY Taken
<1>2. ASSUME NEW i \in DOMAIN r, NEW j \in DOMAIN r,
             r[i].commit, r[j].commit, r[i].call = r[j].call
      PROVE  i = j
  <2>1. i + 1 \in DOMAIN q /\ j + 1 \in DOMAIN q /\ r[i] = q[i + 1] /\ r[j] = q[j + 1]
    BY <1>1
  <2>2. i + 1 = j + 1
    BY <2>1, <1>2 DEF CommitsOnce
  <2> QED
    BY <2>2, <1>1
<1>3. ASSUME Head(q).commit, NEW k \in DOMAIN r, r[k].commit PROVE r[k].call # Head(q).call
  <2>1. k + 1 \in DOMAIN q /\ 1 \in DOMAIN q /\ k + 1 # 1 /\ r[k] = q[k + 1]
    BY <1>1
  <2> QED
    BY <2>1, <1>1, <1>3 DEF CommitsOnce
<1> QED
  BY <1>2, <1>3 DEF CommitsOnce

LEMMA CommitsJoined ==
  ASSUME NEW S, NEW q \in Seq(S), NEW s \in Seq(S), NEW r, r = q \o s,
         CommitsOnce(q), \A k \in DOMAIN s : ~s[k].commit
  PROVE  r \in Seq(S) /\ CommitsOnce(r)
<1>1. /\ Len(q) \in Nat /\ DOMAIN q = 1..Len(q) /\ Len(s) \in Nat /\ DOMAIN s = 1..Len(s)
      /\ r \in Seq(S) /\ DOMAIN r = 1..Len(q) + Len(s)
      /\ \A i \in 1..Len(q) + Len(s) : r[i] = IF i <= Len(q) THEN q[i] ELSE s[i - Len(q)]
  BY ConcatProperties
<1>2. ASSUME NEW i \in DOMAIN r, r[i].commit PROVE i \in DOMAIN q /\ r[i] = q[i]
  <2>1. CASE i <= Len(q)
    BY <2>1, <1>1
  <2>2. CASE ~(i <= Len(q))
    <3>1. i - Len(q) \in DOMAIN s /\ r[i] = s[i - Len(q)]
      BY <2>2, <1>1
    <3> QED
      BY <3>1, <1>2
  <2> QED
    BY <2>1, <2>2
<1> QED
  BY <1>1, <1>2 DEF CommitsOnce

LEMMA NoElement ==
  ASSUME NEW q, q = <<>>
  PROVE  DOMAIN q = {}
<1>1. DOMAIN q = 1..Len(q) /\ Len(q) = 0
  OBVIOUS
<1> QED
  BY <1>1

LEMMA Element ==
  ASSUME NEW S, NEW q \in Seq(S), NEW k \in DOMAIN q
  PROVE  q[k] \in S
OBVIOUS

LEMMA SeqGrows ==
  ASSUME NEW S, NEW T, S \subseteq T, NEW q \in Seq(S)
  PROVE  q \in Seq(T)
OBVIOUS

LEMMA PostedIsPosting ==
  ASSUME NEW call \in Call, NEW reply \in ReplySet
  PROVE  /\ Posted(call, reply) \in Posting
         /\ Posted(call, reply).call = call
         /\ Posted(call, reply).commit = FALSE
         /\ Posted(call, reply).reply = reply
BY DEF Posted, Posting

-----------------------------------------------------------------------------
LEMMA PostingIs ==
  ASSUME NEW call \in Call, NEW reply \in ReplySet
  PROVE  \E x \in Posting : x = Posted(call, reply) /\ x.call = call /\ x.commit = FALSE
<1>1. PICK x : x = Posted(call, reply)
  OBVIOUS
<1>2. x \in Posting /\ x.call = call /\ x.commit = FALSE
  BY <1>1, PostedIsPosting
<1> QED
  BY <1>1, <1>2

LEMMA CommitIsPosting ==
  ASSUME NEW call \in Call, NEW x, x = [call |-> call, commit |-> TRUE]
  PROVE  x \in Posting /\ x.call = call /\ x.commit = TRUE
BY DEF Posting

LEMMA OwnPostingsType == OwnPostings \subseteq Posting /\ OwnPostings' \subseteq Posting
BY DEF OwnPostings, Posting, Call, ReplySet

LEMMA FailedIsReply ==
  ASSUME NEW err \in Errnos \cup {"EINVAL", "no_such_device", "bad_message", "invalid_argument",
                                  "protocol_error"}
  PROVE  Failed(err) \in ReplySet /\ Failed(err).err = err
BY DEF Failed, Reply, ReplySet

LEMMA IsReply ==
  ASSUME NEW err \in Errnos \cup {"none", "EINVAL", "no_such_device", "bad_message",
                                  "invalid_argument", "protocol_error"},
         NEW data \in {"answer", "unfilled", "nothing"}
  PROVE  Reply(err, data) \in ReplySet /\ Reply(err, data).err = err
BY DEF Reply, ReplySet

\* A reply without an errno blames nobody.
LEMMA NoBlame ==
  ASSUME NEW reply, NEW request, NEW rc, NEW seen,
         reply.err \in {"none", "no_such_device", "bad_message", "invalid_argument",
                        "protocol_error"}
  PROVE  Owned(reply, request, rc, seen)
BY CallConstants DEF Owned

LEMMA AnswerAdded ==
  ASSUME NEW q \in Seq(ReplySet), NEW reply \in ReplySet, NEW r, r = Append(q, reply)
  PROVE  /\ r \in Seq(ReplySet)
         /\ \A k \in DOMAIN r : r[k] = reply \/ (k \in DOMAIN q /\ r[k] = q[k])
BY Longer, Appended

LEMMA CallNumber ==
  ASSUME NEW call \in Call
  PROVE  call \in 0..MaxCalls /\ call # 0
BY CallConstants DEF Call

LEMMA InitInv == Init => CallsInv
<1> SUFFICES ASSUME Init PROVE CallsInv
  OBVIOUS
<1>1. TypeOK
  BY CallConstants DEF Init, TypeOK, Call, Outcomes
<1>2. jobs \in Seq(PendingJobs) /\ mainLoop \in Seq(OwnPostings)
  BY DEF Init
<1>3. EachOnce(jobs) /\ CommitsOnce(mainLoop)
  BY DEF Init, EachOnce, CommitsOnce
<1>4. CallsPending
  BY <1>2, <1>3 DEF Init, CallsPending
<1> QED
  BY <1>1, <1>4 DEF Init, CallsInv, TimeoutRestored, WorkerKnown, ErrnoIsOwn, ErrnoKnown

-----------------------------------------------------------------------------
(* Calls.                                                                  *)

LEMMA CallTypes ==
  ASSUME CallsInv
  PROVE  /\ calls \in Seq(Requests) /\ Len(calls) \in Nat /\ DOMAIN calls = 1..Len(calls)
         /\ Len(calls) <= MaxCalls /\ MaxCalls \in Nat /\ DOMAIN calls \subseteq Call
         /\ \A c \in DOMAIN calls : calls[c] \in Requests /\ c # 0
BY CallConstants DEF CallsInv, TypeOK, Call

\* What a new call leaves to the ones before it.
CallKept(new, request) ==
  /\ calls' \in Seq(Requests) /\ Len(calls') \in Nat /\ Len(calls') <= MaxCalls
  /\ DOMAIN calls' = DOMAIN calls \cup {new}
  /\ new \in Call \ DOMAIN calls /\ new # 0
  /\ calls'[new] = request
  /\ \A c \in DOMAIN calls : calls'[c] = calls[c]
  /\ outcome[new] = "unknown" /\ answers[new] = <<>>
  /\ PendingJobs \subseteq PendingJobs'
  /\ OwnPostings \subseteq OwnPostings'

LEMMA CallMade ==
  ASSUME CallsInv, NEW request \in Requests, MakeCall(request), outcome' = outcome,
         failures' = failures, running' = running, committing' = committing,
         NEW new, new = NewCall
  PROVE  CallKept(new, request)
<1>1. /\ calls \in Seq(Requests) /\ Len(calls) \in Nat /\ DOMAIN calls = 1..Len(calls)
      /\ Len(calls) < MaxCalls /\ MaxCalls \in Nat
  BY CallTypes DEF MakeCall
<1>2. /\ calls' \in Seq(Requests) /\ Len(calls') = Len(calls) + 1
      /\ DOMAIN calls' = 1..Len(calls) + 1 /\ new = Len(calls) + 1
  BY <1>1, Appended DEF MakeCall, NewCall
<1>3. calls'[new] = request /\ \A c \in DOMAIN calls : calls'[c] = calls[c]
  BY <1>1, Appended DEF MakeCall, NewCall
<1>4. new \in Call \ DOMAIN calls /\ new # 0
  BY <1>1, <1>2 DEF Call
<1>5. outcome[new] = "unknown" /\ answers[new] = <<>>
  BY <1>4 DEF CallsInv, CallsPending
<1>6. DOMAIN calls' = DOMAIN calls \cup {new}
  BY <1>1, <1>2
<1>7. PendingJobs \subseteq PendingJobs'
  <2> SUFFICES ASSUME NEW c \in PendingJobs PROVE c \in PendingJobs'
    OBVIOUS
  <2>1. c \in Call /\ c \in DOMAIN calls /\ outcome[c] = "unknown" /\ c # running
        /\ calls[c] \notin {"fw commit", "security receive too long"}
    BY DEF PendingJobs, OnWorker
  <2>2. OnWorker(c)'
    BY <2>1, <1>3, <1>6 DEF OnWorker
  <2> QED
    BY <2>1, <2>2 DEF PendingJobs, Call
<1>8. OwnPostings \subseteq OwnPostings'
  <2> SUFFICES ASSUME NEW x \in OwnPostings PROVE x \in OwnPostings'
    OBVIOUS
  <2>1. /\ x \in Posting /\ x.call \in DOMAIN calls
        /\ x.commit => calls[x.call] = "fw commit" /\ outcome[x.call] = "unknown"
                       /\ x.call # committing
        /\ ~x.commit => Owned(x.reply, calls[x.call], outcome[x.call], failures)
    BY DEF OwnPostings, Commits, Owns
  <2>2. x.commit => Commits(x.call)'
    BY <2>1, <1>3, <1>6 DEF Commits
  <2>3. ~x.commit => Owns(x.call, x.reply)'
    BY <2>1, <1>3 DEF Owns
  <2> QED
    BY <2>1, <2>2, <2>3, <1>6 DEF OwnPostings, Posting, Call, ReplySet
<1> QED
  BY <1>1, <1>2, <1>3, <1>4, <1>5, <1>6, <1>7, <1>8 DEF CallKept

\* A call by itself keeps what the Worker and the answers need.
LEMMA CallKeeps ==
  ASSUME CallsInv, NEW new, NEW request, CallKept(new, request),
         outcome' = outcome, failures' = failures, errno' = errno, running' = running,
         left' = left, timeout' = timeout, saved' = saved, committing' = committing
  PROVE  /\ TimeoutRestored' /\ WorkerKnown' /\ ErrnoKnown'
         /\ running # 0 => OnWorker(running)' /\ outcome'[running] = "unknown"
         /\ committing # 0 => Commits(committing)' /\ outcome'[committing] = "unknown"
         /\ \A call \in Call \ DOMAIN calls' :
              outcome[call] = "unknown" /\ answers[call] = <<>>
         /\ \A c \in DOMAIN calls : \A k \in DOMAIN answers[c] :
              Owned(answers[c][k], calls'[c], outcome'[c], failures')
<1>1. running # 0 => running \in DOMAIN calls
                     /\ calls[running] \notin {"fw commit", "security receive too long"}
                     /\ outcome[running] = "unknown"
  BY DEF CallsInv, CallsPending, OnWorker
<1>2. TimeoutRestored' /\ WorkerKnown' /\ ErrnoKnown'
  BY <1>1 DEF CallsInv, TimeoutRestored, WorkerKnown, ErrnoKnown, CallKept
<1>3. running # 0 => OnWorker(running)' /\ outcome'[running] = "unknown"
  BY <1>1 DEF CallKept, OnWorker
<1>4. committing # 0 => Commits(committing)' /\ outcome'[committing] = "unknown"
  BY DEF CallsInv, CallsPending, CallKept, Commits
<1>5. \A call \in Call \ DOMAIN calls' : outcome[call] = "unknown" /\ answers[call] = <<>>
  BY DEF CallsInv, CallsPending, CallKept
<1>6. ASSUME NEW c \in DOMAIN calls, NEW k \in DOMAIN answers[c]
      PROVE  Owned(answers[c][k], calls'[c], outcome'[c], failures')
  <2>1. Owned(answers[c][k], calls[c], outcome[c], failures)
    BY DEF CallsInv, ErrnoIsOwn, Owns
  <2>2. calls'[c] = calls[c]
    BY DEF CallKept
  <2> QED
    BY <2>1, <2>2
<1> QED
  BY <1>2, <1>3, <1>4, <1>5, <1>6

\* So do the answers, when the call's own callback is not called at once.
LEMMA AnswersKept ==
  ASSUME CallsInv, NEW new, NEW request, CallKept(new, request), answers' = answers,
         outcome' = outcome, failures' = failures, errno' = errno, running' = running,
         left' = left, timeout' = timeout, saved' = saved, committing' = committing
  PROVE  ErrnoIsOwn'
<1>1. SUFFICES ASSUME NEW c \in DOMAIN calls', NEW k \in DOMAIN answers[c]
               PROVE  Owned(answers[c][k], calls'[c], outcome'[c], failures')
  BY DEF ErrnoIsOwn, Owns
<1>2. c \in DOMAIN calls
  BY DEF CallKept
<1> QED
  BY <1>2, CallKeeps

LEMMA NoEndpointKeeps ==
  ASSUME CallsInv, NEW request \in Requests, CallWithoutEndpoint(request)
  PROVE  CallsInv'
<1> DEFINE posted == Posted(NewCall, Failed("no_such_device"))
<1>1. /\ MakeCall(request) /\ mainLoop' = Append(mainLoop, posted)
      /\ nvmeEP' = nvmeEP /\ jobs' = jobs /\ committing' = committing /\ answers' = answers
      /\ running' = running /\ left' = left /\ timeout' = timeout /\ saved' = saved
      /\ errno' = errno /\ outcome' = outcome /\ failures' = failures
  BY DEF CallWithoutEndpoint, workerVars
<1>2. PICK new : new = NewCall /\ CallKept(new, request)
  BY <1>1, CallMade
<1>3. posted \in Posting /\ posted.call = new /\ posted.commit = FALSE
      /\ posted.reply.err = "no_such_device"
  <2>1. Failed("no_such_device") \in ReplySet /\ Failed("no_such_device").err = "no_such_device"
    BY FailedIsReply
  <2>2. NewCall \in Call
    BY <1>2 DEF CallKept
  <2> QED
    BY <2>1, <2>2, <1>2, PostedIsPosting
<1> HIDE DEF posted
<1>4. posted \in OwnPostings'
  <2>1. posted.call \in DOMAIN calls'
    BY <1>2, <1>3 DEF CallKept
  <2>2. Owned(posted.reply, calls'[new], outcome'[new], failures')
    BY <1>3, CallConstants DEF Owned
  <2> QED
    BY <1>3, <2>1, <2>2 DEF OwnPostings, Owns, Posting, Call, ReplySet
<1>5. mainLoop \in Seq(OwnPostings') /\ jobs' \in Seq(PendingJobs')
  BY <1>1, <1>2, SeqGrows DEF CallsInv, CallsPending, CallKept
<1>6. mainLoop' \in Seq(OwnPostings')
  BY <1>1, <1>4, <1>5, Appended
<1>7. CommitsOnce(mainLoop')
  BY <1>1, <1>3, <1>4, <1>5, CommitsLonger DEF CallsInv, CallsPending
<1>8. TypeOK'
  <2>1. mainLoop' \in Seq(Posting)
    BY <1>6, OwnPostingsType, SeqGrows
  <2> QED
    BY <2>1, <1>1, <1>2 DEF CallsInv, TypeOK, CallKept
<1>9. CallsPending'
  BY <1>1, <1>2, <1>5, <1>6, <1>7, CallKeeps DEF CallsInv, CallsPending
<1> QED
  BY <1>1, <1>2, <1>8, <1>9, CallKeeps, AnswersKept DEF CallsInv

LEMMA CallWorkerKeeps ==
  ASSUME CallsInv, NEW request \in Requests, CallWorker(request)
  PROVE  CallsInv'
<1>1. /\ MakeCall(request) /\ jobs' = Append(jobs, NewCall)
      /\ request \notin {"fw commit", "security receive too long"}
      /\ nvmeEP' = nvmeEP /\ mainLoop' = mainLoop /\ committing' = committing
      /\ answers' = answers
      /\ running' = running /\ left' = left /\ timeout' = timeout /\ saved' = saved
      /\ errno' = errno /\ outcome' = outcome /\ failures' = failures
  BY DEF CallWorker, workerVars
<1>2. PICK new : new = NewCall /\ CallKept(new, request)
  BY <1>1, CallMade
<1>3. new # running
  <2>1. running # 0 => running \in DOMAIN calls
    BY DEF CallsInv, CallsPending, OnWorker
  <2> QED
    BY <2>1, <1>2 DEF CallKept
<1>4. new \in PendingJobs'
  <2>1. OnWorker(new)'
    BY <1>1, <1>2 DEF OnWorker, CallKept
  <2> QED
    BY <2>1, <1>1, <1>2, <1>3 DEF PendingJobs, CallKept, Call
<1>5. mainLoop' \in Seq(OwnPostings') /\ jobs \in Seq(PendingJobs')
  BY <1>1, <1>2, SeqGrows DEF CallsInv, CallsPending, CallKept
<1>6. jobs' \in Seq(PendingJobs')
  BY <1>1, <1>2, <1>4, <1>5, Appended
<1>7. ASSUME NEW k \in DOMAIN jobs PROVE jobs[k] # new
  <2>1. jobs[k] \in PendingJobs
    BY Element DEF CallsInv, CallsPending
  <2> QED
    BY <2>1, <1>2 DEF PendingJobs, OnWorker, CallKept
<1>8. EachOnce(jobs')
  <2>1. EachOnce(jobs)
    BY DEF CallsInv, CallsPending
  <2> QED
    BY <2>1, <1>1, <1>2, <1>4, <1>5, <1>7, OnceLonger
<1>9. TypeOK'
  <2>1. jobs' \in Seq(Call)
    BY <1>6, SeqGrows DEF PendingJobs, Call
  <2> QED
    BY <2>1, <1>1, <1>2 DEF CallsInv, TypeOK, CallKept
<1>10. CallsPending'
  BY <1>1, <1>2, <1>5, <1>6, <1>8, CallKeeps DEF CallsInv, CallsPending
<1> QED
  BY <1>1, <1>2, <1>9, <1>10, CallKeeps, AnswersKept DEF CallsInv

LEMMA FwCommitKeeps ==
  ASSUME CallsInv, "fw commit" \in Requests, adminFwCommit
  PROVE  CallsInv'
<1>1. /\ MakeCall("fw commit")
      /\ mainLoop' = Append(mainLoop, [call |-> NewCall, commit |-> TRUE])
      /\ committing = 0
      /\ nvmeEP' = nvmeEP /\ jobs' = jobs /\ committing' = committing /\ answers' = answers
      /\ running' = running /\ left' = left /\ timeout' = timeout /\ saved' = saved
      /\ errno' = errno /\ outcome' = outcome /\ failures' = failures
  BY DEF adminFwCommit, workerVars, MakeCall
<1>2. PICK new : new = NewCall /\ CallKept(new, "fw commit")
  BY <1>1, CallMade
<1>3. PICK commit : /\ commit = [call |-> new, commit |-> TRUE]
                    /\ commit \in Posting /\ commit.call = new /\ commit.commit = TRUE
  <2>1. new \in Call
    BY <1>2 DEF CallKept
  <2> QED
    BY <2>1, CommitIsPosting
<1>4. commit \in OwnPostings'
  <2>1. new # committing' /\ outcome'[new] = "unknown"
    BY <1>1, <1>2 DEF CallKept
  <2>2. Commits(new)'
    BY <1>2 DEF Commits, CallKept
  <2>3. commit.call \in DOMAIN calls'
    BY <1>2, <1>3 DEF CallKept
  <2>4. Commits(commit.call)'
    BY <2>2, <1>3 DEF Commits
  <2> QED
    BY <1>3, <2>1, <2>3, <2>4 DEF OwnPostings, Posting, Call, ReplySet
<1>5. mainLoop \in Seq(OwnPostings') /\ jobs' \in Seq(PendingJobs')
  BY <1>1, <1>2, SeqGrows DEF CallsInv, CallsPending, CallKept
<1>6. mainLoop' \in Seq(OwnPostings')
  BY <1>1, <1>2, <1>3, <1>4, <1>5, Appended
<1>7. ASSUME NEW k \in DOMAIN mainLoop PROVE mainLoop[k].call # new
  <2>1. mainLoop[k] \in OwnPostings
    BY Element DEF CallsInv, CallsPending
  <2> QED
    BY <2>1, <1>2 DEF OwnPostings, CallKept
<1>8. CommitsOnce(mainLoop')
  <2>1. CommitsOnce(mainLoop)
    BY DEF CallsInv, CallsPending
  <2>2. mainLoop' = Append(mainLoop, commit)
    BY <1>1, <1>2, <1>3
  <2>3. \A k \in DOMAIN mainLoop : mainLoop[k].call # commit.call
    BY <1>3, <1>7
  <2> QED
    BY <2>1, <2>2, <2>3, <1>4, <1>5, CommitsLonger
<1>9. TypeOK'
  <2>1. mainLoop' \in Seq(Posting)
    BY <1>6, OwnPostingsType, SeqGrows
  <2> QED
    BY <2>1, <1>1, <1>2 DEF CallsInv, TypeOK, CallKept
<1>10. CallsPending'
  BY <1>1, <1>2, <1>5, <1>6, <1>8, CallKeeps DEF CallsInv, CallsPending
<1> QED
  BY <1>1, <1>2, <1>9, <1>10, CallKeeps, AnswersKept DEF CallsInv

LEMMA TooLongKeeps ==
  ASSUME CallsInv, "security receive too long" \in Requests, ReceiveTooLong
  PROVE  CallsInv'
<1>1. /\ MakeCall("security receive too long")
      /\ answers' = [answers EXCEPT ![NewCall] = Append(@, Failed("invalid_argument"))]
      /\ nvmeEP' = nvmeEP /\ jobs' = jobs /\ committing' = committing /\ mainLoop' = mainLoop
      /\ running' = running /\ left' = left /\ timeout' = timeout /\ saved' = saved
      /\ errno' = errno /\ outcome' = outcome /\ failures' = failures
  BY DEF ReceiveTooLong, workerVars
<1>2. PICK new : new = NewCall /\ CallKept(new, "security receive too long")
  BY <1>1, CallMade
<1>3. PICK failed \in ReplySet :
        failed = Failed("invalid_argument") /\ failed.err = "invalid_argument"
  BY FailedIsReply
<1>4. mainLoop' \in Seq(OwnPostings') /\ jobs' \in Seq(PendingJobs')
  BY <1>1, <1>2, SeqGrows DEF CallsInv, CallsPending, CallKept
<1>5. /\ answers' \in [Call -> Seq(ReplySet)]
      /\ \A c \in Call \ {new} : answers'[c] = answers[c]
      /\ \A k \in DOMAIN answers'[new] : answers'[new][k] = failed
  <2>1. answers \in [Call -> Seq(ReplySet)] /\ new \in Call
    BY <1>2 DEF CallsInv, TypeOK, CallKept
  <2>2. DOMAIN answers[new] = {}
    BY <1>2, NoElement DEF CallKept
  <2>3. answers' = [answers EXCEPT ![new] = Append(@, failed)]
    BY <1>1, <1>2, <1>3
  <2>4. /\ DOMAIN answers' = Call /\ answers' = [c \in Call |-> answers'[c]]
        /\ answers[new] \in Seq(ReplySet) /\ answers'[new] = Append(answers[new], failed)
        /\ \A c \in Call \ {new} : answers'[c] = answers[c]
    BY <2>1, <2>3
  <2>5. /\ answers'[new] \in Seq(ReplySet)
        /\ \A k \in DOMAIN answers'[new] : answers'[new][k] = failed
    <3>1. PICK r : r = answers'[new]
      OBVIOUS
    <3>2. PICK q \in Seq(ReplySet) : q = answers[new]
      BY <2>4
    <3>3. r = Append(q, failed) /\ DOMAIN q = {}
      BY <2>2, <2>4, <3>1, <3>2
    <3>4. r \in Seq(ReplySet) /\ \A k \in DOMAIN r : r[k] = failed
      BY <3>3, <1>3, AnswerAdded
    <3> QED
      BY <3>1, <3>4
  <2>6. \A c \in Call : answers'[c] \in Seq(ReplySet)
    BY <2>1, <2>4, <2>5
  <2> QED
    BY <2>4, <2>5, <2>6
<1>6. TypeOK'
  BY <1>1, <1>2, <1>5 DEF CallsInv, TypeOK, CallKept
<1>7. \A call \in Call \ DOMAIN calls' : outcome'[call] = "unknown" /\ answers'[call] = <<>>
  BY <1>1, <1>2, <1>5, CallKeeps DEF CallKept
<1>8. CallsPending'
  BY <1>1, <1>2, <1>4, <1>7, CallKeeps DEF CallsInv, CallsPending
<1>9. ErrnoIsOwn'
  <2> SUFFICES ASSUME NEW c \in DOMAIN calls', NEW k \in DOMAIN answers'[c]
               PROVE  Owned(answers'[c][k], calls'[c], outcome'[c], failures')
    BY DEF ErrnoIsOwn, Owns
  <2>1. CASE c = new
    <3>1. answers'[c][k] = failed
      BY <2>1, <1>5
    <3> QED
      BY <3>1, <1>3, CallConstants DEF Owned
  <2>2. CASE c # new
    <3>1. c \in DOMAIN calls /\ answers'[c] = answers[c]
      BY <2>2, <1>2, <1>5, CallTypes DEF CallKept
    <3>2. Owned(answers[c][k], calls'[c], outcome'[c], failures')
      BY <3>1, <1>1, <1>2, CallKeeps
    <3> QED
      BY <3>1, <3>2
  <2> QED
    BY <2>1, <2>2
<1> QED
  BY <1>1, <1>2, <1>6, <1>8, <1>9, CallKeeps DEF CallsInv

-----------------------------------------------------------------------------
(* The Worker and the main loop: calls stay, outcomes become known.        *)

LEMMA SeqOf ==
  ASSUME NEW S, NEW T, NEW q \in Seq(S), \A k \in DOMAIN q : q[k] \in T
  PROVE  q \in Seq(T)
OBVIOUS

LEMMA OwnedKept ==
  ASSUME NEW reply, NEW request, NEW rc, NEW rc2, NEW seen, NEW seen2,
         Owned(reply, request, rc, seen), seen \subseteq seen2, rc2 = rc \/ rc = "unknown"
  PROVE  Owned(reply, request, rc2, seen2)
BY CallConstants DEF Owned

\* What a step of the threads does to what the drive has answered.
OutcomesGrow ==
  /\ calls' = calls
  /\ failures \subseteq failures'
  /\ \A c \in DOMAIN calls :
       outcome'[c] = outcome[c] \/ (outcome[c] = "unknown" /\ c \in {running, committing})

LEMMA PostingKept ==
  ASSUME CallsInv, OutcomesGrow, NEW x \in OwnPostings, x.commit => x.call # committing'
  PROVE  x \in OwnPostings'
<1>1. /\ x \in Posting /\ x.call \in DOMAIN calls
      /\ x.commit => calls[x.call] = "fw commit" /\ outcome[x.call] = "unknown"
                     /\ x.call # committing
      /\ ~x.commit => Owned(x.reply, calls[x.call], outcome[x.call], failures)
  BY DEF OwnPostings, Commits, Owns
<1>2. running # 0 => running \in DOMAIN calls /\ calls[running] # "fw commit"
  BY DEF CallsInv, CallsPending, OnWorker
<1>3. x.call # 0
  BY <1>1, CallTypes
<1>4. x.commit => Commits(x.call)' /\ outcome'[x.call] = "unknown"
  BY <1>1, <1>2, <1>3 DEF Commits, OutcomesGrow
<1>5. ~x.commit => Owns(x.call, x.reply)'
  <2>1. /\ outcome'[x.call] = outcome[x.call] \/ outcome[x.call] = "unknown"
        /\ failures \subseteq failures' /\ calls' = calls
    BY <1>1 DEF OutcomesGrow
  <2>2. ~x.commit => Owned(x.reply, calls[x.call], outcome'[x.call], failures')
    BY <1>1, <2>1, OwnedKept
  <2> QED
    BY <2>1, <2>2 DEF Owns
<1> QED
  BY <1>1, <1>4, <1>5 DEF OwnPostings, Posting, Call, ReplySet, OutcomesGrow

LEMMA AnswerKept ==
  ASSUME CallsInv, OutcomesGrow
  PROVE  \A c \in DOMAIN calls : \A k \in DOMAIN answers[c] :
           Owned(answers[c][k], calls'[c], outcome'[c], failures')
<1> SUFFICES ASSUME NEW c \in DOMAIN calls, NEW k \in DOMAIN answers[c]
             PROVE  Owned(answers[c][k], calls[c], outcome'[c], failures')
  BY DEF OutcomesGrow
<1>1. Owned(answers[c][k], calls[c], outcome[c], failures)
  BY DEF CallsInv, ErrnoIsOwn, Owns
<1> QED
  BY <1>1, OwnedKept DEF OutcomesGrow

LEMMA AnswersStay ==
  ASSUME CallsInv, OutcomesGrow, answers' = answers
  PROVE  ErrnoIsOwn'
BY AnswerKept DEF ErrnoIsOwn, Owns, OutcomesGrow

LEMMA JobKept ==
  ASSUME CallsInv, OutcomesGrow, NEW call \in PendingJobs, call # running'
  PROVE  call \in PendingJobs'
<1>1. call \in Call /\ call \in DOMAIN calls /\ outcome[call] = "unknown" /\ call # running
      /\ calls[call] \notin {"fw commit", "security receive too long"}
  BY DEF PendingJobs, OnWorker
<1>2. call # 0
  BY <1>1, CallTypes
<1>3. call # committing
  BY <1>1, <1>2 DEF CallsInv, CallsPending, Commits
<1> QED
  BY <1>1, <1>3 DEF PendingJobs, OnWorker, Call, OutcomesGrow

LEMMA StartKeeps ==
  ASSUME CallsInv, StartJob
  PROVE  CallsInv'
<1>1. /\ running = 0 /\ jobs # <<>> /\ running' = Head(jobs) /\ jobs' = Tail(jobs)
      /\ left' = Exchanges(calls[running'])
      /\ nvmeEP' = nvmeEP /\ calls' = calls /\ mainLoop' = mainLoop /\ committing' = committing
      /\ answers' = answers /\ errno' = errno /\ outcome' = outcome /\ failures' = failures
      /\ \/ calls[running'] = "xfer" /\ saved' = timeout /\ timeout' = "own"
         \/ calls[running'] # "xfer" /\ saved' = saved /\ timeout' = timeout
  BY DEF StartJob
<1>2. OutcomesGrow
  BY <1>1 DEF OutcomesGrow
<1>3. jobs \in Seq(PendingJobs) /\ EachOnce(jobs) /\ mainLoop \in Seq(OwnPostings)
  BY DEF CallsInv, CallsPending
<1>4. Head(jobs) \in PendingJobs /\ jobs' \in Seq(PendingJobs)
  BY <1>1, <1>3, Taken
<1>5. running' \in Call /\ running' \in DOMAIN calls /\ running' # 0
      /\ calls[running'] \notin {"fw commit", "security receive too long"}
      /\ outcome[running'] = "unknown"
  BY <1>1, <1>4, CallTypes DEF PendingJobs, OnWorker
<1>6. EachOnce(jobs') /\ \A k \in DOMAIN jobs' : jobs'[k] # running'
  BY <1>1, <1>3, OnceShorter
<1>7. jobs' \in Seq(PendingJobs')
  <2>1. ASSUME NEW k \in DOMAIN jobs' PROVE jobs'[k] \in PendingJobs'
    <3>1. jobs'[k] \in PendingJobs /\ jobs'[k] # running'
      BY <1>4, <1>6, Element
    <3> QED
      BY <3>1, <1>2, JobKept
  <2> QED
    BY <2>1, <1>4, SeqOf
<1>8. mainLoop \in Seq(OwnPostings')
  <2>1. ASSUME NEW k \in DOMAIN mainLoop PROVE mainLoop[k] \in OwnPostings'
    <3>1. mainLoop[k] \in OwnPostings
      BY <1>3, Element
    <3>2. mainLoop[k].commit => mainLoop[k].call # committing'
      BY <3>1, <1>1 DEF OwnPostings
    <3> QED
      BY <3>1, <3>2, <1>2, PostingKept
  <2> QED
    BY <2>1, <1>3, SeqOf
<1>9. TimeoutRestored' /\ WorkerKnown'
  BY <1>1, <1>5 DEF CallsInv, TimeoutRestored, WorkerKnown
<1>10. TypeOK'
  <2>1. jobs' \in Seq(Call)
    BY <1>7, SeqGrows DEF PendingJobs, Call
  <2>2. running' \in 0..MaxCalls
    BY <1>5, CallNumber
  <2>3. left' \in 0..2
    BY <1>1 DEF Exchanges
  <2>4. saved' \in {"default", "own"} /\ timeout' \in {"default", "own"}
    BY <1>1 DEF CallsInv, TypeOK
  <2> QED
    BY <2>1, <2>2, <2>3, <2>4, <1>1 DEF CallsInv, TypeOK
<1>11. CallsPending'
  <2>1. OnWorker(running)' /\ outcome'[running'] = "unknown"
    BY <1>1, <1>5 DEF OnWorker
  <2>2. committing # 0 => Commits(committing)' /\ outcome'[committing'] = "unknown"
    BY <1>1 DEF CallsInv, CallsPending, Commits
  <2> QED
    BY <2>1, <2>2, <1>1, <1>6, <1>7, <1>8 DEF CallsInv, CallsPending
<1>12. ErrnoKnown'
  BY <1>1 DEF CallsInv, ErrnoKnown
<1> QED
  BY <1>1, <1>2, <1>9, <1>10, <1>11, <1>12, AnswersStay DEF CallsInv

LEMMA NextExchangeKeeps ==
  ASSUME CallsInv, NextExchange
  PROVE  CallsInv'
<1>1. /\ left > 1 /\ left' = left - 1
      /\ nvmeEP' = nvmeEP /\ calls' = calls /\ jobs' = jobs /\ mainLoop' = mainLoop
      /\ committing' = committing /\ answers' = answers /\ running' = running
      /\ timeout' = timeout /\ saved' = saved /\ errno' = errno /\ outcome' = outcome
      /\ failures' = failures
  BY DEF NextExchange
<1>2. left' \in 0..2
  BY <1>1 DEF CallsInv, TypeOK
<1>3. TypeOK'
  BY <1>1, <1>2 DEF CallsInv, TypeOK
<1>4. CallsPending'
  BY <1>1 DEF CallsInv, CallsPending, EachOnce, CommitsOnce, PendingJobs, OwnPostings, OnWorker,
              Commits, Owns
<1> QED
  BY <1>1, <1>3, <1>4 DEF CallsInv, TimeoutRestored, WorkerKnown, ErrnoIsOwn, Owns, ErrnoKnown

LEMMA OtherDriveKeeps ==
  ASSUME CallsInv, OtherDriveFails
  PROVE  CallsInv'
<1>1. /\ running = 0 /\ errno' \in Errnos /\ failures' = failures \cup {errno'}
      /\ nvmeEP' = nvmeEP /\ calls' = calls /\ jobs' = jobs /\ mainLoop' = mainLoop
      /\ committing' = committing /\ answers' = answers /\ running' = running /\ left' = left
      /\ timeout' = timeout /\ saved' = saved /\ outcome' = outcome
  BY DEF OtherDriveFails
<1>2. OutcomesGrow
  BY <1>1 DEF OutcomesGrow
<1>3. jobs' \in Seq(PendingJobs')
  BY <1>1 DEF CallsInv, CallsPending, PendingJobs, OnWorker
<1>4. mainLoop' \in Seq(OwnPostings')
  <2>1. mainLoop \in Seq(OwnPostings)
    BY DEF CallsInv, CallsPending
  <2>2. ASSUME NEW k \in DOMAIN mainLoop PROVE mainLoop[k] \in OwnPostings'
    <3>1. mainLoop[k] \in OwnPostings
      BY <2>1, Element
    <3>2. mainLoop[k].commit => mainLoop[k].call # committing'
      BY <3>1, <1>1 DEF OwnPostings
    <3> QED
      BY <3>1, <3>2, <1>2, PostingKept
  <2> QED
    BY <2>1, <2>2, <1>1, SeqOf
<1>5. TypeOK'
  BY <1>1 DEF CallsInv, TypeOK
<1>6. CallsPending'
  BY <1>1, <1>3, <1>4 DEF CallsInv, CallsPending, EachOnce, CommitsOnce, OnWorker, Commits
<1>7. ErrnoKnown'
  BY <1>1 DEF ErrnoKnown
<1> QED
  BY <1>1, <1>2, <1>5, <1>6, <1>7, AnswersStay DEF CallsInv, TimeoutRestored, WorkerKnown

LEMMA DeliverKeeps ==
  ASSUME CallsInv, Deliver
  PROVE  CallsInv'
<1>1. /\ mainLoop # <<>> /\ ~Head(mainLoop).commit /\ mainLoop' = Tail(mainLoop)
      /\ answers' = [answers EXCEPT ![Head(mainLoop).call] = Append(@, Head(mainLoop).reply)]
      /\ nvmeEP' = nvmeEP /\ calls' = calls /\ jobs' = jobs /\ committing' = committing
      /\ running' = running /\ left' = left /\ timeout' = timeout /\ saved' = saved
      /\ errno' = errno /\ outcome' = outcome /\ failures' = failures
  BY DEF Deliver, workerVars
<1>2. OwnPostings' = OwnPostings /\ PendingJobs' = PendingJobs
  BY <1>1 DEF OwnPostings, PendingJobs, OnWorker, Commits, Owns
<1>3. mainLoop \in Seq(OwnPostings) /\ CommitsOnce(mainLoop)
  BY DEF CallsInv, CallsPending
<1>4. mainLoop' \in Seq(OwnPostings) /\ Head(mainLoop) \in OwnPostings
  BY <1>1, <1>3, Taken
<1>5. CommitsOnce(mainLoop')
  BY <1>1, <1>3, CommitsShorter
<1>6. PICK x \in OwnPostings : x = Head(mainLoop)
  BY <1>4
<1>7. /\ x \in Posting /\ ~x.commit /\ x.call \in DOMAIN calls /\ x.call \in Call
      /\ x.reply \in ReplySet
      /\ Owned(x.reply, calls[x.call], outcome[x.call], failures)
  <2>1. x \in Posting /\ ~x.commit /\ x.call \in DOMAIN calls /\ Owns(x.call, x.reply)
    BY <1>1, <1>6 DEF OwnPostings
  <2> QED
    BY <2>1 DEF Posting, Owns
<1>8. /\ DOMAIN answers' = Call /\ answers' = [c \in Call |-> answers'[c]]
      /\ answers[x.call] \in Seq(ReplySet)
      /\ answers'[x.call] = Append(answers[x.call], x.reply)
      /\ \A c \in Call \ {x.call} : answers'[c] = answers[c]
  BY <1>1, <1>6, <1>7 DEF CallsInv, TypeOK
<1>9. /\ answers'[x.call] \in Seq(ReplySet)
      /\ \A k \in DOMAIN answers'[x.call] :
           \/ answers'[x.call][k] = x.reply
           \/ k \in DOMAIN answers[x.call] /\ answers'[x.call][k] = answers[x.call][k]
  BY <1>7, <1>8, AnswerAdded
<1>10. TypeOK'
  <2>1. \A c \in Call : answers'[c] \in Seq(ReplySet)
    BY <1>8, <1>9 DEF CallsInv, TypeOK
  <2>2. answers' \in [Call -> Seq(ReplySet)]
    BY <2>1, <1>8
  <2>3. mainLoop' \in Seq(Posting)
    BY <1>4, OwnPostingsType, SeqGrows
  <2> QED
    BY <2>2, <2>3, <1>1 DEF CallsInv, TypeOK
<1>11. CallsPending'
  <2>1. \A call \in Call \ DOMAIN calls' : outcome'[call] = "unknown" /\ answers'[call] = <<>>
    BY <1>1, <1>7, <1>8 DEF CallsInv, CallsPending
  <2>2. /\ running' # 0 => OnWorker(running)' /\ outcome'[running'] = "unknown"
        /\ committing' # 0 => Commits(committing)' /\ outcome'[committing'] = "unknown"
        /\ jobs' \in Seq(PendingJobs) /\ EachOnce(jobs')
    BY <1>1 DEF CallsInv, CallsPending, OnWorker, Commits
  <2> QED
    BY <2>1, <2>2, <1>2, <1>4, <1>5 DEF CallsPending
<1>12. ErrnoIsOwn'
  <2> SUFFICES ASSUME NEW c \in DOMAIN calls, NEW k \in DOMAIN answers'[c]
               PROVE  Owned(answers'[c][k], calls[c], outcome[c], failures)
    BY <1>1 DEF ErrnoIsOwn, Owns
  <2>1. ASSUME k \in DOMAIN answers[c], answers'[c][k] = answers[c][k]
        PROVE  Owned(answers'[c][k], calls[c], outcome[c], failures)
    BY <2>1 DEF CallsInv, ErrnoIsOwn, Owns
  <2>2. CASE c = x.call
    BY <2>1, <2>2, <1>7, <1>9
  <2>3. CASE c # x.call
    <3>1. answers'[c] = answers[c]
      BY <2>3, <1>8, CallTypes
    <3> QED
      BY <2>1, <3>1
  <2> QED
    BY <2>2, <2>3
<1> QED
  BY <1>1, <1>10, <1>11, <1>12 DEF CallsInv, TimeoutRestored, WorkerKnown, ErrnoKnown

LEMMA CommitStartKeeps ==
  ASSUME CallsInv, CommitStarts
  PROVE  CallsInv'
<1>1. /\ committing = 0 /\ mainLoop # <<>> /\ Head(mainLoop).commit
      /\ mainLoop' = Tail(mainLoop) /\ committing' = Head(mainLoop).call
      /\ nvmeEP' = nvmeEP /\ calls' = calls /\ jobs' = jobs /\ answers' = answers
      /\ running' = running /\ left' = left /\ timeout' = timeout /\ saved' = saved
      /\ errno' = errno /\ outcome' = outcome /\ failures' = failures
  BY DEF CommitStarts, workerVars
<1>2. OutcomesGrow
  BY <1>1 DEF OutcomesGrow
<1>3. mainLoop \in Seq(OwnPostings) /\ CommitsOnce(mainLoop)
  BY DEF CallsInv, CallsPending
<1>4. mainLoop' \in Seq(OwnPostings) /\ Head(mainLoop) \in OwnPostings
  BY <1>1, <1>3, Taken
<1>5. /\ CommitsOnce(mainLoop')
      /\ \A k \in DOMAIN mainLoop' : mainLoop'[k].commit => mainLoop'[k].call # committing'
  BY <1>1, <1>3, CommitsShorter
<1>6. mainLoop' \in Seq(OwnPostings')
  <2>1. ASSUME NEW k \in DOMAIN mainLoop' PROVE mainLoop'[k] \in OwnPostings'
    <3>1. mainLoop'[k] \in OwnPostings
      BY <1>4, Element
    <3> QED
      BY <3>1, <1>2, <1>5, PostingKept
  <2> QED
    BY <2>1, <1>4, SeqOf
<1>7. /\ committing' \in Call /\ committing' \in DOMAIN calls
      /\ calls[committing'] = "fw commit" /\ outcome[committing'] = "unknown"
  BY <1>1, <1>4, CallTypes DEF OwnPostings, Commits
<1>8. TypeOK'
  <2>1. mainLoop' \in Seq(Posting)
    BY <1>4, OwnPostingsType, SeqGrows
  <2>2. committing' \in 0..MaxCalls
    BY <1>7, CallNumber
  <2> QED
    BY <2>1, <2>2, <1>1 DEF CallsInv, TypeOK
<1>9. CallsPending'
  <2>1. Commits(committing)' /\ outcome'[committing'] = "unknown"
    BY <1>1, <1>7 DEF Commits
  <2>2. PendingJobs' = PendingJobs
    BY <1>1 DEF PendingJobs, OnWorker
  <2>3. running' # 0 => OnWorker(running)' /\ outcome'[running'] = "unknown"
    BY <1>1 DEF CallsInv, CallsPending, OnWorker
  <2> QED
    BY <2>1, <2>2, <2>3, <1>1, <1>5, <1>6 DEF CallsInv, CallsPending
<1> QED
  BY <1>1, <1>2, <1>8, <1>9, AnswersStay DEF CallsInv, TimeoutRestored, WorkerKnown, ErrnoKnown

LEMMA CommitEndKeeps ==
  ASSUME CallsInv, NEW rc \in Errnos \cup {"done", "refused"}, CommitEnds(rc)
  PROVE  CallsInv'
<1>1. /\ committing # 0 /\ committing' = 0
      /\ mainLoop' = Append(mainLoop, Posted(committing, CommitReply(rc)))
      /\ outcome' = [outcome EXCEPT ![committing] = rc]
      /\ nvmeEP' = nvmeEP /\ calls' = calls /\ jobs' = jobs /\ answers' = answers
      /\ running' = running /\ left' = left /\ timeout' = timeout /\ saved' = saved
      /\ errno' = errno /\ failures' = failures
  BY DEF CommitEnds
<1>2. PICK c : /\ c = committing /\ c \in DOMAIN calls /\ c \in Call
               /\ calls[c] = "fw commit" /\ outcome[c] = "unknown"
  BY <1>1, CallTypes DEF CallsInv, CallsPending, Commits
<1>3. outcome' \in [Call -> Outcomes] /\ outcome'[c] = rc
      /\ \A d \in Call \ {c} : outcome'[d] = outcome[d]
  BY <1>1, <1>2 DEF CallsInv, TypeOK, Outcomes
<1>4. OutcomesGrow
  BY <1>1, <1>2, <1>3, CallTypes DEF OutcomesGrow
<1>5. CommitReply(rc) \in ReplySet /\ Owned(CommitReply(rc), calls[c], rc, failures)
  <2>1. CASE rc \in {"done", "refused"}
    BY <2>1, IsReply, NoBlame DEF CommitReply
  <2>2. CASE rc \in Errnos
    <3>1. CommitReply(rc) = Failed(rc)
      BY <2>2, CallConstants DEF CommitReply
    <3> QED
      BY <3>1, <2>2, FailedIsReply DEF Owned
  <2> QED
    BY <2>1, <2>2
<1>6. PICK x : /\ x = Posted(c, CommitReply(rc)) /\ x \in Posting
               /\ x.call = c /\ x.commit = FALSE /\ x.reply = CommitReply(rc)
  <2>1. PICK x : x = Posted(c, CommitReply(rc))
    OBVIOUS
  <2>2. x \in Posting /\ x.call = c /\ x.commit = FALSE /\ x.reply = CommitReply(rc)
    BY <2>1, <1>2, <1>5, PostedIsPosting
  <2> QED
    BY <2>1, <2>2
<1>7. x \in OwnPostings'
  BY <1>1, <1>2, <1>3, <1>5, <1>6 DEF OwnPostings, Owns, Posting, Call, ReplySet
<1>8. mainLoop \in Seq(OwnPostings')
  <2>1. mainLoop \in Seq(OwnPostings)
    BY DEF CallsInv, CallsPending
  <2>2. ASSUME NEW k \in DOMAIN mainLoop PROVE mainLoop[k] \in OwnPostings'
    <3>1. mainLoop[k] \in OwnPostings
      BY <2>1, Element
    <3>2. mainLoop[k].call # committing'
      BY <3>1, <1>1, CallTypes DEF OwnPostings
    <3> QED
      BY <3>1, <3>2, <1>4, PostingKept
  <2> QED
    BY <2>1, <2>2, SeqOf
<1>9. mainLoop' = Append(mainLoop, x)
  BY <1>1, <1>2, <1>6
<1>10. mainLoop' \in Seq(OwnPostings')
  BY <1>7, <1>8, <1>9, Appended
<1>11. CommitsOnce(mainLoop')
  <2>1. CommitsOnce(mainLoop)
    BY DEF CallsInv, CallsPending
  <2> QED
    BY <2>1, <1>6, <1>7, <1>8, <1>9, CommitsLonger
<1>12. TypeOK'
  <2>1. mainLoop' \in Seq(Posting)
    BY <1>10, OwnPostingsType, SeqGrows
  <2>2. committing' \in 0..MaxCalls
    BY <1>1, CallConstants
  <2> QED
    BY <2>1, <2>2, <1>1, <1>3 DEF CallsInv, TypeOK
<1>13. CallsPending'
  <2>1. running # 0 => OnWorker(running) /\ outcome[running] = "unknown"
    BY DEF CallsInv, CallsPending
  <2>2. running' # 0 => OnWorker(running)' /\ outcome'[running'] = "unknown"
    BY <2>1, <1>1, <1>2, <1>3, CallTypes DEF OnWorker
  <2>3. jobs' \in Seq(PendingJobs') /\ EachOnce(jobs')
    <3>1. jobs \in Seq(PendingJobs) /\ EachOnce(jobs)
      BY DEF CallsInv, CallsPending
    <3>2. ASSUME NEW j \in PendingJobs PROVE j \in PendingJobs'
      <4>1. j # running
        BY DEF PendingJobs
      <4> QED
        BY <4>1, <1>1, <1>4, JobKept
    <3> QED
      BY <3>1, <3>2, <1>1, SeqGrows
  <2>4. \A call \in Call \ DOMAIN calls' : outcome'[call] = "unknown" /\ answers'[call] = <<>>
    BY <1>1, <1>2, <1>3 DEF CallsInv, CallsPending
  <2> QED
    BY <2>2, <2>3, <2>4, <1>1, <1>10, <1>11 DEF CallsPending
<1> QED
  BY <1>1, <1>4, <1>12, <1>13, AnswersStay DEF CallsInv, TimeoutRestored, WorkerKnown, ErrnoKnown

\* The replies of a closure are its own, when what its exchange left in errno is.
LEMMA RepliesOwn ==
  ASSUME NEW request \in LogRequests \cup Security \cup {"xfer"},
         NEW rc \in Errnos \cup {"done", "refused", "excess", "EINVAL"},
         rc = "excess" => request \in Security,
         NEW err \in Errnos \cup {"none", "EINVAL"},
         NEW seen, err \in seen, Negative(rc) => err = rc
  PROVE  Replies(request, rc, err) \in Seq({r \in ReplySet : Owned(r, request, rc, seen)})
<1> DEFINE Good == {r \in ReplySet : Owned(r, request, rc, seen)}
<1>1. ASSUME NEW data \in {"answer", "unfilled", "nothing"},
             NEW code \in {"none", "bad_message", "protocol_error"}
      PROVE  Reply(code, data) \in Good
  BY IsReply, NoBlame
<1>2. ASSUME NEW data \in {"answer", "unfilled", "nothing"}, Negative(rc) \/ request \in Security,
             rc # "excess"
      PROVE  Reply(err, data) \in Good
  <2>1. Reply(err, data) \in ReplySet /\ Reply(err, data).err = err
    BY IsReply
  <2>2. Negative(rc) \/ rc \in {"done", "refused"}
    BY <1>2 DEF Negative
  <2> QED
    BY <2>1, <2>2, <1>2 DEF Owned
<1> HIDE DEF Good
<1>3. CASE request \in LogRequests
  <2>1. /\ request \notin Security /\ rc # "excess"
        /\ Replies(request, rc, err) = LogReplies(request, rc, err)
    BY <1>3 DEF Replies, Security, LogRequests, ShadowedLogs, TwoPartLogs, InvalidLogs
  <2>2. CASE rc = "done" \/ request \in ShadowedLogs
    <3>1. LogReplies(request, rc, err)
            = <<Reply("none", IF rc = "done" THEN "answer" ELSE "unfilled")>>
      BY <2>2, CallConstants DEF LogReplies, Negative
    <3> QED
      BY <3>1, <2>1, <1>1 DEF Good
  <2>3. CASE Negative(rc) /\ request \notin ShadowedLogs
    <3>1. LogReplies(request, rc, err) = <<Failed(err)>>
      BY <2>3, CallConstants DEF LogReplies, Negative
    <3> QED
      BY <3>1, <2>1, <2>3, <1>2 DEF Good, Failed
  <2>4. CASE rc = "refused" /\ request \notin ShadowedLogs
    <3>1. LogReplies(request, rc, err) = <<Failed("bad_message"), Reply("none", "unfilled")>>
      BY <2>4, CallConstants DEF LogReplies, Negative
    <3> QED
      BY <3>1, <2>1, <1>1 DEF Good, Failed
  <2> QED
    BY <2>1, <2>2, <2>3, <2>4 DEF Negative
<1>4. CASE request = "xfer"
  <2>1. Replies(request, rc, err)
          = IF Negative(rc) THEN <<Failed(err)>> ELSE <<Reply("none", "answer")>>
    BY <1>4 DEF Replies, XferReplies, LogRequests, ShadowedLogs, TwoPartLogs, InvalidLogs, Security
  <2>2. CASE Negative(rc)
    <3>1. rc # "excess"
      BY <1>4 DEF Security
    <3> QED
      BY <3>1, <2>1, <2>2, <1>2 DEF Failed, Good
  <2>3. CASE ~Negative(rc)
    BY <2>1, <2>3, <1>1 DEF Good
  <2> QED
    BY <2>2, <2>3
<1>5. CASE request \in Security
  <2>1. Replies(request, rc, err) = SecurityReplies(request, rc, err)
    BY <1>5 DEF Replies, LogRequests, ShadowedLogs, TwoPartLogs, InvalidLogs, Security
  <2>2. CASE rc = "excess"
    BY <2>1, <2>2, <1>1 DEF Failed, Good, SecurityReplies
  <2>3. CASE rc # "excess"
    <3>1. SecurityData(request, rc) \in {"answer", "unfilled", "nothing"}
      BY <1>5 DEF SecurityData, Security
    <3> QED
      BY <3>1, <2>1, <2>3, <1>2, <1>5 DEF Good, SecurityReplies
  <2> QED
    BY <2>2, <2>3
<1> QED
  BY <1>3, <1>4, <1>5 DEF Good

LEMMA FinishKeeps ==
  ASSUME CallsInv, NEW rc \in Errnos \cup {"done", "refused", "excess", "EINVAL"},
         running # 0, rc = "excess" => calls[running] \in Security, Finish(rc)
  PROVE  CallsInv'
<1>1. /\ running' = 0 /\ left' = 0 /\ errno' = ErrnoAfter(rc) /\ failures' = failures \cup {errno'}
      /\ outcome' = [outcome EXCEPT ![running] = rc]
      /\ mainLoop' = mainLoop \o [k \in DOMAIN Replies(calls[running], rc, errno') |->
                                    Posted(running, Replies(calls[running], rc, errno')[k])]
      /\ timeout' = saved \/ (timeout' = timeout /\ calls[running] # "xfer")
      /\ answers' = answers /\ nvmeEP' = nvmeEP /\ calls' = calls /\ jobs' = jobs
      /\ committing' = committing /\ saved' = saved
  BY DEF Finish, PostReplies, Revert
<1>2. PICK c : c = running /\ c \in DOMAIN calls /\ c \in Call /\ outcome[c] = "unknown"
               /\ calls[c] \in LogRequests \cup Security \cup {"xfer"}
  <2>1. running \in DOMAIN calls /\ outcome[running] = "unknown"
        /\ calls[running] \notin {"fw commit", "security receive too long"}
    BY DEF CallsInv, CallsPending, OnWorker
  <2>2. running \in Call /\ calls[running] \in KnownRequests
    BY <2>1, CallTypes, CallConstants
  <2> QED
    BY <2>1, <2>2 DEF KnownRequests
<1>3. outcome' \in [Call -> Outcomes] /\ outcome'[c] = rc
      /\ \A d \in Call \ {c} : outcome'[d] = outcome[d]
  BY <1>1, <1>2 DEF CallsInv, TypeOK, Outcomes
<1>4. OutcomesGrow
  BY <1>1, <1>2, <1>3, CallTypes DEF OutcomesGrow
<1>5. errno' \in Errnos \cup {"none", "EINVAL"} /\ (Negative(rc) => errno' = rc)
  BY <1>1 DEF CallsInv, TypeOK, ErrnoAfter, Negative
<1> DEFINE Good == {r \in ReplySet : Owned(r, calls[c], rc, failures')}
<1>6. PICK replies \in Seq(Good) : replies = Replies(calls[c], rc, errno')
  <2>1. rc = "excess" => calls[c] \in Security
    BY <1>2
  <2>2. errno' \in failures'
    BY <1>1
  <2> QED
    BY <2>1, <2>2, <1>2, <1>5, RepliesOwn
<1>7. \A x \in Good : Posted(c, x) \in OwnPostings'
  <2> SUFFICES ASSUME NEW x \in Good PROVE Posted(c, x) \in OwnPostings'
    OBVIOUS
  <2>1. PICK y : y = Posted(c, x)
    OBVIOUS
  <2>2. y \in Posting /\ y.call = c /\ y.commit = FALSE /\ y.reply = x
    BY <2>1, <1>2, PostedIsPosting
  <2>3. Owned(x, calls'[c], outcome'[c], failures')
    BY <1>1, <1>3
  <2>4. y \in OwnPostings'
    BY <2>2, <2>3, <1>1, <1>2 DEF OwnPostings, Owns, Posting, Call, ReplySet
  <2> QED
    BY <2>1, <2>4
<1> HIDE DEF Good
<1>8. PICK posted : posted = [k \in DOMAIN replies |-> Posted(c, replies[k])]
  OBVIOUS
<1>9. posted \in Seq(OwnPostings') /\ \A k \in DOMAIN posted : ~posted[k].commit
  <2>1. Len(replies) \in Nat /\ DOMAIN replies = 1..Len(replies)
    OBVIOUS
  <2>2. ASSUME NEW k \in DOMAIN replies
        PROVE  posted[k] = Posted(c, replies[k]) /\ posted[k] \in OwnPostings'
    <3>1. replies[k] \in Good
      BY Element
    <3> QED
      BY <3>1, <1>7, <1>8
  <2>3. posted \in [1..Len(replies) -> OwnPostings'] /\ DOMAIN posted = DOMAIN replies
    BY <2>1, <2>2, <1>8
  <2>4. posted \in Seq(OwnPostings')
    BY <2>1, <2>3, SeqDef
  <2>5. \A k \in DOMAIN posted : ~posted[k].commit
    <3>1. ASSUME NEW k \in DOMAIN posted PROVE posted[k].commit = FALSE
      <4>1. posted[k] = Posted(c, replies[k])
        BY <2>2, <2>3
      <4> QED
        BY <4>1 DEF Posted
    <3> QED
      BY <3>1
  <2> QED
    BY <2>4, <2>5
<1>10. mainLoop \in Seq(OwnPostings')
  <2>1. mainLoop \in Seq(OwnPostings)
    BY DEF CallsInv, CallsPending
  <2>2. ASSUME NEW k \in DOMAIN mainLoop PROVE mainLoop[k] \in OwnPostings'
    <3>1. mainLoop[k] \in OwnPostings
      BY <2>1, Element
    <3>2. mainLoop[k].commit => mainLoop[k].call # committing'
      BY <3>1, <1>1 DEF OwnPostings
    <3> QED
      BY <3>1, <3>2, <1>4, PostingKept
  <2> QED
    BY <2>1, <2>2, SeqOf
<1>11. mainLoop' = mainLoop \o posted
  BY <1>1, <1>2, <1>6, <1>8
<1>12. mainLoop' \in Seq(OwnPostings') /\ CommitsOnce(mainLoop')
  <2>1. CommitsOnce(mainLoop)
    BY DEF CallsInv, CallsPending
  <2> QED
    BY <2>1, <1>9, <1>10, <1>11, CommitsJoined
<1>13. TypeOK'
  <2>1. mainLoop' \in Seq(Posting)
    BY <1>12, OwnPostingsType, SeqGrows
  <2>2. running' \in 0..MaxCalls /\ left' \in 0..2
    BY <1>1, CallConstants
  <2>3. timeout' \in {"default", "own"} /\ failures' \subseteq Errnos \cup {"none", "EINVAL"}
    BY <1>1, <1>5 DEF CallsInv, TypeOK
  <2> QED
    BY <2>1, <2>2, <2>3, <1>1, <1>3, <1>5 DEF CallsInv, TypeOK
<1>14. CallsPending'
  <2>1. committing' # 0 => Commits(committing)' /\ outcome'[committing'] = "unknown"
    <3>1. committing # 0 => /\ committing \in DOMAIN calls /\ calls[committing] = "fw commit"
                            /\ outcome[committing] = "unknown"
      BY DEF CallsInv, CallsPending, Commits
    <3>2. calls[c] # "fw commit"
      BY <1>2 DEF LogRequests, ShadowedLogs, TwoPartLogs, InvalidLogs, Security
    <3> QED
      BY <3>1, <3>2, <1>1, <1>2, <1>3, CallTypes DEF Commits
  <2>2. jobs' \in Seq(PendingJobs') /\ EachOnce(jobs')
    <3>1. jobs \in Seq(PendingJobs) /\ EachOnce(jobs)
      BY DEF CallsInv, CallsPending
    <3>2. ASSUME NEW j \in PendingJobs PROVE j \in PendingJobs'
      <4>1. j # running'
        BY <1>1, CallTypes DEF PendingJobs, OnWorker
      <4> QED
        BY <4>1, <1>4, JobKept
    <3> QED
      BY <3>1, <3>2, <1>1, SeqGrows
  <2>3. \A call \in Call \ DOMAIN calls' : outcome'[call] = "unknown" /\ answers'[call] = <<>>
    BY <1>1, <1>2, <1>3 DEF CallsInv, CallsPending
  <2> QED
    BY <2>1, <2>2, <2>3, <1>1, <1>12 DEF CallsPending
<1>15. TimeoutRestored' /\ WorkerKnown' /\ ErrnoKnown'
  BY <1>1 DEF CallsInv, TimeoutRestored, WorkerKnown, ErrnoKnown
<1> QED
  BY <1>1, <1>4, <1>13, <1>14, <1>15, AnswersStay DEF CallsInv

-----------------------------------------------------------------------------
LEMMA NextKeeps == CallsInv /\ [Next]_vars => CallsInv'
<1> SUFFICES ASSUME CallsInv, [Next]_vars PROVE CallsInv'
  OBVIOUS
<1>1. CASE MakesCall
  BY <1>1, NoEndpointKeeps, CallWorkerKeeps, FwCommitKeeps, TooLongKeeps DEF MakesCall
<1>2. CASE StartJob
  BY <1>2, StartKeeps
<1>3. CASE RejectLog
  BY <1>3, FinishKeeps DEF RejectLog
<1>4. CASE NextExchange
  BY <1>4, NextExchangeKeeps
<1>5. ASSUME NEW rc \in Errnos \cup {"done", "refused", "excess"}, LastExchange(rc) PROVE CallsInv'
  <2>1. running # 0
    <3>1. left > 0
      BY <1>5 DEF LastExchange
    <3> QED
      BY <3>1 DEF CallsInv, WorkerKnown, TypeOK
  <2>2. Finish(rc) /\ (rc = "excess" => calls[running] \in Security)
    BY <1>5 DEF LastExchange, Security
  <2> QED
    BY <2>1, <2>2, FinishKeeps
<1>6. CASE OtherDriveFails
  BY <1>6, OtherDriveKeeps
<1>7. CASE MainStep
  BY <1>7, DeliverKeeps, CommitStartKeeps, CommitEndKeeps DEF MainStep
<1>8. CASE UNCHANGED vars
  <2>1. TypeOK'
    BY <1>8 DEF CallsInv, TypeOK, vars, workerVars
  <2>2. CallsPending'
    BY <1>8 DEF CallsInv, CallsPending, EachOnce, CommitsOnce, PendingJobs, OwnPostings, OnWorker,
                Commits, Owns, vars, workerVars
  <2> QED
    BY <1>8, <2>1, <2>2 DEF CallsInv, TimeoutRestored, WorkerKnown, ErrnoIsOwn, Owns, ErrnoKnown,
                            vars, workerVars
<1> QED
  BY <1>1, <1>2, <1>3, <1>4, <1>5, <1>6, <1>7, <1>8 DEF Next, WorkerStep

-----------------------------------------------------------------------------
(* Replies in the queue.                                                   *)

\* What a change of the queue leaves of the replies to a call.
SameReplies(q, r, c) ==
  /\ NoneAt(q, c) => NoneAt(r, c)
  /\ \A x : RepliesTo(x, c) /\ OnlyAt(q, c, x) => OnlyAt(r, c, x)
  /\ \A x, y : RepliesTo(x, c) /\ PairAt(q, c, x, y) => PairAt(r, c, x, y)

LEMMA RepliesLonger ==
  ASSUME NEW S, NEW q \in Seq(S), NEW x \in S, NEW r, r = Append(q, x), NEW c,
         ~RepliesTo(x, c)
  PROVE  SameReplies(q, r, c)
<1>1. /\ Len(q) \in Nat /\ DOMAIN q = 1..Len(q) /\ DOMAIN r = 1..Len(q) + 1
      /\ r[Len(q) + 1] = x /\ \A i \in DOMAIN q : i \in DOMAIN r /\ r[i] = q[i]
  BY Longer
<1>2. ASSUME NEW k \in DOMAIN r, RepliesTo(r[k], c)
      PROVE  k \in DOMAIN q /\ RepliesTo(q[k], c)
  <2>1. k # Len(q) + 1
    BY <1>1, <1>2
  <2>2. k \in DOMAIN q
    BY <2>1, <1>1
  <2> QED
    BY <2>2, <1>1, <1>2
<1>3. NoneAt(q, c) => NoneAt(r, c)
  BY <1>2 DEF NoneAt
<1>4. ASSUME NEW y, OnlyAt(q, c, y) PROVE OnlyAt(r, c, y)
  BY <1>1, <1>2, <1>4 DEF OnlyAt
<1>5. ASSUME NEW y, NEW z, PairAt(q, c, y, z) PROVE PairAt(r, c, y, z)
  BY <1>1, <1>2, <1>5 DEF PairAt
<1> QED
  BY <1>3, <1>4, <1>5 DEF SameReplies

LEMMA RepliesShorter ==
  ASSUME NEW S, NEW q \in Seq(S), q # <<>>, NEW r, r = Tail(q), NEW c,
         ~RepliesTo(Head(q), c)
  PROVE  SameReplies(q, r, c)
<1>1. /\ Len(q) \in Nat /\ Len(q) >= 1 /\ DOMAIN q = 1..Len(q)
      /\ DOMAIN r = 1..Len(q) - 1 /\ Head(q) = q[1]
      /\ \A i \in 1..Len(q) - 1 : r[i] = q[i + 1]
  BY Taken
<1>2. ASSUME NEW k \in DOMAIN r
      PROVE  k + 1 \in DOMAIN q /\ r[k] = q[k + 1] /\ k \in Int
  BY <1>1
<1>3. ASSUME NEW i \in DOMAIN q, i # 1
      PROVE  i - 1 \in DOMAIN r /\ r[i - 1] = q[i] /\ i \in Int
  <2>1. i - 1 \in DOMAIN r /\ i \in Int /\ (i - 1) + 1 = i
    BY <1>1, <1>3
  <2> QED
    BY <2>1, <1>2
<1>4. NoneAt(q, c) => NoneAt(r, c)
  BY <1>2 DEF NoneAt
<1>5. ASSUME NEW y, OnlyAt(q, c, y), RepliesTo(y, c) PROVE OnlyAt(r, c, y)
  <2>1. PICK i \in DOMAIN q :
          q[i] = y /\ \A k \in DOMAIN q : RepliesTo(q[k], c) => k = i
    BY <1>5 DEF OnlyAt
  <2>2. i # 1
    BY <2>1, <1>1, <1>5
  <2>3. i - 1 \in DOMAIN r /\ r[i - 1] = y /\ i \in Int
    BY <2>1, <2>2, <1>3
  <2>4. ASSUME NEW k \in DOMAIN r, RepliesTo(r[k], c) PROVE k = i - 1
    <3>1. k + 1 = i
      BY <2>1, <2>4, <1>2
    <3> QED
      BY <3>1, <1>2
  <2> QED
    BY <2>3, <2>4 DEF OnlyAt
<1>6. ASSUME NEW y, NEW z, PairAt(q, c, y, z), RepliesTo(y, c) PROVE PairAt(r, c, y, z)
  <2>1. PICK i \in DOMAIN q, j \in DOMAIN q :
          /\ i < j /\ q[i] = y /\ q[j] = z
          /\ \A k \in DOMAIN q : RepliesTo(q[k], c) => k = i \/ k = j
    BY <1>6 DEF PairAt
  <2>2. i # 1 /\ j # 1
    BY <2>1, <1>1, <1>6
  <2>3. /\ i - 1 \in DOMAIN r /\ r[i - 1] = y /\ i \in Int
        /\ j - 1 \in DOMAIN r /\ r[j - 1] = z /\ j \in Int
        /\ i - 1 < j - 1
    BY <2>1, <2>2, <1>3
  <2>4. ASSUME NEW k \in DOMAIN r, RepliesTo(r[k], c) PROVE k = i - 1 \/ k = j - 1
    <3>1. k + 1 = i \/ k + 1 = j
      BY <2>1, <2>4, <1>2
    <3> QED
      BY <3>1, <2>3, <1>2
  <2> QED
    BY <2>3, <2>4 DEF PairAt
<1> QED
  BY <1>4, <1>5, <1>6 DEF SameReplies

\* The next callback is the first of the replies to its call.
LEMMA FirstReply ==
  ASSUME NEW S, NEW q \in Seq(S), q # <<>>, NEW r, r = Tail(q), NEW c,
         RepliesTo(Head(q), c)
  PROVE  /\ ~NoneAt(q, c)
         /\ \A x : OnlyAt(q, c, x) => Head(q) = x /\ NoneAt(r, c)
         /\ \A x, y : RepliesTo(y, c) /\ PairAt(q, c, x, y) => Head(q) = x /\ OnlyAt(r, c, y)
<1>1. /\ Len(q) \in Nat /\ Len(q) >= 1 /\ DOMAIN q = 1..Len(q)
      /\ DOMAIN r = 1..Len(q) - 1 /\ Head(q) = q[1]
      /\ \A i \in 1..Len(q) - 1 : r[i] = q[i + 1]
  BY Taken
<1>2. ASSUME NEW k \in DOMAIN r
      PROVE  k + 1 \in DOMAIN q /\ r[k] = q[k + 1] /\ k \in Int /\ k + 1 # 1
  BY <1>1
<1>3. 1 \in DOMAIN q /\ RepliesTo(q[1], c)
  BY <1>1
<1>4. ~NoneAt(q, c)
  BY <1>3 DEF NoneAt
<1>5. ASSUME NEW x, OnlyAt(q, c, x) PROVE Head(q) = x /\ NoneAt(r, c)
  <2>1. PICK i \in DOMAIN q :
          q[i] = x /\ \A k \in DOMAIN q : RepliesTo(q[k], c) => k = i
    BY <1>5 DEF OnlyAt
  <2>2. i = 1
    BY <2>1, <1>3
  <2>3. ASSUME NEW k \in DOMAIN r PROVE ~RepliesTo(r[k], c)
    BY <2>1, <2>2, <1>2
  <2> QED
    BY <2>1, <2>2, <2>3, <1>1 DEF NoneAt
<1>6. ASSUME NEW x, NEW y, PairAt(q, c, x, y), RepliesTo(y, c)
      PROVE  Head(q) = x /\ OnlyAt(r, c, y)
  <2>1. PICK i \in DOMAIN q, j \in DOMAIN q :
          /\ i < j /\ q[i] = x /\ q[j] = y
          /\ \A k \in DOMAIN q : RepliesTo(q[k], c) => k = i \/ k = j
    BY <1>6 DEF PairAt
  <2>2. i = 1 /\ j \in Int /\ j # 1
    BY <2>1, <1>1, <1>3
  <2>3. j - 1 \in DOMAIN r /\ r[j - 1] = y
    <3>1. j - 1 \in DOMAIN r
      BY <2>2, <1>1
    <3>2. (j - 1) + 1 = j
      BY <2>2
    <3> QED
      BY <3>1, <3>2, <2>1, <1>2
  <2>4. ASSUME NEW k \in DOMAIN r, RepliesTo(r[k], c) PROVE k = j - 1
    <3>1. k + 1 = j
      BY <2>1, <2>2, <2>4, <1>2
    <3> QED
      BY <3>1, <1>2
  <2> QED
    BY <2>1, <2>2, <2>3, <2>4, <1>1 DEF OnlyAt
<1> QED
  BY <1>4, <1>5, <1>6

\* Replies posted for a call that had none.
LEMMA OneAdded ==
  ASSUME NEW S, NEW q \in Seq(S), NEW x \in S, NEW r, r = Append(q, x), NEW c,
         NoneAt(q, c)
  PROVE  OnlyAt(r, c, x)
<1>1. /\ Len(q) \in Nat /\ DOMAIN q = 1..Len(q) /\ DOMAIN r = 1..Len(q) + 1
      /\ r[Len(q) + 1] = x /\ \A i \in 1..Len(q) : r[i] = q[i]
  BY Longer
<1>2. ASSUME NEW k \in DOMAIN r, RepliesTo(r[k], c) PROVE k = Len(q) + 1
  <2>1. ASSUME k \in DOMAIN q PROVE FALSE
    BY <2>1, <1>1, <1>2 DEF NoneAt
  <2> QED
    BY <2>1, <1>1
<1> QED
  BY <1>1, <1>2 DEF OnlyAt

LEMMA TwoAdded ==
  ASSUME NEW S, NEW q \in Seq(S), NEW x \in S, NEW y \in S,
         NEW p, p = Append(q, x), NEW r, r = Append(p, y), NEW c, NoneAt(q, c)
  PROVE  PairAt(r, c, x, y)
<1>1. /\ Len(q) \in Nat /\ DOMAIN q = 1..Len(q) /\ DOMAIN p = 1..Len(q) + 1
      /\ p[Len(q) + 1] = x /\ \A i \in 1..Len(q) : p[i] = q[i]
      /\ p \in Seq(S) /\ Len(p) = Len(q) + 1
  BY Longer, Appended
<1>2. /\ DOMAIN r = 1..Len(q) + 2 /\ r[Len(q) + 2] = y
      /\ \A i \in 1..Len(q) + 1 : r[i] = p[i]
  <2>1. DOMAIN r = 1..Len(p) + 1 /\ r[Len(p) + 1] = y /\ \A i \in 1..Len(p) : r[i] = p[i]
    BY <1>1, Longer
  <2>2. Len(p) + 1 = Len(q) + 2
    BY <1>1
  <2> QED
    BY <2>1, <2>2, <1>1
<1>3. ASSUME NEW k \in DOMAIN r, RepliesTo(r[k], c) PROVE k = Len(q) + 1 \/ k = Len(q) + 2
  <2>1. ASSUME k \in DOMAIN q PROVE FALSE
    <3>1. r[k] = q[k]
      BY <2>1, <1>1, <1>2
    <3> QED
      BY <2>1, <3>1, <1>3 DEF NoneAt
  <2> QED
    BY <2>1, <1>1, <1>2
<1>4. /\ Len(q) + 1 \in DOMAIN r /\ Len(q) + 2 \in DOMAIN r /\ Len(q) + 1 < Len(q) + 2
      /\ r[Len(q) + 1] = x /\ r[Len(q) + 2] = y
  BY <1>1, <1>2
<1> QED
  BY <1>3, <1>4 DEF PairAt

LEMMA JobsChanged ==
  ASSUME NEW S, NEW q \in Seq(S), NEW c
  PROVE  /\ \A x \in S : JobAt(Append(q, x), c) <=> JobAt(q, c) \/ x = c
         /\ q # <<>> => (JobAt(q, c) <=> JobAt(Tail(q), c) \/ Head(q) = c)
<1>1. ASSUME NEW x \in S PROVE JobAt(Append(q, x), c) <=> JobAt(q, c) \/ x = c
  <2>1. PICK r : r = Append(q, x)
    OBVIOUS
  <2>2. /\ Len(q) \in Nat /\ DOMAIN q = 1..Len(q) /\ DOMAIN r = 1..Len(q) + 1
        /\ r[Len(q) + 1] = x /\ \A i \in 1..Len(q) : r[i] = q[i]
    BY <2>1, Longer
  <2>3. JobAt(r, c) <=> JobAt(q, c) \/ x = c
    BY <2>2 DEF JobAt
  <2> QED
    BY <2>1, <2>3
<1>2. ASSUME q # <<>> PROVE JobAt(q, c) <=> JobAt(Tail(q), c) \/ Head(q) = c
  <2>1. PICK r : r = Tail(q)
    OBVIOUS
  <2>2. /\ Len(q) \in Nat /\ Len(q) >= 1 /\ DOMAIN q = 1..Len(q)
        /\ DOMAIN r = 1..Len(q) - 1 /\ Head(q) = q[1]
        /\ \A i \in 1..Len(q) - 1 : r[i] = q[i + 1]
    BY <2>1, <1>2, Taken
  <2>3. ASSUME NEW k \in DOMAIN q, q[k] = c, k # 1 PROVE JobAt(r, c)
    <3>1. k - 1 \in DOMAIN r /\ (k - 1) + 1 = k
      BY <2>2, <2>3
    <3> QED
      BY <3>1, <2>2, <2>3 DEF JobAt
  <2>4. ASSUME NEW k \in DOMAIN r, r[k] = c PROVE JobAt(q, c)
    <3>1. k + 1 \in DOMAIN q /\ q[k + 1] = c
      BY <2>2, <2>4
    <3> QED
      BY <3>1 DEF JobAt
  <2>5. JobAt(q, c) <=> JobAt(r, c) \/ Head(q) = c
    BY <2>2, <2>3, <2>4 DEF JobAt
  <2> QED
    BY <2>1, <2>5
<1> QED
  BY <1>1, <1>2

LEMMA CommitAdded ==
  ASSUME NEW S, NEW q \in Seq(S), NEW x \in S, NEW r, r = Append(q, x), NEW c
  PROVE  /\ x.commit => (CommitAt(r, c) <=> CommitAt(q, c) \/ x.call = c)
         /\ ~x.commit => (CommitAt(r, c) <=> CommitAt(q, c))
<1>1. /\ Len(q) \in Nat /\ DOMAIN q = 1..Len(q) /\ DOMAIN r = 1..Len(q) + 1
      /\ r[Len(q) + 1] = x /\ \A i \in 1..Len(q) : r[i] = q[i]
  BY Longer
<1>2. ASSUME x.commit PROVE CommitAt(r, c) <=> CommitAt(q, c) \/ x.call = c
  BY <1>1, <1>2 DEF CommitAt
<1>3. ASSUME ~x.commit PROVE CommitAt(r, c) <=> CommitAt(q, c)
  BY <1>1, <1>3 DEF CommitAt
<1> QED
  BY <1>2, <1>3

LEMMA CommitTaken ==
  ASSUME NEW S, NEW q \in Seq(S), q # <<>>, NEW r, r = Tail(q), NEW c
  PROVE  /\ Head(q).commit => (CommitAt(q, c) <=> CommitAt(r, c) \/ Head(q).call = c)
         /\ ~Head(q).commit => (CommitAt(q, c) <=> CommitAt(r, c))
<1>1. /\ Len(q) \in Nat /\ Len(q) >= 1 /\ DOMAIN q = 1..Len(q)
      /\ DOMAIN r = 1..Len(q) - 1 /\ Head(q) = q[1]
      /\ \A i \in 1..Len(q) - 1 : r[i] = q[i + 1]
  BY Taken
<1>2. ASSUME NEW k \in DOMAIN q, q[k].commit, q[k].call = c, k # 1 PROVE CommitAt(r, c)
  <2>1. k - 1 \in DOMAIN r /\ (k - 1) + 1 = k
    BY <1>1, <1>2
  <2>2. r[k - 1] = q[k]
    BY <2>1, <1>1
  <2> QED
    BY <2>1, <2>2, <1>2 DEF CommitAt
<1>3. ASSUME NEW k \in DOMAIN r, r[k].commit, r[k].call = c PROVE CommitAt(q, c)
  <2>1. k + 1 \in DOMAIN q /\ q[k + 1] = r[k]
    BY <1>1, <1>3
  <2> QED
    BY <2>1, <1>3 DEF CommitAt
<1>4. ASSUME Head(q).commit PROVE CommitAt(q, c) <=> CommitAt(r, c) \/ Head(q).call = c
  BY <1>1, <1>2, <1>3, <1>4 DEF CommitAt
<1>5. ASSUME ~Head(q).commit PROVE CommitAt(q, c) <=> CommitAt(r, c)
  BY <1>1, <1>2, <1>3, <1>5 DEF CommitAt
<1> QED
  BY <1>4, <1>5

LEMMA FirstAnswer ==
  ASSUME NEW reply \in ReplySet
  PROVE  Append(<<>>, reply) = <<reply>>
<1>1. <<>> \in Seq(ReplySet) /\ Len(<<>>) = 0
  OBVIOUS
<1>2. Append(<<>>, reply) \in Seq(ReplySet)
      /\ Len(Append(<<>>, reply)) = 1 /\ Append(<<>>, reply)[1] = reply
  BY <1>1, AppendProperties
<1>3. <<reply>> \in Seq(ReplySet) /\ Len(<<reply>>) = 1 /\ <<reply>>[1] = reply
  OBVIOUS
<1> QED
  BY <1>2, <1>3, SeqEqual

-----------------------------------------------------------------------------
(* Stages of calls.                                                        *)

Bad      == Failed("bad_message")
Unfilled == Reply("none", "unfilled")

LEMMA PostedReplies ==
  ASSUME NEW c, NEW reply
  PROVE  RepliesTo(Posted(c, reply), c)
BY DEF RepliesTo, Posted

\* A step that neither answers a call nor moves it.
LEMMA StageKept ==
  ASSUME NEW c, Stage(c), calls'[c] = calls[c], outcome'[c] = outcome[c],
         answers'[c] = answers[c], Waits(c)' <=> Waits(c),
         SameReplies(mainLoop, mainLoop', c)
  PROVE  Stage(c)'
<1>1. CASE Waits(c) /\ answers[c] = <<>> /\ NoneAt(mainLoop, c)
  BY <1>1 DEF Stage, SameReplies
<1>2. CASE ~Waits(c) /\ \E reply \in ReplySet : HasOne(c, reply)
  <2>1. PICK reply \in ReplySet : HasOne(c, reply)
    BY <1>2
  <2>2. HasOne(c, reply)'
    BY <2>1, PostedReplies DEF HasOne, SameReplies
  <2> QED
    BY <2>2, <1>2 DEF Stage, ReplySet
<1>3. CASE ~Waits(c) /\ HasTwo(c, Bad, Unfilled)
  <2>1. HasTwo(c, Bad, Unfilled)'
    BY <1>3, PostedReplies DEF HasTwo, SameReplies, Bad, Unfilled
  <2> QED
    BY <2>1, <1>3 DEF Stage, Bad, Unfilled
<1> QED
  BY <1>1, <1>2, <1>3 DEF Stage, Bad, Unfilled

LEMMA SameQueue ==
  ASSUME NEW q, NEW r, r = q, NEW c
  PROVE  SameReplies(q, r, c)
BY DEF SameReplies

\* Whatever is queued belongs to a call that has been made.
LEMMA QueuedCalls ==
  ASSUME CallsInv
  PROVE  /\ jobs \in Seq(PendingJobs) /\ mainLoop \in Seq(OwnPostings)
         /\ \A c : JobAt(jobs, c) => OnWorker(c) /\ outcome[c] = "unknown" /\ c # running
         /\ \A c : CommitAt(mainLoop, c) =>
                     Commits(c) /\ outcome[c] = "unknown" /\ c # committing
         /\ \A c : c \notin DOMAIN calls => NoneAt(mainLoop, c)
         /\ running # 0 => OnWorker(running) /\ outcome[running] = "unknown"
         /\ committing # 0 => Commits(committing) /\ outcome[committing] = "unknown"
<1>1. jobs \in Seq(PendingJobs) /\ mainLoop \in Seq(OwnPostings)
  BY DEF CallsInv, CallsPending
<1>2. ASSUME NEW k \in DOMAIN jobs
      PROVE  OnWorker(jobs[k]) /\ outcome[jobs[k]] = "unknown" /\ jobs[k] # running
  BY <1>1, Element DEF PendingJobs
<1>3. ASSUME NEW k \in DOMAIN mainLoop
      PROVE  /\ mainLoop[k].call \in DOMAIN calls
             /\ mainLoop[k].commit =>
                  /\ Commits(mainLoop[k].call) /\ outcome[mainLoop[k].call] = "unknown"
                  /\ mainLoop[k].call # committing
  BY <1>1, Element DEF OwnPostings
<1>4. \A c : JobAt(jobs, c) => OnWorker(c) /\ outcome[c] = "unknown" /\ c # running
  BY <1>2 DEF JobAt
<1>5. \A c : CommitAt(mainLoop, c) => Commits(c) /\ outcome[c] = "unknown" /\ c # committing
  BY <1>3 DEF CommitAt
<1>6. \A c : c \notin DOMAIN calls => NoneAt(mainLoop, c)
  BY <1>3 DEF NoneAt, RepliesTo
<1> QED
  BY <1>1, <1>4, <1>5, <1>6 DEF CallsInv, CallsPending

\* A call that is made is nowhere yet.
LEMMA NewCallIsNowhere ==
  ASSUME CallsInv, NEW new, new \notin DOMAIN calls, new # 0
  PROVE  ~Waits(new) /\ NoneAt(mainLoop, new)
<1>1. ~JobAt(jobs, new) /\ ~CommitAt(mainLoop, new) /\ NoneAt(mainLoop, new)
  BY QueuedCalls DEF OnWorker, Commits
<1>2. running # new /\ committing # new
  <2>1. /\ running # 0 => running \in DOMAIN calls
        /\ committing # 0 => committing \in DOMAIN calls
    BY DEF CallsInv, CallsPending, OnWorker, Commits
  <2> QED
    BY <2>1
<1> QED
  BY <1>1, <1>2 DEF Waits

LEMMA NoEndpointStages ==
  ASSUME CallsInv, Stages, NEW request \in Requests, CallWithoutEndpoint(request)
  PROVE  Stages'
<1> DEFINE posted == Posted(NewCall, Failed("no_such_device"))
<1>1. /\ MakeCall(request) /\ mainLoop' = Append(mainLoop, posted)
      /\ nvmeEP' = nvmeEP /\ jobs' = jobs /\ committing' = committing /\ answers' = answers
      /\ running' = running /\ left' = left /\ timeout' = timeout /\ saved' = saved
      /\ errno' = errno /\ outcome' = outcome /\ failures' = failures
  BY DEF CallWithoutEndpoint, workerVars
<1>2. PICK new : new = NewCall /\ CallKept(new, request)
  BY <1>1, CallMade
<1>3. PICK reply \in ReplySet : reply = Failed("no_such_device")
  BY FailedIsReply
<1>4. PICK x : x = Posted(new, reply) /\ x \in Posting /\ x.call = new /\ x.commit = FALSE
  <2>1. PICK x : x = Posted(new, reply)
    OBVIOUS
  <2>2. new \in Call
    BY <1>2 DEF CallKept
  <2>3. x \in Posting /\ x.call = new /\ x.commit = FALSE
    BY <2>1, <2>2, PostedIsPosting
  <2> QED
    BY <2>1, <2>3
<1>5. mainLoop' = Append(mainLoop, x)
  BY <1>1, <1>2, <1>3, <1>4
<1>6. mainLoop \in Seq(Posting)
  BY DEF CallsInv, TypeOK
<1>7. \A c : Waits(c)' <=> Waits(c)
  <2>1. ASSUME NEW c PROVE CommitAt(mainLoop', c) <=> CommitAt(mainLoop, c)
    BY <1>4, <1>5, <1>6, CommitAdded
  <2> QED
    BY <2>1, <1>1 DEF Waits
<1>8. ASSUME NEW c \in DOMAIN calls PROVE Stage(c)'
  <2>1. c # new /\ calls'[c] = calls[c]
    BY <1>2 DEF CallKept
  <2>2. SameReplies(mainLoop, mainLoop', c)
    BY <2>1, <1>4, <1>5, <1>6, RepliesLonger DEF RepliesTo
  <2>3. Stage(c)
    BY DEF Stages
  <2> QED
    BY <2>1, <2>2, <2>3, <1>1, <1>7, StageKept
<1>9. Stage(new)'
  <2>1. ~Waits(new)' /\ NoneAt(mainLoop, new) /\ answers'[new] = <<>> /\ outcome'[new] = "unknown"
    BY <1>1, <1>2, <1>7, NewCallIsNowhere DEF CallKept
  <2>2. OnlyAt(mainLoop', new, x)
    BY <2>1, <1>4, <1>5, <1>6, OneAdded
  <2>3. Truthful(reply, calls'[new], outcome'[new])
    BY <2>1, <1>3 DEF Truthful, Failed, Reply
  <2>4. HasOne(new, reply)'
    BY <2>1, <2>2, <2>3, <1>4 DEF HasOne
  <2> QED
    BY <2>1, <2>4 DEF Stage, ReplySet
<1> QED
  BY <1>2, <1>8, <1>9 DEF Stages, CallKept

LEMMA CallWorkerStages ==
  ASSUME CallsInv, Stages, NEW request \in Requests, CallWorker(request)
  PROVE  Stages'
<1>1. /\ MakeCall(request) /\ jobs' = Append(jobs, NewCall)
      /\ nvmeEP' = nvmeEP /\ mainLoop' = mainLoop /\ committing' = committing
      /\ answers' = answers
      /\ running' = running /\ left' = left /\ timeout' = timeout /\ saved' = saved
      /\ errno' = errno /\ outcome' = outcome /\ failures' = failures
  BY DEF CallWorker, workerVars
<1>2. PICK new : new = NewCall /\ CallKept(new, request)
  BY <1>1, CallMade
<1>3. \A c : JobAt(jobs', c) <=> JobAt(jobs, c) \/ new = c
  <2>1. new \in Call /\ jobs \in Seq(Call)
    BY <1>2 DEF CallKept, CallsInv, TypeOK
  <2> QED
    BY <2>1, <1>1, <1>2, JobsChanged
<1>4. ASSUME NEW c \in DOMAIN calls PROVE Stage(c)'
  <2>1. c # new /\ calls'[c] = calls[c]
    BY <1>2 DEF CallKept
  <2>2. Waits(c)' <=> Waits(c)
    BY <2>1, <1>1, <1>3 DEF Waits
  <2>3. Stage(c) /\ SameReplies(mainLoop, mainLoop', c)
    BY <1>1, SameQueue DEF Stages
  <2> QED
    BY <2>1, <2>2, <2>3, <1>1, StageKept
<1>5. Stage(new)'
  <2>1. NoneAt(mainLoop, new) /\ answers'[new] = <<>>
    BY <1>1, <1>2, NewCallIsNowhere DEF CallKept
  <2>2. Waits(new)'
    BY <1>3 DEF Waits
  <2> QED
    BY <2>1, <2>2, <1>1 DEF Stage
<1> QED
  BY <1>2, <1>4, <1>5 DEF Stages, CallKept

LEMMA FwCommitStages ==
  ASSUME CallsInv, Stages, "fw commit" \in Requests, adminFwCommit
  PROVE  Stages'
<1>1. /\ MakeCall("fw commit")
      /\ mainLoop' = Append(mainLoop, [call |-> NewCall, commit |-> TRUE])
      /\ nvmeEP' = nvmeEP /\ jobs' = jobs /\ committing' = committing /\ answers' = answers
      /\ running' = running /\ left' = left /\ timeout' = timeout /\ saved' = saved
      /\ errno' = errno /\ outcome' = outcome /\ failures' = failures
  BY DEF adminFwCommit, workerVars
<1>2. PICK new : new = NewCall /\ CallKept(new, "fw commit")
  BY <1>1, CallMade
<1>3. PICK commit : /\ commit = [call |-> new, commit |-> TRUE]
                    /\ commit \in Posting /\ commit.call = new /\ commit.commit = TRUE
  <2>1. new \in Call
    BY <1>2 DEF CallKept
  <2> QED
    BY <2>1, CommitIsPosting
<1>4. mainLoop \in Seq(Posting) /\ mainLoop' = Append(mainLoop, commit)
  BY <1>1, <1>2, <1>3 DEF CallsInv, TypeOK
<1>5. \A c : CommitAt(mainLoop', c) <=> CommitAt(mainLoop, c) \/ new = c
  <2> SUFFICES ASSUME NEW c
               PROVE  CommitAt(mainLoop', c) <=> CommitAt(mainLoop, c) \/ new = c
    OBVIOUS
  <2>1. commit \in Posting /\ commit.commit /\ commit.call = new
    BY <1>3
  <2> QED
    BY <2>1, <1>4, CommitAdded
<1>6. \A c : SameReplies(mainLoop, mainLoop', c)
  <2> SUFFICES ASSUME NEW c PROVE SameReplies(mainLoop, mainLoop', c)
    OBVIOUS
  <2>1. ~RepliesTo(commit, c)
    BY <1>3 DEF RepliesTo
  <2> QED
    BY <2>1, <1>3, <1>4, RepliesLonger
<1>7. ASSUME NEW c \in DOMAIN calls PROVE Stage(c)'
  <2>1. c # new /\ calls'[c] = calls[c]
    BY <1>2 DEF CallKept
  <2>2. Waits(c)' <=> Waits(c)
    BY <2>1, <1>1, <1>5 DEF Waits
  <2>3. Stage(c) /\ SameReplies(mainLoop, mainLoop', c)
    BY <1>6 DEF Stages
  <2> QED
    BY <2>1, <2>2, <2>3, <1>1, StageKept
<1>8. Stage(new)'
  <2>1. NoneAt(mainLoop', new) /\ answers'[new] = <<>>
    BY <1>1, <1>2, <1>6, NewCallIsNowhere DEF CallKept, SameReplies
  <2>2. Waits(new)'
    BY <1>5 DEF Waits
  <2> QED
    BY <2>1, <2>2 DEF Stage
<1> QED
  BY <1>2, <1>7, <1>8 DEF Stages, CallKept

LEMMA TooLongStages ==
  ASSUME CallsInv, Stages, "security receive too long" \in Requests, ReceiveTooLong
  PROVE  Stages'
<1>1. /\ MakeCall("security receive too long")
      /\ answers' = [answers EXCEPT ![NewCall] = Append(@, Failed("invalid_argument"))]
      /\ nvmeEP' = nvmeEP /\ jobs' = jobs /\ committing' = committing /\ mainLoop' = mainLoop
      /\ running' = running /\ left' = left /\ timeout' = timeout /\ saved' = saved
      /\ errno' = errno /\ outcome' = outcome /\ failures' = failures
  BY DEF ReceiveTooLong, workerVars
<1>2. PICK new : new = NewCall /\ CallKept(new, "security receive too long")
  BY <1>1, CallMade
<1>3. PICK reply \in ReplySet : reply = Failed("invalid_argument")
  BY FailedIsReply
<1>4. /\ \A c \in Call \ {new} : answers'[c] = answers[c]
      /\ answers'[new] = <<reply>>
  <2>1. answers \in [Call -> Seq(ReplySet)] /\ new \in Call /\ answers[new] = <<>>
    BY <1>2 DEF CallsInv, TypeOK, CallKept
  <2>2. answers' = [answers EXCEPT ![new] = Append(@, reply)]
    BY <1>1, <1>2, <1>3
  <2>3. Append(<<>>, reply) = <<reply>>
    BY FirstAnswer
  <2> QED
    BY <2>1, <2>2, <2>3
<1>5. \A c : Waits(c)' <=> Waits(c)
  BY <1>1 DEF Waits
<1>6. ASSUME NEW c \in DOMAIN calls PROVE Stage(c)'
  <2>1. c # new /\ calls'[c] = calls[c] /\ c \in Call
    BY <1>2, CallTypes DEF CallKept
  <2>2. Stage(c) /\ SameReplies(mainLoop, mainLoop', c) /\ answers'[c] = answers[c]
    BY <2>1, <1>1, <1>4, SameQueue DEF Stages
  <2> QED
    BY <2>1, <2>2, <1>1, <1>5, StageKept
<1>7. Stage(new)'
  <2>1. ~Waits(new)' /\ NoneAt(mainLoop', new) /\ outcome'[new] = "unknown"
    BY <1>1, <1>2, <1>5, NewCallIsNowhere DEF CallKept
  <2>2. Truthful(reply, calls'[new], outcome'[new])
    BY <2>1, <1>3 DEF Truthful, Failed, Reply
  <2>3. HasOne(new, reply)'
    BY <2>1, <2>2, <1>4 DEF HasOne
  <2> QED
    BY <2>1, <2>3 DEF Stage, ReplySet
<1> QED
  BY <1>2, <1>6, <1>7 DEF Stages, CallKept

LEMMA StartStages ==
  ASSUME CallsInv, Stages, StartJob
  PROVE  Stages'
<1>1. /\ running = 0 /\ jobs # <<>> /\ running' = Head(jobs) /\ jobs' = Tail(jobs)
      /\ calls' = calls /\ mainLoop' = mainLoop /\ committing' = committing
      /\ answers' = answers /\ outcome' = outcome
  BY DEF StartJob
<1>2. ASSUME NEW c \in DOMAIN calls PROVE Stage(c)'
  <2>1. JobAt(jobs, c) <=> JobAt(jobs', c) \/ running' = c
    BY <1>1, JobsChanged DEF CallsInv, TypeOK
  <2>2. Waits(c)' <=> Waits(c)
    BY <2>1, <1>1, CallTypes DEF Waits
  <2>3. Stage(c) /\ SameReplies(mainLoop, mainLoop', c)
    BY <1>1, SameQueue DEF Stages
  <2> QED
    BY <2>2, <2>3, <1>1, StageKept
<1> QED
  BY <1>1, <1>2 DEF Stages

LEMMA CommitStartStages ==
  ASSUME CallsInv, Stages, CommitStarts
  PROVE  Stages'
<1>1. /\ committing = 0 /\ mainLoop # <<>> /\ Head(mainLoop).commit
      /\ mainLoop' = Tail(mainLoop) /\ committing' = Head(mainLoop).call
      /\ calls' = calls /\ jobs' = jobs /\ answers' = answers
      /\ running' = running /\ outcome' = outcome
  BY DEF CommitStarts, workerVars
<1>2. mainLoop \in Seq(Posting)
  BY DEF CallsInv, TypeOK
<1>3. ASSUME NEW c \in DOMAIN calls PROVE Stage(c)'
  <2>1. CommitAt(mainLoop, c) <=> CommitAt(mainLoop', c) \/ committing' = c
    BY <1>1, <1>2, CommitTaken
  <2>2. Waits(c)' <=> Waits(c)
    BY <2>1, <1>1, CallTypes DEF Waits
  <2>3. Stage(c) /\ SameReplies(mainLoop, mainLoop', c)
    BY <1>1, <1>2, RepliesShorter DEF Stages, RepliesTo
  <2> QED
    BY <2>2, <2>3, <1>1, StageKept
<1> QED
  BY <1>1, <1>3 DEF Stages

-----------------------------------------------------------------------------
(* Ends of calls.                                                          *)

LEMMA Joined ==
  ASSUME NEW S, NEW q \in Seq(S), NEW s \in Seq(S)
  PROVE  /\ Len(q) \in Nat /\ Len(s) \in Nat /\ DOMAIN s = 1..Len(s)
         /\ q \o s \in Seq(S) /\ Len(q \o s) = Len(q) + Len(s)
         /\ \A i \in 1..Len(q) : (q \o s)[i] = q[i]
         /\ \A i \in 1..Len(s) : (q \o s)[Len(q) + i] = s[i]
<1>1. Len(q) \in Nat /\ Len(s) \in Nat /\ DOMAIN s = 1..Len(s)
  OBVIOUS
<1>2. /\ q \o s \in Seq(S) /\ Len(q \o s) = Len(q) + Len(s)
      /\ \A i \in 1..Len(q) + Len(s) :
           (q \o s)[i] = IF i <= Len(q) THEN q[i] ELSE s[i - Len(q)]
  BY ConcatProperties
<1>3. ASSUME NEW i \in 1..Len(q) PROVE (q \o s)[i] = q[i]
  BY <1>1, <1>2
<1>4. ASSUME NEW i \in 1..Len(s) PROVE (q \o s)[Len(q) + i] = s[i]
  <2>1. /\ Len(q) + i \in 1..Len(q) + Len(s)
        /\ ~(Len(q) + i <= Len(q)) /\ (Len(q) + i) - Len(q) = i
    BY <1>1
  <2> QED
    BY <2>1, <1>2
<1> QED
  BY <1>1, <1>2, <1>3, <1>4

LEMMA JoinedOne ==
  ASSUME NEW S, NEW q \in Seq(S), NEW s \in Seq(S), Len(s) = 1
  PROVE  q \o s = Append(q, s[1])
<1>1. /\ Len(q) \in Nat /\ 1 \in DOMAIN s /\ q \o s \in Seq(S) /\ Len(q \o s) = Len(q) + 1
      /\ \A i \in 1..Len(q) : (q \o s)[i] = q[i]
      /\ (q \o s)[Len(q) + 1] = s[1]
  <2>1. /\ Len(q) \in Nat /\ DOMAIN s = 1..Len(s) /\ q \o s \in Seq(S)
        /\ Len(q \o s) = Len(q) + Len(s)
        /\ \A i \in 1..Len(q) : (q \o s)[i] = q[i]
        /\ \A i \in 1..Len(s) : (q \o s)[Len(q) + i] = s[i]
    BY Joined
  <2>2. 1 \in 1..Len(s)
    OBVIOUS
  <2> QED
    BY <2>1, <2>2
<1>2. s[1] \in S
  BY <1>1, Element
<1>3. PICK r : r = Append(q, s[1])
  OBVIOUS
<1>4. /\ r \in Seq(S) /\ Len(r) = Len(q) + 1
      /\ r[Len(q) + 1] = s[1] /\ \A i \in 1..Len(q) : r[i] = q[i]
  BY <1>2, <1>3, Appended, Longer
<1>5. ASSUME NEW i \in 1..Len(q) + 1 PROVE (q \o s)[i] = r[i]
  <2>1. i \in 1..Len(q) \/ i = Len(q) + 1
    BY <1>1
  <2> QED
    BY <2>1, <1>1, <1>4
<1>6. q \o s = r
  BY <1>1, <1>4, <1>5, SeqEqual
<1> QED
  BY <1>3, <1>6

LEMMA JoinedTwo ==
  ASSUME NEW S, NEW q \in Seq(S), NEW s \in Seq(S)
  PROVE  Len(s) = 2 => q \o s = Append(Append(q, s[1]), s[2])
<1>0. /\ Len(q) \in Nat /\ DOMAIN s = 1..Len(s) /\ q \o s \in Seq(S)
      /\ Len(q \o s) = Len(q) + Len(s)
      /\ \A i \in 1..Len(q) : (q \o s)[i] = q[i]
      /\ \A i \in 1..Len(s) : (q \o s)[Len(q) + i] = s[i]
  BY Joined
<1> HAVE Len(s) = 2
<1>1. /\ Len(q) \in Nat /\ 1 \in DOMAIN s /\ 2 \in DOMAIN s
      /\ q \o s \in Seq(S) /\ Len(q \o s) = Len(q) + 2
      /\ \A i \in 1..Len(q) : (q \o s)[i] = q[i]
      /\ (q \o s)[Len(q) + 1] = s[1] /\ (q \o s)[Len(q) + 2] = s[2]
  <2>1. 1 \in 1..Len(s) /\ 2 \in 1..Len(s)
    OBVIOUS
  <2> QED
    BY <2>1, <1>0
<1>2. s[1] \in S /\ s[2] \in S
  BY <1>1, Element
<1>3. PICK p : p = Append(q, s[1])
  OBVIOUS
<1>4. /\ p \in Seq(S) /\ Len(p) = Len(q) + 1
      /\ p[Len(q) + 1] = s[1] /\ \A i \in 1..Len(q) : p[i] = q[i]
  BY <1>2, <1>3, Appended, Longer
<1>5. PICK r : r = Append(p, s[2])
  OBVIOUS
<1>6. /\ r \in Seq(S) /\ Len(r) = Len(p) + 1
      /\ r[Len(p) + 1] = s[2] /\ \A i \in 1..Len(p) : r[i] = p[i]
  BY <1>2, <1>4, <1>5, Appended, Longer
<1>7. ASSUME NEW i \in 1..Len(q) + 2 PROVE (q \o s)[i] = r[i]
  <2>1. CASE i \in 1..Len(q)
    <3>1. i \in 1..Len(p)
      BY <2>1, <1>1, <1>4
    <3> QED
      BY <3>1, <2>1, <1>1, <1>4, <1>6
  <2>2. CASE i = Len(q) + 1
    <3>1. i \in 1..Len(p)
      BY <2>2, <1>1, <1>4
    <3>2. r[i] = p[i] /\ p[i] = s[1]
      BY <3>1, <2>2, <1>4, <1>6
    <3> QED
      BY <3>2, <2>2, <1>1
  <2>3. CASE i = Len(q) + 2
    <3>1. i = Len(p) + 1
      BY <2>3, <1>1, <1>4
    <3> QED
      BY <3>1, <2>3, <1>1, <1>6
  <2>4. i \in 1..Len(q) \/ i = Len(q) + 1 \/ i = Len(q) + 2
    BY <1>1
  <2> QED
    BY <2>1, <2>2, <2>3, <2>4
<1>8. Len(r) = Len(q) + 2
  BY <1>1, <1>4, <1>6
<1>9. q \o s = r
  BY <1>1, <1>6, <1>7, <1>8, SeqEqual
<1> QED
  BY <1>3, <1>5, <1>9

\* A closure gives one true reply, or the two of a log page that is refused.
LEMMA RepliesShape ==
  ASSUME NEW request \in LogRequests \cup Security \cup {"xfer"},
         NEW rc \in Errnos \cup {"done", "refused", "excess", "EINVAL"},
         rc = "excess" => request \in Security,
         NEW err \in Errnos \cup {"none", "EINVAL"}, Negative(rc) => err = rc
  PROVE  \/ \E reply \in ReplySet :
              Replies(request, rc, err) = <<reply>> /\ Truthful(reply, request, rc)
         \/ /\ Replies(request, rc, err) = <<Bad, Unfilled>>
            /\ request \in LogRequests \ ShadowedLogs /\ rc = "refused"
<1>1. Negative(rc) => rc \notin {"done", "refused", "excess"} /\ err # "none"
  BY CallConstants DEF Negative
<1>2. CASE request \in LogRequests
  <2>1. /\ request \notin Security /\ rc # "excess"
        /\ Replies(request, rc, err) = LogReplies(request, rc, err)
    BY <1>2 DEF Replies, Security, LogRequests, ShadowedLogs, TwoPartLogs, InvalidLogs
  <2>2. CASE rc = "done" \/ request \in ShadowedLogs
    <3>1. LogReplies(request, rc, err)
            = <<Reply("none", IF rc = "done" THEN "answer" ELSE "unfilled")>>
      BY <2>2, <1>1, CallConstants DEF LogReplies, Negative
    <3>2. PICK reply : reply = Reply("none", IF rc = "done" THEN "answer" ELSE "unfilled")
      OBVIOUS
    <3>3. reply \in ReplySet /\ Truthful(reply, request, rc)
      BY <3>2, <2>2 DEF Truthful, Reply, ReplySet
    <3> QED
      BY <3>1, <3>2, <3>3, <2>1
  <2>3. CASE Negative(rc) /\ request \notin ShadowedLogs
    <3>1. LogReplies(request, rc, err) = <<Failed(err)>>
      BY <2>3, <1>1, CallConstants DEF LogReplies, Negative
    <3>2. PICK reply : reply = Failed(err)
      OBVIOUS
    <3>3. reply \in ReplySet /\ Truthful(reply, request, rc)
      BY <3>2, <2>3, <1>1 DEF Truthful, Reply, ReplySet, Failed
    <3> QED
      BY <3>1, <3>2, <3>3, <2>1
  <2>4. CASE rc = "refused" /\ request \notin ShadowedLogs
    <3>1. LogReplies(request, rc, err) = <<Failed("bad_message"), Reply("none", "unfilled")>>
      BY <2>4, <1>1, CallConstants DEF LogReplies, Negative
    <3> QED
      BY <3>1, <2>1, <2>4, <1>2 DEF Bad, Unfilled
  <2> QED
    BY <2>1, <2>2, <2>3, <2>4 DEF Negative
<1>3. CASE request = "xfer"
  <2>1. /\ Replies(request, rc, err)
           = IF Negative(rc) THEN <<Failed(err)>> ELSE <<Reply("none", "answer")>>
        /\ request \notin LogRequests /\ rc # "excess"
        /\ Negative(rc) \/ rc \in {"done", "refused"}
    BY <1>3 DEF Negative, Replies, XferReplies, LogRequests, ShadowedLogs, TwoPartLogs, InvalidLogs, Security
  <2>2. PICK reply : reply = IF Negative(rc) THEN Failed(err) ELSE Reply("none", "answer")
    OBVIOUS
  <2>3. reply \in ReplySet /\ Truthful(reply, request, rc)
    BY <2>1, <2>2, <1>1, <1>3 DEF Truthful, Reply, ReplySet, Failed
  <2> QED
    BY <2>1, <2>2, <2>3
<1>4. CASE request \in Security
  <2>1. /\ Replies(request, rc, err) = SecurityReplies(request, rc, err)
        /\ request \notin LogRequests
    BY <1>4 DEF Replies, LogRequests, ShadowedLogs, TwoPartLogs, InvalidLogs, Security
  <2>2. CASE rc = "excess"
    <3>1. PICK reply : reply = Failed("protocol_error")
      OBVIOUS
    <3>2. reply \in ReplySet /\ Truthful(reply, request, rc)
      BY <3>1, <2>2 DEF Truthful, Reply, ReplySet, Failed
    <3> QED
      BY <3>1, <3>2, <2>1, <2>2 DEF SecurityReplies
  <2>3. CASE rc # "excess"
    <3>1. PICK reply : reply = Reply(err, SecurityData(request, rc))
      OBVIOUS
    <3>2. Negative(rc) \/ rc \in {"done", "refused"}
      BY <2>3 DEF Negative
    <3>3. /\ SecurityData(request, rc) \in {"answer", "unfilled", "nothing"}
          /\ SecurityData(request, rc) = "answer" =>
               rc = "done" \/ (rc = "refused" /\ request = "security send")
          /\ SecurityData(request, rc) = "unfilled" => request = "security receive" /\ rc # "done"
          /\ rc = "done" => SecurityData(request, rc) = "answer"
      BY <3>2, <1>1, <1>4 DEF SecurityData, Security
    <3>4. reply \in ReplySet /\ Truthful(reply, request, rc)
      BY <3>1, <3>2, <3>3, <1>1, <1>4 DEF Truthful, Reply, ReplySet
    <3> QED
      BY <3>1, <3>4, <2>1, <2>3 DEF SecurityReplies
  <2> QED
    BY <2>2, <2>3
<1> QED
  BY <1>2, <1>3, <1>4


\* A step that ends the call c, which waited, with a reply.
Ends(c) ==
  /\ Waits(c) /\ ~Waits(c)' /\ c \in DOMAIN calls
  /\ calls' = calls /\ answers' = answers
  /\ \A d \in DOMAIN calls \ {c} : outcome'[d] = outcome[d] /\ (Waits(d)' <=> Waits(d))

LEMMA EndedWithOne ==
  ASSUME CallsInv, Stages, NEW c, Ends(c), NEW x \in Posting, NEW reply \in ReplySet,
         x = Posted(c, reply), mainLoop' = Append(mainLoop, x),
         Truthful(reply, calls[c], outcome'[c])
  PROVE  Stages'
<1>1. mainLoop \in Seq(Posting) /\ x.call = c /\ x.commit = FALSE
  BY DEF CallsInv, TypeOK, Posted
<1>2. ASSUME NEW d \in DOMAIN calls \ {c} PROVE Stage(d)'
  <2>1. SameReplies(mainLoop, mainLoop', d)
    BY <1>1, RepliesLonger DEF RepliesTo
  <2>2. Stage(d)
    BY DEF Stages
  <2> QED
    BY <2>1, <2>2, StageKept DEF Ends
<1>3. Stage(c)'
  <2>1. answers[c] = <<>> /\ NoneAt(mainLoop, c)
    BY DEF Ends, Stages, Stage
  <2>2. OnlyAt(mainLoop', c, x)
    BY <2>1, <1>1, OneAdded
  <2>3. HasOne(c, reply)'
    BY <2>1, <2>2 DEF HasOne, Ends
  <2> QED
    BY <2>3 DEF Stage, ReplySet, Ends
<1> QED
  BY <1>2, <1>3 DEF Stages, Ends

LEMMA EndedWithTwo ==
  ASSUME CallsInv, Stages, NEW c, Ends(c), NEW x \in Posting, NEW y \in Posting,
         x = Posted(c, Bad), y = Posted(c, Unfilled),
         NEW q, q = Append(mainLoop, x), mainLoop' = Append(q, y),
         calls[c] \in LogRequests \ ShadowedLogs, outcome'[c] = "refused"
  PROVE  Stages'
<1>1. /\ mainLoop \in Seq(Posting) /\ q \in Seq(Posting)
      /\ x.call = c /\ x.commit = FALSE /\ y.call = c /\ y.commit = FALSE
  BY Appended DEF CallsInv, TypeOK, Posted
<1>2. ASSUME NEW d \in DOMAIN calls \ {c} PROVE Stage(d)'
  <2>1. SameReplies(mainLoop, q, d) /\ SameReplies(q, mainLoop', d)
    BY <1>1, RepliesLonger DEF RepliesTo
  <2>2. SameReplies(mainLoop, mainLoop', d)
    BY <2>1 DEF SameReplies
  <2>3. Stage(d)
    BY DEF Stages
  <2> QED
    BY <2>2, <2>3, StageKept DEF Ends
<1>3. Stage(c)'
  <2>1. answers[c] = <<>> /\ NoneAt(mainLoop, c)
    BY DEF Ends, Stages, Stage
  <2>2. PairAt(mainLoop', c, x, y)
    BY <2>1, <1>1, TwoAdded
  <2>3. HasTwo(c, Bad, Unfilled)'
    BY <2>1, <2>2 DEF HasTwo, Ends, Bad, Unfilled
  <2> QED
    BY <2>3 DEF Stage, Ends, Bad, Unfilled
<1> QED
  BY <1>2, <1>3 DEF Stages, Ends

LEMMA CommitEndStages ==
  ASSUME CallsInv, Stages, NEW rc \in Errnos \cup {"done", "refused"}, CommitEnds(rc)
  PROVE  Stages'
<1>1. /\ committing # 0 /\ committing' = 0
      /\ mainLoop' = Append(mainLoop, Posted(committing, CommitReply(rc)))
      /\ outcome' = [outcome EXCEPT ![committing] = rc]
      /\ calls' = calls /\ jobs' = jobs /\ answers' = answers /\ running' = running
  BY DEF CommitEnds
<1>2. PICK c : /\ c = committing /\ c \in DOMAIN calls /\ c \in Call
               /\ calls[c] = "fw commit"
  BY <1>1, CallTypes DEF CallsInv, CallsPending, Commits
<1>3. outcome'[c] = rc /\ \A d \in Call \ {c} : outcome'[d] = outcome[d]
  BY <1>1, <1>2 DEF CallsInv, TypeOK, Outcomes
<1>4. PICK reply : reply = CommitReply(rc)
  OBVIOUS
<1>5. reply \in ReplySet /\ Truthful(reply, calls[c], outcome'[c])
  <2>1. calls[c] \notin LogRequests
    BY <1>2 DEF LogRequests, ShadowedLogs, TwoPartLogs, InvalidLogs
  <2>2. rc \in Errnos => CommitReply(rc) = Failed(rc) /\ rc \notin {"none", "done", "refused"}
    BY CallConstants DEF CommitReply
  <2> QED
    BY <2>1, <2>2, <1>2, <1>3, <1>4 DEF CommitReply, Truthful, Failed, Reply, ReplySet
<1>6. PICK x \in Posting : x = Posted(c, reply) /\ x.call = c /\ x.commit = FALSE
  BY <1>2, <1>5, PostingIs
<1>7. mainLoop' = Append(mainLoop, x) /\ mainLoop \in Seq(Posting)
  BY <1>1, <1>2, <1>4, <1>6 DEF CallsInv, TypeOK
<1>8. \A d : CommitAt(mainLoop', d) <=> CommitAt(mainLoop, d)
  <2> SUFFICES ASSUME NEW d PROVE CommitAt(mainLoop', d) <=> CommitAt(mainLoop, d)
    OBVIOUS
  <2>1. ~x.commit
    BY <1>6
  <2> QED
    BY <2>1, <1>7, CommitAdded
<1>9. Ends(c)
  <2>1. ~JobAt(jobs, c) /\ running # c /\ ~CommitAt(mainLoop, c)
    BY <1>1, <1>2, QueuedCalls, CallTypes DEF OnWorker
  <2>2. Waits(c) /\ ~Waits(c)'
    BY <2>1, <1>1, <1>2, <1>8, CallTypes DEF Waits
  <2>3. ASSUME NEW d \in DOMAIN calls \ {c}
        PROVE  outcome'[d] = outcome[d] /\ (Waits(d)' <=> Waits(d))
    <3>1. d # 0 /\ d \in Call
      BY CallTypes
    <3> QED
      BY <3>1, <1>1, <1>2, <1>3, <1>8 DEF Waits
  <2> QED
    BY <2>2, <2>3, <1>1, <1>2 DEF Ends
<1> QED
  BY <1>5, <1>6, <1>7, <1>9, EndedWithOne

LEMMA PostedOne ==
  ASSUME NEW c, NEW reply, NEW x \in Posting, x = Posted(c, reply),
         NEW replies, replies = <<reply>>,
         NEW posted, posted = [k \in DOMAIN replies |-> Posted(c, replies[k])]
  PROVE  posted \in Seq(Posting) /\ Len(posted) = 1 /\ posted[1] = x
<1>1. DOMAIN replies = 1..1 /\ replies[1] = reply
  OBVIOUS
<1>2. posted \in [1..1 -> Posting] /\ posted[1] = x
  BY <1>1
<1>3. posted \in Seq(Posting)
  BY <1>2, SeqDef
<1>4. Len(posted) = 1
  BY <1>2, <1>3
<1> QED
  BY <1>2, <1>3, <1>4

LEMMA PostedTwo ==
  ASSUME NEW c, NEW first, NEW second,
         NEW x \in Posting, x = Posted(c, first), NEW y \in Posting, y = Posted(c, second),
         NEW replies, replies = <<first, second>>,
         NEW posted, posted = [k \in DOMAIN replies |-> Posted(c, replies[k])]
  PROVE  posted \in Seq(Posting) /\ Len(posted) = 2 /\ posted[1] = x /\ posted[2] = y
<1>1. DOMAIN replies = 1..2 /\ replies[1] = first /\ replies[2] = second
  OBVIOUS
<1>2. posted \in [1..2 -> Posting] /\ posted[1] = x /\ posted[2] = y
  BY <1>1
<1>3. posted \in Seq(Posting)
  BY <1>2, SeqDef
<1>4. Len(posted) = 2
  BY <1>2, <1>3
<1> QED
  BY <1>2, <1>3, <1>4

LEMMA FinishStages ==
  ASSUME CallsInv, Stages, NEW rc \in Errnos \cup {"done", "refused", "excess", "EINVAL"},
         running # 0, rc = "excess" => calls[running] \in Security, Finish(rc)
  PROVE  Stages'
<1>1. /\ running' = 0 /\ errno' = ErrnoAfter(rc)
      /\ outcome' = [outcome EXCEPT ![running] = rc]
      /\ mainLoop' = mainLoop \o [k \in DOMAIN Replies(calls[running], rc, errno') |->
                                    Posted(running, Replies(calls[running], rc, errno')[k])]
      /\ answers' = answers /\ calls' = calls /\ jobs' = jobs /\ committing' = committing
  BY DEF Finish, PostReplies
<1>2. PICK c : /\ c = running /\ c \in DOMAIN calls /\ c \in Call
               /\ calls[c] \in LogRequests \cup Security \cup {"xfer"}
  <2>1. running \in DOMAIN calls
        /\ calls[running] \notin {"fw commit", "security receive too long"}
    BY DEF CallsInv, CallsPending, OnWorker
  <2>2. running \in Call /\ calls[running] \in KnownRequests
    BY <2>1, CallTypes, CallConstants
  <2> QED
    BY <2>1, <2>2 DEF KnownRequests
<1>3. outcome'[c] = rc /\ \A d \in Call \ {c} : outcome'[d] = outcome[d]
  BY <1>1, <1>2 DEF CallsInv, TypeOK, Outcomes
<1>4. PICK err : /\ err = errno' /\ err \in Errnos \cup {"none", "EINVAL"}
                 /\ Negative(rc) => err = rc
  BY <1>1 DEF CallsInv, TypeOK, ErrnoAfter, Negative
<1>5. PICK replies : replies = Replies(calls[c], rc, err)
  OBVIOUS
<1>6. PICK posted : /\ posted = [k \in DOMAIN replies |-> Posted(c, replies[k])]
                    /\ mainLoop' = mainLoop \o posted
  BY <1>1, <1>2, <1>4, <1>5
<1>7. mainLoop \in Seq(Posting)
  BY DEF CallsInv, TypeOK
<1>8. (\A d : CommitAt(mainLoop', d) <=> CommitAt(mainLoop, d)) => Ends(c)
  <2> HAVE \A d : CommitAt(mainLoop', d) <=> CommitAt(mainLoop, d)
  <2>1. ~JobAt(jobs, c) /\ committing # c /\ ~CommitAt(mainLoop, c)
    <3>1. ~Commits(c)
      BY <1>2 DEF Commits, LogRequests, ShadowedLogs, TwoPartLogs, InvalidLogs, Security
    <3> QED
      BY <3>1, <1>2, QueuedCalls, CallTypes
  <2>2. Waits(c) /\ ~Waits(c)'
    BY <2>1, <1>1, <1>2, CallTypes DEF Waits
  <2>3. ASSUME NEW d \in DOMAIN calls \ {c}
        PROVE  outcome'[d] = outcome[d] /\ (Waits(d)' <=> Waits(d))
    <3>1. d # 0 /\ d \in Call
      BY CallTypes
    <3> QED
      BY <3>1, <1>1, <1>2, <1>3 DEF Waits
  <2> QED
    BY <2>2, <2>3, <1>1, <1>2 DEF Ends
<1>9. ASSUME NEW reply \in ReplySet, replies = <<reply>>, Truthful(reply, calls[c], rc)
      PROVE  Stages'
  <2>1. PICK x \in Posting : x = Posted(c, reply) /\ x.call = c /\ x.commit = FALSE
    BY <1>2, PostingIs
  <2>2. posted \in Seq(Posting) /\ Len(posted) = 1 /\ posted[1] = x
    BY <1>6, <1>9, <2>1, PostedOne
  <2>3. mainLoop' = Append(mainLoop, x)
    BY <2>2, <1>6, <1>7, JoinedOne
  <2>4. ASSUME NEW d PROVE CommitAt(mainLoop', d) <=> CommitAt(mainLoop, d)
    <3>1. ~x.commit
      BY <2>1
    <3> QED
      BY <3>1, <2>3, <1>7, CommitAdded
  <2> QED
    BY <2>1, <2>3, <2>4, <1>3, <1>8, <1>9, EndedWithOne
<1>10. ASSUME replies = <<Bad, Unfilled>>, calls[c] \in LogRequests \ ShadowedLogs,
              rc = "refused"
       PROVE  Stages'
  <2>1. PICK x \in Posting : x = Posted(c, Bad) /\ x.commit = FALSE
    <3>1. PICK first \in ReplySet : first = Bad
      BY FailedIsReply DEF Bad
    <3>2. \E z \in Posting : z = Posted(c, first) /\ z.call = c /\ z.commit = FALSE
      BY <1>2, PostingIs
    <3> QED
      BY <3>1, <3>2
  <2>2. PICK y \in Posting : y = Posted(c, Unfilled) /\ y.commit = FALSE
    <3>1. PICK second \in ReplySet : second = Unfilled
      BY IsReply DEF Unfilled
    <3>2. \E z \in Posting : z = Posted(c, second) /\ z.call = c /\ z.commit = FALSE
      BY <1>2, PostingIs
    <3> QED
      BY <3>1, <3>2
  <2>3. posted \in Seq(Posting) /\ Len(posted) = 2 /\ posted[1] = x /\ posted[2] = y
    BY <1>6, <1>10, <2>1, <2>2, PostedTwo
  <2>4. PICK q : q = Append(mainLoop, x)
    OBVIOUS
  <2>5. mainLoop' = Append(q, y) /\ q \in Seq(Posting)
    BY <2>3, <2>4, <1>6, <1>7, JoinedTwo, Appended
  <2>6. ASSUME NEW d PROVE CommitAt(mainLoop', d) <=> CommitAt(mainLoop, d)
    <3>1. ~x.commit /\ ~y.commit
      BY <2>1, <2>2
    <3>2. CommitAt(q, d) <=> CommitAt(mainLoop, d)
      BY <3>1, <2>4, <1>7, CommitAdded
    <3>3. CommitAt(mainLoop', d) <=> CommitAt(q, d)
      BY <3>1, <2>5, CommitAdded
    <3> QED
      BY <3>2, <3>3
  <2> QED
    BY <2>1, <2>2, <2>4, <2>5, <2>6, <1>3, <1>8, <1>10, EndedWithTwo
<1> QED
  <2>1. \/ \E reply \in ReplySet : replies = <<reply>> /\ Truthful(reply, calls[c], rc)
        \/ /\ replies = <<Bad, Unfilled>>
           /\ calls[c] \in LogRequests \ ShadowedLogs /\ rc = "refused"
    BY <1>2, <1>4, <1>5, RepliesShape
  <2> QED
    BY <2>1, <1>9, <1>10


LEMMA SecondAnswer ==
  ASSUME NEW first \in ReplySet, NEW second \in ReplySet
  PROVE  Append(<<first>>, second) = <<first, second>>
<1>1. PICK q : q = <<first>>
  OBVIOUS
<1>2. q \in Seq(ReplySet) /\ Len(q) = 1 /\ q[1] = first
  BY <1>1
<1>3. PICK r : r = Append(q, second)
  OBVIOUS
<1>4. r \in Seq(ReplySet) /\ Len(r) = 2 /\ r[2] = second /\ r[1] = first
  BY <1>2, <1>3, Appended
<1>5. PICK s : s = <<first, second>>
  OBVIOUS
<1>6. s \in Seq(ReplySet) /\ Len(s) = 2 /\ s[1] = first /\ s[2] = second
  BY <1>5
<1>7. \A i \in 1..Len(r) : r[i] = s[i]
  BY <1>4, <1>6
<1>8. r = s
  BY <1>4, <1>6, <1>7, SeqEqual
<1> QED
  BY <1>1, <1>3, <1>5, <1>8

LEMMA DeliverStages ==
  ASSUME CallsInv, Stages, Deliver
  PROVE  Stages'
<1>1. /\ mainLoop # <<>> /\ ~Head(mainLoop).commit /\ mainLoop' = Tail(mainLoop)
      /\ answers' = [answers EXCEPT ![Head(mainLoop).call] = Append(@, Head(mainLoop).reply)]
      /\ calls' = calls /\ jobs' = jobs /\ committing' = committing
      /\ running' = running /\ outcome' = outcome
  BY DEF Deliver, workerVars
<1>2. PICK head : head = Head(mainLoop)
  OBVIOUS
<1>3. /\ mainLoop \in Seq(Posting) /\ head \in OwnPostings /\ ~head.commit
  BY <1>1, <1>2, QueuedCalls, Taken DEF CallsInv, TypeOK
<1>4. PICK c : c = head.call
  OBVIOUS
<1>5. c \in DOMAIN calls /\ c \in Call /\ RepliesTo(head, c)
  BY <1>3, <1>4, CallTypes DEF OwnPostings, RepliesTo
<1>6. /\ answers'[c] = Append(answers[c], head.reply)
      /\ \A d \in Call \ {c} : answers'[d] = answers[d]
  BY <1>1, <1>2, <1>4, <1>5 DEF CallsInv, TypeOK
<1>7. \A d : Waits(d)' <=> Waits(d)
  <2> SUFFICES ASSUME NEW d PROVE Waits(d)' <=> Waits(d)
    OBVIOUS
  <2>1. CommitAt(mainLoop, d) <=> CommitAt(mainLoop', d)
    BY <1>1, <1>3, CommitTaken
  <2> QED
    BY <2>1, <1>1 DEF Waits
<1>8. ASSUME NEW d \in DOMAIN calls \ {c} PROVE Stage(d)'
  <2>1. d \in Call /\ ~RepliesTo(Head(mainLoop), d)
    BY <1>2, <1>4, CallTypes DEF RepliesTo
  <2>2. SameReplies(mainLoop, mainLoop', d)
    BY <2>1, <1>1, <1>3, RepliesShorter
  <2>3. Stage(d)
    BY DEF Stages
  <2> QED
    BY <2>1, <2>2, <2>3, <1>1, <1>6, <1>7, StageKept
<1>9. Stage(c)'
  <2>1. /\ ~NoneAt(mainLoop, c)
        /\ \A x : OnlyAt(mainLoop, c, x) => head = x /\ NoneAt(mainLoop', c)
        /\ \A x, y : RepliesTo(y, c) /\ PairAt(mainLoop, c, x, y) =>
                       head = x /\ OnlyAt(mainLoop', c, y)
    BY <1>1, <1>2, <1>3, <1>5, FirstReply
  <2>2. ~Waits(c) /\ ((\E reply \in ReplySet : HasOne(c, reply)) \/ HasTwo(c, Bad, Unfilled))
    BY <2>1, <1>5 DEF Stages, Stage, Bad, Unfilled
  <2>3. \A reply : Posted(c, reply).reply = reply
    BY DEF Posted
  <2>4. Bad \in ReplySet /\ Unfilled \in ReplySet
    BY FailedIsReply, IsReply DEF Bad, Unfilled
  <2>5. ASSUME NEW reply \in ReplySet, HasOne(c, reply) PROVE Stage(c)'
    <3>1. answers[c] = <<>> /\ OnlyAt(mainLoop, c, Posted(c, reply))
          /\ Truthful(reply, calls[c], outcome[c])
      BY <2>1, <2>5 DEF HasOne
    <3>2. head.reply = reply /\ NoneAt(mainLoop', c)
      BY <3>1, <2>1, <2>3
    <3>3. answers'[c] = <<reply>>
      BY <3>1, <3>2, <1>6, FirstAnswer
    <3>4. HasOne(c, reply)'
      BY <3>1, <3>2, <3>3, <1>1 DEF HasOne
    <3> QED
      BY <3>4, <2>2, <1>7 DEF Stage, ReplySet
  <2>6. CASE HasTwo(c, Bad, Unfilled)
    <3>1. /\ calls[c] \in LogRequests \ ShadowedLogs /\ outcome[c] = "refused"
          /\ \/ answers[c] = <<>> /\ PairAt(mainLoop, c, Posted(c, Bad), Posted(c, Unfilled))
             \/ answers[c] = <<Bad>> /\ OnlyAt(mainLoop, c, Posted(c, Unfilled))
      BY <2>1, <2>6 DEF HasTwo
    <3>2. HasTwo(c, Bad, Unfilled)'
      <4>1. CASE answers[c] = <<>> /\ PairAt(mainLoop, c, Posted(c, Bad), Posted(c, Unfilled))
        <5>1. head = Posted(c, Bad) /\ OnlyAt(mainLoop', c, Posted(c, Unfilled))
          BY <4>1, <2>1, PostedReplies
        <5>2. answers'[c] = <<Bad>>
          BY <4>1, <5>1, <2>3, <2>4, <1>6, FirstAnswer
        <5> QED
          BY <5>1, <5>2, <3>1, <1>1 DEF HasTwo, Bad, Unfilled
      <4>2. CASE answers[c] = <<Bad>> /\ OnlyAt(mainLoop, c, Posted(c, Unfilled))
        <5>1. head = Posted(c, Unfilled) /\ NoneAt(mainLoop', c)
          BY <4>2, <2>1
        <5>2. answers'[c] = <<Bad, Unfilled>>
          BY <4>2, <5>1, <2>3, <2>4, <1>6, SecondAnswer
        <5> QED
          BY <5>1, <5>2, <3>1, <1>1 DEF HasTwo, Bad, Unfilled
      <4> QED
        BY <3>1, <4>1, <4>2
    <3> QED
      BY <3>2, <2>2, <1>7 DEF Stage, Bad, Unfilled
  <2> QED
    BY <2>2, <2>5, <2>6
<1> QED
  BY <1>1, <1>8, <1>9 DEF Stages

LEMMA QuietStages ==
  ASSUME CallsInv, Stages, calls' = calls, jobs' = jobs, mainLoop' = mainLoop,
         committing' = committing, answers' = answers, running' = running, outcome' = outcome
  PROVE  Stages'
<1>1. ASSUME NEW c \in DOMAIN calls PROVE Stage(c)'
  <2>1. Stage(c) /\ SameReplies(mainLoop, mainLoop', c)
    BY SameQueue DEF Stages
  <2>2. Waits(c)' <=> Waits(c)
    BY DEF Waits
  <2> QED
    BY <2>1, <2>2, StageKept
<1> QED
  BY <1>1 DEF Stages

LEMMA NextStages == CallsInv /\ Stages /\ [Next]_vars => Stages'
<1> SUFFICES ASSUME CallsInv, Stages, [Next]_vars PROVE Stages'
  OBVIOUS
<1>1. CASE MakesCall
  BY <1>1, NoEndpointStages, CallWorkerStages, FwCommitStages, TooLongStages DEF MakesCall
<1>2. CASE StartJob
  BY <1>2, StartStages
<1>3. CASE RejectLog
  BY <1>3, FinishStages DEF RejectLog
<1>4. CASE NextExchange
  BY <1>4, QuietStages DEF NextExchange
<1>5. ASSUME NEW rc \in Errnos \cup {"done", "refused", "excess"}, LastExchange(rc)
      PROVE  Stages'
  <2>1. running # 0
    <3>1. left > 0
      BY <1>5 DEF LastExchange
    <3> QED
      BY <3>1 DEF CallsInv, WorkerKnown, TypeOK
  <2>2. Finish(rc) /\ (rc = "excess" => calls[running] \in Security)
    BY <1>5 DEF LastExchange, Security
  <2> QED
    BY <2>1, <2>2, FinishStages
<1>6. CASE OtherDriveFails
  BY <1>6, QuietStages DEF OtherDriveFails
<1>7. CASE MainStep
  BY <1>7, DeliverStages, CommitStartStages, CommitEndStages DEF MainStep
<1>8. CASE UNCHANGED vars
  BY <1>8, QuietStages DEF vars, workerVars
<1> QED
  BY <1>1, <1>2, <1>3, <1>4, <1>5, <1>6, <1>7, <1>8 DEF Next, WorkerStep


-----------------------------------------------------------------------------
(* What the stages mean.                                                   *)

LEMMA PlacesAre ==
  ASSUME NEW c
  PROVE  /\ \A p \in Places(c) :
              \/ \E k \in DOMAIN jobs : jobs[k] = c /\ p = <<"jobs", k>>
              \/ \E k \in DOMAIN mainLoop : mainLoop[k].call = c /\ p = <<"main", k>>
              \/ \E k \in DOMAIN answers[c] : p = <<"answer", k>>
              \/ running = c /\ p = <<"worker", 0>>
              \/ committing = c /\ p = <<"commit", 0>>
         /\ \A k \in DOMAIN jobs : jobs[k] = c => <<"jobs", k>> \in Places(c)
         /\ \A k \in DOMAIN mainLoop : mainLoop[k].call = c => <<"main", k>> \in Places(c)
         /\ \A k \in DOMAIN answers[c] : <<"answer", k>> \in Places(c)
         /\ running = c => <<"worker", 0>> \in Places(c)
         /\ committing = c => <<"commit", 0>> \in Places(c)
BY DEF Places

LEMMA OnePlace ==
  ASSUME NEW places, NEW place \in places, \A p \in places : p = place
  PROVE  \E p \in places : places = {p}
OBVIOUS

LEMMA WaitsOnce ==
  ASSUME CallsInv, NEW c \in DOMAIN calls, Waits(c), answers[c] = <<>>, NoneAt(mainLoop, c)
  PROVE  \E p \in Places(c) : Places(c) = {p}
<1>1. c # 0 /\ \A k \in DOMAIN answers[c] : FALSE
  BY CallTypes, NoElement
<1>2. \A k \in DOMAIN mainLoop : mainLoop[k].call = c => mainLoop[k].commit
  BY DEF NoneAt, RepliesTo
<1>3. (\E k \in DOMAIN mainLoop : mainLoop[k].call = c) => CommitAt(mainLoop, c)
  BY <1>2 DEF CommitAt
<1>4. ~(OnWorker(c) /\ Commits(c))
  BY DEF OnWorker, Commits
<1>5. CASE JobAt(jobs, c)
  <2>1. PICK j \in DOMAIN jobs : jobs[j] = c
    BY <1>5 DEF JobAt
  <2>2. \A k \in DOMAIN jobs : jobs[k] = c => k = j
    BY <2>1 DEF CallsInv, CallsPending, EachOnce
  <2>3. running # c /\ committing # c /\ ~CommitAt(mainLoop, c)
    BY <1>1, <1>4, <1>5, QueuedCalls
  <2>4. \A p \in Places(c) : p = <<"jobs", j>>
    BY <2>2, <2>3, <1>1, <1>3, PlacesAre
  <2> QED
    BY <2>1, <2>4, PlacesAre, OnePlace
<1>6. CASE running = c
  <2>1. ~JobAt(jobs, c) /\ committing # c /\ ~CommitAt(mainLoop, c)
    BY <1>1, <1>4, <1>6, QueuedCalls
  <2>2. \A p \in Places(c) : p = <<"worker", 0>>
    BY <2>1, <1>1, <1>3, PlacesAre DEF JobAt
  <2> QED
    BY <2>2, <1>6, PlacesAre, OnePlace
<1>7. CASE committing = c
  <2>1. ~JobAt(jobs, c) /\ running # c /\ ~CommitAt(mainLoop, c)
    BY <1>1, <1>4, <1>7, QueuedCalls
  <2>2. \A p \in Places(c) : p = <<"commit", 0>>
    BY <2>1, <1>1, <1>3, PlacesAre DEF JobAt
  <2> QED
    BY <2>2, <1>7, PlacesAre, OnePlace
<1>8. CASE CommitAt(mainLoop, c)
  <2>1. PICK j \in DOMAIN mainLoop : mainLoop[j].commit /\ mainLoop[j].call = c
    BY <1>8 DEF CommitAt
  <2>2. \A k \in DOMAIN mainLoop : mainLoop[k].call = c => k = j
    BY <2>1, <1>2 DEF CallsInv, CallsPending, CommitsOnce
  <2>3. ~JobAt(jobs, c) /\ running # c /\ committing # c
    BY <1>1, <1>4, <1>8, QueuedCalls
  <2>4. \A p \in Places(c) : p = <<"main", j>>
    BY <2>2, <2>3, <1>1, PlacesAre DEF JobAt
  <2> QED
    BY <2>1, <2>4, PlacesAre, OnePlace
<1> QED
  BY <1>5, <1>6, <1>7, <1>8 DEF Waits

\* A call that waits nowhere is where its replies are.
LEMMA RepliesAreThePlaces ==
  ASSUME NEW c, ~Waits(c)
  PROVE  /\ \A p \in Places(c) :
              \/ \E k \in DOMAIN mainLoop : RepliesTo(mainLoop[k], c) /\ p = <<"main", k>>
              \/ \E k \in DOMAIN answers[c] : p = <<"answer", k>>
         /\ \A k \in DOMAIN mainLoop :
              RepliesTo(mainLoop[k], c) => <<"main", k>> \in Places(c)
         /\ \A k \in DOMAIN answers[c] : <<"answer", k>> \in Places(c)
<1>1. /\ \A k \in DOMAIN jobs : jobs[k] # c
      /\ running # c /\ committing # c
      /\ \A k \in DOMAIN mainLoop : mainLoop[k].call = c => RepliesTo(mainLoop[k], c)
  BY DEF Waits, JobAt, CommitAt, RepliesTo
<1>2. \A k \in DOMAIN mainLoop : RepliesTo(mainLoop[k], c) => mainLoop[k].call = c
  BY DEF RepliesTo
<1> QED
  BY <1>1, <1>2, PlacesAre

LEMMA OneReplyOnce ==
  ASSUME NEW c, ~Waits(c), NEW reply, HasOne(c, reply)
  PROVE  \E p \in Places(c) : Places(c) = {p}
<1>1. CASE answers[c] = <<>> /\ OnlyAt(mainLoop, c, Posted(c, reply))
  <2>1. PICK i \in DOMAIN mainLoop :
          /\ mainLoop[i] = Posted(c, reply)
          /\ \A k \in DOMAIN mainLoop : RepliesTo(mainLoop[k], c) => k = i
    BY <1>1 DEF OnlyAt
  <2>2. \A p \in Places(c) : p = <<"main", i>>
    BY <2>1, <1>1, NoElement, RepliesAreThePlaces
  <2>3. <<"main", i>> \in Places(c)
    BY <2>1, PostedReplies, RepliesAreThePlaces
  <2> QED
    BY <2>2, <2>3, OnePlace
<1>2. CASE answers[c] = <<reply>> /\ NoneAt(mainLoop, c)
  <2>1. DOMAIN answers[c] = {1}
    BY <1>2
  <2>2. \A p \in Places(c) : p = <<"answer", 1>>
    BY <2>1, <1>2, RepliesAreThePlaces DEF NoneAt
  <2>3. <<"answer", 1>> \in Places(c)
    BY <2>1, RepliesAreThePlaces
  <2> QED
    BY <2>2, <2>3, OnePlace
<1> QED
  BY <1>1, <1>2 DEF HasOne

LEMMA TwoPlaces ==
  ASSUME NEW places, NEW first \in places, NEW second \in places, first # second,
         \A p \in places : p = first \/ p = second
  PROVE  \E p, q \in places : p # q /\ places = {p, q}
OBVIOUS

LEMMA TwoRepliesTwice ==
  ASSUME NEW c, ~Waits(c), HasTwo(c, Bad, Unfilled)
  PROVE  /\ calls[c] \in LogRequests \ ShadowedLogs /\ outcome[c] = "refused"
         /\ \E first, second \in Places(c) : first # second /\ Places(c) = {first, second}
         /\ answers[c] # <<>> => answers[c][1] = Bad
<1>1. CASE answers[c] = <<>> /\ PairAt(mainLoop, c, Posted(c, Bad), Posted(c, Unfilled))
  <2>1. PICK i \in DOMAIN mainLoop, j \in DOMAIN mainLoop :
          /\ i < j /\ mainLoop[i] = Posted(c, Bad) /\ mainLoop[j] = Posted(c, Unfilled)
          /\ \A k \in DOMAIN mainLoop : RepliesTo(mainLoop[k], c) => k = i \/ k = j
    BY <1>1 DEF PairAt
  <2>2. \A p \in Places(c) : p = <<"main", i>> \/ p = <<"main", j>>
    BY <2>1, <1>1, NoElement, RepliesAreThePlaces
  <2>3. <<"main", i>> \in Places(c) /\ <<"main", j>> \in Places(c)
    BY <2>1, PostedReplies, RepliesAreThePlaces
  <2>4. <<"main", i>> # <<"main", j>>
    <3>1. i # j
      <4>1. Posted(c, Bad).reply = Bad /\ Posted(c, Unfilled).reply = Unfilled /\ Bad # Unfilled
        BY DEF Posted, Bad, Unfilled, Failed, Reply
      <4> QED
        BY <4>1, <2>1
    <3> QED
      BY <3>1
  <2> QED
    BY <2>2, <2>3, <2>4, <1>1, TwoPlaces DEF HasTwo
<1>2. CASE answers[c] = <<Bad>> /\ OnlyAt(mainLoop, c, Posted(c, Unfilled))
  <2>1. PICK i \in DOMAIN mainLoop :
          /\ mainLoop[i] = Posted(c, Unfilled)
          /\ \A k \in DOMAIN mainLoop : RepliesTo(mainLoop[k], c) => k = i
    BY <1>2 DEF OnlyAt
  <2>2. DOMAIN answers[c] = {1} /\ answers[c][1] = Bad
    BY <1>2
  <2>3. \A p \in Places(c) : p = <<"answer", 1>> \/ p = <<"main", i>>
    BY <2>1, <2>2, RepliesAreThePlaces
  <2>4. <<"answer", 1>> \in Places(c) /\ <<"main", i>> \in Places(c)
    BY <2>1, <2>2, PostedReplies, RepliesAreThePlaces
  <2>5. <<"answer", 1>> # <<"main", i>>
    OBVIOUS
  <2> QED
    BY <2>2, <2>3, <2>4, <2>5, TwoPlaces DEF HasTwo
<1>3. CASE answers[c] = <<Bad, Unfilled>> /\ NoneAt(mainLoop, c)
  <2>1. DOMAIN answers[c] = {1, 2} /\ answers[c][1] = Bad
    BY <1>3
  <2>2. \A p \in Places(c) : p = <<"answer", 1>> \/ p = <<"answer", 2>>
    BY <2>1, <1>3, RepliesAreThePlaces DEF NoneAt
  <2>3. <<"answer", 1>> \in Places(c) /\ <<"answer", 2>> \in Places(c)
    BY <2>1, RepliesAreThePlaces
  <2>4. <<"answer", 1>> # <<"answer", 2>>
    OBVIOUS
  <2> QED
    BY <2>1, <2>2, <2>3, <2>4, TwoPlaces DEF HasTwo
<1> QED
  BY <1>1, <1>2, <1>3 DEF HasTwo

LEMMA StagesOnce == CallsInv /\ Stages => AnsweredOnce
<1> SUFFICES ASSUME CallsInv, Stages, NEW c \in DOMAIN calls
             PROVE  \/ \E place \in Places(c) : Places(c) = {place}
                    \/ /\ calls[c] \in LogRequests \ ShadowedLogs
                       /\ outcome[c] = "refused"
                       /\ \E first, second \in Places(c) :
                            first # second /\ Places(c) = {first, second}
                       /\ answers[c] # <<>> => answers[c][1] = Failed("bad_message")
  BY DEF AnsweredOnce
<1>1. Stage(c)
  BY DEF Stages
<1>2. CASE Waits(c) /\ answers[c] = <<>> /\ NoneAt(mainLoop, c)
  BY <1>2, WaitsOnce
<1>3. CASE ~Waits(c) /\ \E reply \in ReplySet : HasOne(c, reply)
  BY <1>3, OneReplyOnce
<1>4. CASE ~Waits(c) /\ HasTwo(c, Bad, Unfilled)
  BY <1>4, TwoRepliesTwice DEF Bad
<1> QED
  BY <1>1, <1>2, <1>3, <1>4 DEF Stage, Bad, Unfilled

LEMMA StagesReal == Stages => SuccessIsReal
<1> SUFFICES ASSUME Stages, NEW c \in DOMAIN calls, NEW k \in DOMAIN answers[c],
                    NEW reply, reply = answers[c][k]
             PROVE  \/ Truthful(reply, calls[c], outcome[c])
                    \/ /\ reply = Unfilled /\ k = 2
                       /\ calls[c] \in LogRequests \ ShadowedLogs /\ outcome[c] = "refused"
  BY DEF SuccessIsReal, Unfilled
<1>1. answers[c] # <<>>
  BY NoElement
<1>2. ASSUME NEW only \in ReplySet, HasOne(c, only)
      PROVE  reply = only /\ Truthful(reply, calls[c], outcome[c])
  <2>1. answers[c] = <<only>> /\ Truthful(only, calls[c], outcome[c])
    BY <1>1, <1>2 DEF HasOne
  <2>2. k = 1
    BY <2>1
  <2> QED
    BY <2>1, <2>2
<1>3. ASSUME HasTwo(c, Bad, Unfilled)
      PROVE  /\ calls[c] \in LogRequests \ ShadowedLogs /\ outcome[c] = "refused"
             /\ reply = Bad \/ (reply = Unfilled /\ k = 2)
  <2>1. /\ calls[c] \in LogRequests \ ShadowedLogs /\ outcome[c] = "refused"
        /\ (answers[c] = <<Bad>> \/ answers[c] = <<Bad, Unfilled>>)
    BY <1>1, <1>3 DEF HasTwo
  <2>2. CASE answers[c] = <<Bad>>
    <3>1. k = 1
      BY <2>2
    <3> QED
      BY <3>1, <2>1, <2>2
  <2>3. CASE answers[c] = <<Bad, Unfilled>>
    <3>1. k = 1 \/ k = 2
      BY <2>3
    <3> QED
      BY <3>1, <2>1, <2>3
  <2> QED
    BY <2>1, <2>2, <2>3
<1>4. outcome[c] = "refused" => Truthful(Bad, calls[c], outcome[c])
  BY DEF Bad, Failed, Reply, Truthful
<1>5. (\E only \in ReplySet : HasOne(c, only)) \/ HasTwo(c, Bad, Unfilled)
  BY <1>1 DEF Stages, Stage, Bad, Unfilled
<1>6. CASE \E only \in ReplySet : HasOne(c, only)
  BY <1>2, <1>6
<1>7. CASE HasTwo(c, Bad, Unfilled)
  BY <1>3, <1>4, <1>7
<1> QED
  BY <1>5, <1>6, <1>7

LEMMA InitStages == Init => Stages
BY CallConstants, NoElement DEF Init, Stages

-----------------------------------------------------------------------------
(* Order of calls.                                                         *)

LEMMA OrderedParts ==
  ASSUME Ordered, nvmeEP
  PROVE  /\ \A i, j \in DOMAIN jobs : i < j => jobs[i] < jobs[j]
         /\ running # 0 => \A k \in DOMAIN jobs : running < jobs[k]
         /\ PostedInOrder(mainLoop, WorkerCalls)
         /\ \A one, other \in WorkerCalls :
              /\ Due(other) /\ (PostedFor(mainLoop, one) \/ answers[one] # <<>>) => one < other
              /\ PostedFor(mainLoop, other) /\ answers[one] # <<>> => one <= other
BY DEF Ordered

\* A call that is made is the last.
LEMMA NewCallIsLast ==
  ASSUME CallsInv, NEW request, MakeCall(request)
  PROVE  /\ \A c \in DOMAIN calls : c \in Nat /\ c < NewCall
         /\ NewCall \in Nat /\ NewCall # 0
BY CallTypes DEF NewCall

LEMMA WorkerCallsKept ==
  ASSUME NEW new, NEW request, CallKept(new, request)
  PROVE  /\ WorkerCalls' \cap DOMAIN calls = WorkerCalls
         /\ WorkerCalls' \subseteq WorkerCalls \cup {new}
         /\ new \notin WorkerCalls
         /\ request \in {"fw commit", "security receive too long"} => WorkerCalls' = WorkerCalls
BY DEF CallKept, WorkerCalls, OnWorker

LEMMA PostedLonger ==
  ASSUME NEW S, NEW q \in Seq(S), NEW x \in S, NEW r, r = Append(q, x), NEW set,
         x.call \notin set
  PROVE  /\ \A c \in set : PostedFor(r, c) => PostedFor(q, c)
         /\ PostedInOrder(q, set) => PostedInOrder(r, set)
<1>1. /\ Len(q) \in Nat /\ DOMAIN q = 1..Len(q) /\ DOMAIN r = 1..Len(q) + 1
      /\ r[Len(q) + 1] = x /\ \A i \in 1..Len(q) : r[i] = q[i]
      /\ \A i \in 1..Len(q) + 1 : i = Len(q) + 1 \/ i \in 1..Len(q)
  BY Longer
<1>2. ASSUME NEW k \in DOMAIN r, r[k].call \in set PROVE k \in DOMAIN q /\ r[k] = q[k]
  BY <1>1, <1>2
<1>3. ASSUME PostedInOrder(q, set) PROVE PostedInOrder(r, set)
  BY <1>2, <1>3 DEF PostedInOrder
<1>4. \A c \in set : PostedFor(r, c) => PostedFor(q, c)
  BY <1>2 DEF PostedFor
<1> QED
  BY <1>3, <1>4

LEMMA PostedShorter ==
  ASSUME NEW S, NEW q \in Seq(S), q # <<>>, NEW r, r = Tail(q), NEW set, PostedInOrder(q, set)
  PROVE  /\ \A c : PostedFor(r, c) => PostedFor(q, c)
         /\ PostedFor(q, Head(q).call)
         /\ PostedInOrder(r, set)
         /\ \A c \in set : Head(q).call \in set /\ PostedFor(r, c) => Head(q).call <= c
<1>1. /\ Len(q) \in Nat /\ Len(q) >= 1 /\ DOMAIN q = 1..Len(q)
      /\ DOMAIN r = 1..Len(q) - 1 /\ Head(q) = q[1]
      /\ \A i \in 1..Len(q) - 1 : r[i] = q[i + 1]
  BY Taken
<1>2. ASSUME NEW k \in DOMAIN r
      PROVE  k + 1 \in DOMAIN q /\ r[k] = q[k + 1] /\ k \in Int /\ 1 < k + 1 /\ 1 \in DOMAIN q
  BY <1>1
<1>3. \A c : PostedFor(r, c) => PostedFor(q, c)
  BY <1>2 DEF PostedFor
<1>4. PostedFor(q, Head(q).call)
  BY <1>1 DEF PostedFor
<1>5. ASSUME NEW i \in DOMAIN r, NEW j \in DOMAIN r, i < j, r[i].call \in set, r[j].call \in set
      PROVE  r[i].call <= r[j].call
  <2>1. i + 1 < j + 1
    BY <1>2, <1>5
  <2> QED
    BY <2>1, <1>2, <1>5 DEF PostedInOrder
<1>6. ASSUME NEW c \in set, Head(q).call \in set, PostedFor(r, c) PROVE Head(q).call <= c
  <2>1. PICK k \in DOMAIN r : r[k].call = c
    BY <1>6 DEF PostedFor
  <2> QED
    BY <2>1, <1>1, <1>2, <1>6 DEF PostedInOrder
<1> QED
  BY <1>3, <1>4, <1>5, <1>6 DEF PostedInOrder

\* Postings for one call, which no call that is posted exceeds.
LEMMA PostedJoined ==
  ASSUME NEW S, NEW q \in Seq(S), NEW s \in Seq(S),
         NEW c \in Int, \A k \in DOMAIN s : s[k].call = c,
         NEW set, \A d \in set : d \in Int, PostedInOrder(q, set), \A d \in set : PostedFor(q, d) => d <= c
  PROVE  /\ \A d : PostedFor(q \o s, d) => PostedFor(q, d) \/ d = c
         /\ PostedInOrder(q \o s, set)
<1>0. PICK r : r = q \o s
  OBVIOUS
<1>1. /\ Len(q) \in Nat /\ DOMAIN q = 1..Len(q) /\ Len(s) \in Nat /\ DOMAIN s = 1..Len(s)
      /\ DOMAIN r = 1..Len(q) + Len(s)
      /\ \A i \in 1..Len(q) + Len(s) : r[i] = IF i <= Len(q) THEN q[i] ELSE s[i - Len(q)]
  BY <1>0, ConcatProperties
<1>2. ASSUME NEW k \in DOMAIN r
      PROVE  \/ k \in DOMAIN q /\ r[k] = q[k]
             \/ k > Len(q) /\ r[k].call = c
  <2>1. CASE k <= Len(q)
    BY <2>1, <1>1
  <2>2. CASE ~(k <= Len(q))
    <3>1. k - Len(q) \in DOMAIN s /\ r[k] = s[k - Len(q)] /\ k > Len(q)
      BY <2>2, <1>1
    <3> QED
      BY <3>1
  <2> QED
    BY <2>1, <2>2
<1>3. \A d : PostedFor(r, d) => PostedFor(q, d) \/ d = c
  BY <1>2 DEF PostedFor
<1>4. ASSUME NEW i \in DOMAIN r, NEW j \in DOMAIN r, i < j, r[i].call \in set, r[j].call \in set
      PROVE  r[i].call <= r[j].call
  <2>1. CASE i \in DOMAIN q /\ r[i] = q[i] /\ j \in DOMAIN q /\ r[j] = q[j]
    BY <2>1, <1>4 DEF PostedInOrder
  <2>2. CASE r[j].call = c
    <3>1. PICK a \in set : a = r[i].call
      BY <1>4
    <3>2. PostedFor(q, a) \/ a = c
      BY <3>1, <1>2 DEF PostedFor
    <3>3. a \in Int
      OBVIOUS
    <3>4. a <= c
      BY <3>2, <3>3
    <3> QED
      BY <3>1, <3>4, <2>2
  <2>3. ~(i > Len(q) /\ j \in DOMAIN q)
    BY <1>1, <1>4
  <2> QED
    BY <2>1, <2>2, <2>3, <1>2
<1> QED
  BY <1>0, <1>3, <1>4 DEF PostedInOrder

\* Only calls that have been made are posted, are due or have answers.
LEMMA PostedCalls ==
  ASSUME CallsInv
  PROVE  /\ \A c : PostedFor(mainLoop, c) => c \in DOMAIN calls
         /\ \A c : Due(c) => c = 0 \/ c \in WorkerCalls
         /\ \A c \in Call : answers[c] # <<>> => c \in DOMAIN calls
         /\ WorkerCalls \subseteq DOMAIN calls /\ DOMAIN calls \subseteq Call
         /\ \A c \in WorkerCalls : c \in Int /\ c # 0
<1>1. ASSUME NEW k \in DOMAIN mainLoop PROVE mainLoop[k].call \in DOMAIN calls
  BY QueuedCalls, Element DEF OwnPostings
<1>2. ASSUME NEW c, Due(c) PROVE c = 0 \/ c \in WorkerCalls
  BY <1>2, QueuedCalls DEF Due, WorkerCalls, OnWorker
<1>3. \A c \in Call : answers[c] # <<>> => c \in DOMAIN calls
  BY DEF CallsInv, CallsPending
<1>4. WorkerCalls \subseteq DOMAIN calls /\ DOMAIN calls \subseteq Call
  BY CallTypes DEF WorkerCalls
<1>5. \A c \in WorkerCalls : c \in Int /\ c # 0
  BY <1>4, CallTypes DEF Call
<1> QED
  BY <1>1, <1>2, <1>3, <1>4, <1>5 DEF PostedFor

\* A step that makes no call for the Worker, ends none and gives no answer.
LEMMA OrderKept ==
  ASSUME CallsInv, Ordered, nvmeEP' = nvmeEP, WorkerCalls' = WorkerCalls, jobs' = jobs,
         running' = running, \A c \in WorkerCalls : answers'[c] = answers[c],
         \A c \in WorkerCalls : PostedFor(mainLoop', c) => PostedFor(mainLoop, c),
         nvmeEP => PostedInOrder(mainLoop', WorkerCalls)
  PROVE  Ordered'
<1> SUFFICES ASSUME nvmeEP PROVE Ordered'
  BY DEF Ordered
<1>1. \A c : Due(c)' <=> Due(c)
  BY DEF Due
<1>2. ASSUME NEW one \in WorkerCalls, NEW other \in WorkerCalls
      PROVE  /\ Due(other)' /\ (PostedFor(mainLoop', one) \/ answers'[one] # <<>>) => one < other
             /\ PostedFor(mainLoop', other) /\ answers'[one] # <<>> => one <= other
  BY <1>1, OrderedParts
<1> QED
  BY <1>2, OrderedParts DEF Ordered

LEMMA CallWorkerOrdered ==
  ASSUME CallsInv, Ordered, NEW request \in Requests, CallWorker(request)
  PROVE  Ordered'
<1>1. /\ MakeCall(request) /\ jobs' = Append(jobs, NewCall) /\ nvmeEP
      /\ nvmeEP' = nvmeEP /\ mainLoop' = mainLoop /\ committing' = committing
      /\ answers' = answers
      /\ running' = running /\ left' = left /\ timeout' = timeout /\ saved' = saved
      /\ errno' = errno /\ outcome' = outcome /\ failures' = failures
  BY DEF CallWorker, workerVars
<1>2. PICK new : new = NewCall /\ CallKept(new, request)
  BY <1>1, CallMade
<1>3. new \in Call /\ new \notin DOMAIN calls /\ answers[new] = <<>>
      /\ \A c \in DOMAIN calls : c < new
  BY <1>1, <1>2, NewCallIsLast DEF CallKept
<1>4. \A c : Due(c)' <=> Due(c) \/ c = new
  <2> SUFFICES ASSUME NEW c PROVE Due(c)' <=> Due(c) \/ c = new
    OBVIOUS
  <2>1. jobs \in Seq(Call)
    BY DEF CallsInv, TypeOK
  <2>2. JobAt(jobs', c) <=> JobAt(jobs, c) \/ new = c
    BY <2>1, <1>1, <1>2, <1>3, JobsChanged
  <2> QED
    BY <2>2, <1>1 DEF Due
<1>5. \A k \in DOMAIN jobs : jobs[k] \in DOMAIN calls
  <2>1. \A k \in DOMAIN jobs : JobAt(jobs, jobs[k])
    BY DEF JobAt
  <2> QED
    BY <2>1, QueuedCalls DEF OnWorker
<1>6. /\ Len(jobs) \in Nat /\ DOMAIN jobs = 1..Len(jobs) /\ DOMAIN jobs' = 1..Len(jobs) + 1
      /\ jobs'[Len(jobs) + 1] = new /\ \A i \in 1..Len(jobs) : jobs'[i] = jobs[i]
      /\ \A i \in 1..Len(jobs) + 1 : i = Len(jobs) + 1 \/ i \in 1..Len(jobs)
  <2>1. jobs \in Seq(Call)
    BY DEF CallsInv, TypeOK
  <2> QED
    BY <2>1, <1>1, <1>2, <1>3, Longer
<1>7. ASSUME NEW i \in DOMAIN jobs', NEW j \in DOMAIN jobs', i < j PROVE jobs'[i] < jobs'[j]
  <2>1. i \in DOMAIN jobs
    BY <1>6, <1>7
  <2>2. CASE j \in DOMAIN jobs
    BY <2>1, <2>2, <1>1, <1>6, <1>7, OrderedParts
  <2>3. CASE j = Len(jobs) + 1
    BY <2>1, <2>3, <1>3, <1>5, <1>6
  <2> QED
    BY <2>2, <2>3, <1>6
<1>8. ASSUME running # 0, NEW k \in DOMAIN jobs' PROVE running < jobs'[k]
  <2>1. running \in DOMAIN calls
    BY <1>8, QueuedCalls DEF OnWorker
  <2>2. CASE k \in DOMAIN jobs
    BY <2>2, <1>1, <1>6, <1>8, OrderedParts
  <2>3. CASE k = Len(jobs) + 1
    BY <2>1, <2>3, <1>3, <1>6
  <2> QED
    BY <2>2, <2>3, <1>6
<1>9. /\ WorkerCalls' \cap DOMAIN calls = WorkerCalls
      /\ WorkerCalls' \subseteq WorkerCalls \cup {new}
  BY <1>2, WorkerCallsKept
<1>10. \A k \in DOMAIN mainLoop : mainLoop[k].call \in DOMAIN calls
  <2>1. \A k \in DOMAIN mainLoop : PostedFor(mainLoop, mainLoop[k].call)
    BY DEF PostedFor
  <2> QED
    BY <2>1, PostedCalls
<1>11. PostedInOrder(mainLoop', WorkerCalls')
  BY <1>1, <1>9, <1>10, OrderedParts DEF PostedInOrder
<1>12. ASSUME NEW one \in WorkerCalls', NEW other \in WorkerCalls'
       PROVE  /\ Due(other)' /\ (PostedFor(mainLoop', one) \/ answers'[one] # <<>>) => one < other
              /\ PostedFor(mainLoop', other) /\ answers'[one] # <<>> => one <= other
  <2>1. PostedFor(mainLoop', one) \/ answers'[one] # <<>> => one # new
    BY <1>1, <1>3, PostedCalls
  <2>2. PostedFor(mainLoop', other) => other # new
    BY <1>1, <1>3, PostedCalls
  <2>3. one # new => one \in WorkerCalls /\ one < new
    BY <1>3, <1>9, PostedCalls
  <2>4. other # new => other \in WorkerCalls
    BY <1>9
  <2>5. other # new => (Due(other)' <=> Due(other))
    BY <1>4
  <2> QED
    BY <2>1, <2>2, <2>3, <2>4, <2>5, <1>1, OrderedParts
<1> QED
  BY <1>1, <1>7, <1>8, <1>11, <1>12 DEF Ordered

LEMMA FwCommitOrdered ==
  ASSUME CallsInv, Ordered, "fw commit" \in Requests, adminFwCommit
  PROVE  Ordered'
<1>1. /\ MakeCall("fw commit")
      /\ mainLoop' = Append(mainLoop, [call |-> NewCall, commit |-> TRUE])
      /\ nvmeEP' = nvmeEP /\ jobs' = jobs /\ committing' = committing /\ answers' = answers
      /\ running' = running /\ left' = left /\ timeout' = timeout /\ saved' = saved
      /\ errno' = errno /\ outcome' = outcome /\ failures' = failures
  BY DEF adminFwCommit, workerVars
<1>2. PICK new : new = NewCall /\ CallKept(new, "fw commit")
  BY <1>1, CallMade
<1>3. new \notin WorkerCalls /\ WorkerCalls' = WorkerCalls
  BY <1>2, WorkerCallsKept
<1>4. PICK commit : /\ commit = [call |-> new, commit |-> TRUE]
                    /\ commit \in Posting /\ commit.call = new
  <2>1. new \in Call
    BY <1>2 DEF CallKept
  <2> QED
    BY <2>1, CommitIsPosting
<1>5. mainLoop \in Seq(Posting) /\ mainLoop' = Append(mainLoop, commit)
  BY <1>1, <1>2, <1>4 DEF CallsInv, TypeOK
<1>6. /\ \A c \in WorkerCalls : PostedFor(mainLoop', c) => PostedFor(mainLoop, c)
      /\ PostedInOrder(mainLoop, WorkerCalls) => PostedInOrder(mainLoop', WorkerCalls)
  <2>1. PICK set : set = WorkerCalls
    OBVIOUS
  <2>2. commit \in Posting /\ commit.call \notin set
    BY <2>1, <1>3, <1>4
  <2>3. /\ \A c \in set : PostedFor(mainLoop', c) => PostedFor(mainLoop, c)
        /\ PostedInOrder(mainLoop, set) => PostedInOrder(mainLoop', set)
    BY <2>2, <1>5, PostedLonger
  <2> QED
    BY <2>1, <2>3
<1> QED
  BY <1>1, <1>3, <1>4, <1>6, OrderKept, OrderedParts

LEMMA TooLongOrdered ==
  ASSUME CallsInv, Ordered, "security receive too long" \in Requests, ReceiveTooLong
  PROVE  Ordered'
<1>1. /\ MakeCall("security receive too long")
      /\ answers' = [answers EXCEPT ![NewCall] = Append(@, Failed("invalid_argument"))]
      /\ nvmeEP' = nvmeEP /\ jobs' = jobs /\ committing' = committing /\ mainLoop' = mainLoop
      /\ running' = running /\ left' = left /\ timeout' = timeout /\ saved' = saved
      /\ errno' = errno /\ outcome' = outcome /\ failures' = failures
  BY DEF ReceiveTooLong, workerVars
<1>2. PICK new : new = NewCall /\ CallKept(new, "security receive too long")
  BY <1>1, CallMade
<1>3. new \notin WorkerCalls /\ WorkerCalls' = WorkerCalls
  BY <1>2, WorkerCallsKept
<1>4. \A c \in WorkerCalls : answers'[c] = answers[c]
  <2>1. \A c \in WorkerCalls : c \in Call /\ c # new
    BY <1>3, PostedCalls
  <2>2. answers \in [Call -> Seq(ReplySet)]
    BY DEF CallsInv, TypeOK
  <2> QED
    BY <2>1, <2>2, <1>1, <1>2
<1> QED
  BY <1>1, <1>3, <1>4, OrderKept, OrderedParts

LEMMA StartOrdered ==
  ASSUME CallsInv, Ordered, StartJob
  PROVE  Ordered'
<1>1. /\ running = 0 /\ jobs # <<>> /\ running' = Head(jobs) /\ jobs' = Tail(jobs)
      /\ calls' = calls /\ mainLoop' = mainLoop /\ answers' = answers /\ nvmeEP' = nvmeEP
  BY DEF StartJob
<1>2. WorkerCalls' = WorkerCalls
  BY <1>1 DEF WorkerCalls, OnWorker
<1>3. /\ Len(jobs) \in Nat /\ Len(jobs) >= 1 /\ DOMAIN jobs = 1..Len(jobs)
      /\ DOMAIN jobs' = 1..Len(jobs) - 1 /\ Head(jobs) = jobs[1]
      /\ \A i \in 1..Len(jobs) - 1 : jobs'[i] = jobs[i + 1]
  <2>1. jobs \in Seq(Call)
    BY DEF CallsInv, TypeOK
  <2> QED
    BY <2>1, <1>1, Taken
<1> SUFFICES ASSUME nvmeEP PROVE Ordered'
  BY <1>1 DEF Ordered
<1>4. ASSUME NEW k \in DOMAIN jobs'
      PROVE  k + 1 \in DOMAIN jobs /\ jobs'[k] = jobs[k + 1] /\ k \in Int /\ 1 < k + 1
             /\ 1 \in DOMAIN jobs
  BY <1>3
<1>5. ASSUME NEW i \in DOMAIN jobs', NEW j \in DOMAIN jobs', i < j PROVE jobs'[i] < jobs'[j]
  <2>1. i + 1 < j + 1
    BY <1>4, <1>5
  <2> QED
    BY <2>1, <1>4, OrderedParts
<1>6. ASSUME NEW k \in DOMAIN jobs' PROVE running' < jobs'[k]
  BY <1>1, <1>3, <1>4, OrderedParts
<1>7. ASSUME NEW other \in WorkerCalls PROVE Due(other)' => Due(other)
  <2>1. JobAt(jobs', other) => JobAt(jobs, other)
    BY <1>4 DEF JobAt
  <2>2. running' = other => JobAt(jobs, other)
    <3>1. 1 \in DOMAIN jobs
      BY <1>3
    <3> QED
      BY <3>1, <1>1, <1>3 DEF JobAt
  <2> QED
    BY <2>1, <2>2 DEF Due
<1>8. ASSUME NEW one \in WorkerCalls, NEW other \in WorkerCalls
      PROVE  /\ Due(other)' /\ (PostedFor(mainLoop', one) \/ answers'[one] # <<>>) => one < other
             /\ PostedFor(mainLoop', other) /\ answers'[one] # <<>> => one <= other
  BY <1>1, <1>7, OrderedParts
<1> QED
  BY <1>1, <1>2, <1>5, <1>6, <1>8, OrderedParts DEF Ordered

LEMMA FinishOrdered ==
  ASSUME CallsInv, Ordered, NEW rc \in Errnos \cup {"done", "refused", "excess", "EINVAL"},
         running # 0, rc = "excess" => calls[running] \in Security, Finish(rc)
  PROVE  Ordered'
<1>1. /\ running' = 0 /\ errno' = ErrnoAfter(rc)
      /\ mainLoop' = mainLoop \o [k \in DOMAIN Replies(calls[running], rc, errno') |->
                                    Posted(running, Replies(calls[running], rc, errno')[k])]
      /\ answers' = answers /\ calls' = calls /\ jobs' = jobs /\ nvmeEP' = nvmeEP
  BY DEF Finish, PostReplies
<1> SUFFICES ASSUME nvmeEP PROVE Ordered'
  BY <1>1 DEF Ordered
<1>2. PICK c : /\ c = running /\ c \in DOMAIN calls /\ c \in Call /\ c \in WorkerCalls
               /\ c \in Int
               /\ calls[c] \in LogRequests \cup Security \cup {"xfer"}
  <2>1. running \in DOMAIN calls /\ running \in WorkerCalls
        /\ calls[running] \notin {"fw commit", "security receive too long"}
    BY DEF CallsInv, CallsPending, OnWorker, WorkerCalls
  <2>2. running \in Call /\ calls[running] \in KnownRequests
    BY <2>1, CallTypes, CallConstants
  <2> QED
    BY <2>1, <2>2, PostedCalls DEF KnownRequests
<1>3. PICK err : /\ err = errno' /\ err \in Errnos \cup {"none", "EINVAL"}
                 /\ Negative(rc) => err = rc
  BY <1>1 DEF CallsInv, TypeOK, ErrnoAfter, Negative
<1>4. PICK replies : replies = Replies(calls[c], rc, err)
  OBVIOUS
<1>5. PICK posted : /\ posted = [k \in DOMAIN replies |-> Posted(c, replies[k])]
                    /\ mainLoop' = mainLoop \o posted
  BY <1>1, <1>2, <1>3, <1>4
<1>6. posted \in Seq(Posting) /\ \A k \in DOMAIN posted : posted[k].call = c
  <2>1. \A k \in DOMAIN posted : posted[k].call = c
    BY <1>5 DEF Posted
  <2>2. replies \in Seq(ReplySet)
    <3>1. \/ \E reply \in ReplySet : replies = <<reply>>
          \/ replies = <<Bad, Unfilled>>
      BY <1>2, <1>3, <1>4, RepliesShape
    <3>2. Bad \in ReplySet /\ Unfilled \in ReplySet
      BY FailedIsReply, IsReply DEF Bad, Unfilled
    <3>3. CASE \E reply \in ReplySet : replies = <<reply>>
      BY <3>3
    <3>4. CASE replies = <<Bad, Unfilled>>
      BY <3>2, <3>4
    <3> QED
      BY <3>1, <3>3, <3>4
  <2>3. Len(replies) \in Nat /\ DOMAIN replies = 1..Len(replies)
    BY <2>2
  <2>4. \A k \in DOMAIN replies : posted[k] \in Posting
    <3> SUFFICES ASSUME NEW k \in DOMAIN replies PROVE posted[k] \in Posting
      OBVIOUS
    <3>1. replies[k] \in ReplySet
      BY <2>2, Element
    <3> QED
      BY <3>1, <1>2, <1>5, PostedIsPosting
  <2>5. posted \in [1..Len(replies) -> Posting]
    BY <2>3, <2>4, <1>5
  <2> QED
    BY <2>1, <2>3, <2>5, SeqDef
<1>7. WorkerCalls' = WorkerCalls /\ WorkerCalls \in SUBSET Int
  BY <1>1, PostedCalls DEF WorkerCalls, OnWorker
<1>8. \A d \in WorkerCalls : PostedFor(mainLoop, d) \/ answers[d] # <<>> => d < c
  BY <1>2, OrderedParts DEF Due
<1>9. /\ \A d : PostedFor(mainLoop', d) => PostedFor(mainLoop, d) \/ d = c
      /\ PostedInOrder(mainLoop', WorkerCalls)
  <2>1. mainLoop \in Seq(Posting)
    BY DEF CallsInv, TypeOK
  <2>2. \A d \in WorkerCalls : PostedFor(mainLoop, d) => d <= c
    BY <1>2, <1>7, <1>8
  <2>3. PostedInOrder(mainLoop, WorkerCalls)
    BY OrderedParts
  <2>4. PICK set \in SUBSET Int : set = WorkerCalls
    BY <1>7
  <2>5. /\ \A d : PostedFor(mainLoop \o posted, d) => PostedFor(mainLoop, d) \/ d = c
        /\ PostedInOrder(mainLoop \o posted, set)
    <3>1. c \in Int /\ (\A d \in set : d \in Int) /\ \A k \in DOMAIN posted : posted[k].call = c
      BY <1>2, <1>6
    <3>2. PostedInOrder(mainLoop, set) /\ \A d \in set : PostedFor(mainLoop, d) => d <= c
      BY <2>2, <2>3, <2>4
    <3>3. posted \in Seq(Posting)
      BY <1>6
    <3> QED
      BY <3>1, <3>2, <3>3, <2>1, PostedJoined
  <2> QED
    BY <2>4, <2>5, <1>5
<1>10. ASSUME NEW other \in WorkerCalls, Due(other)' PROVE Due(other) /\ c < other
  <2>1. PICK k \in DOMAIN jobs : jobs[k] = other
    BY <1>1, <1>10, PostedCalls DEF Due, JobAt
  <2> QED
    BY <2>1, <1>2, OrderedParts DEF Due, JobAt
<1>11. ASSUME NEW one \in WorkerCalls, NEW other \in WorkerCalls
       PROVE  /\ Due(other)' /\ (PostedFor(mainLoop', one) \/ answers'[one] # <<>>) => one < other
              /\ PostedFor(mainLoop', other) /\ answers'[one] # <<>> => one <= other
  <2>1. one \in Int /\ other \in Int /\ answers'[one] = answers[one]
    BY <1>1, PostedCalls
  <2>2. ASSUME Due(other)', PostedFor(mainLoop', one) \/ answers'[one] # <<>> PROVE one < other
    BY <2>1, <2>2, <1>9, <1>10, OrderedParts
  <2>3. ASSUME PostedFor(mainLoop', other), answers'[one] # <<>> PROVE one <= other
    BY <2>1, <2>3, <1>8, <1>9, OrderedParts
  <2> QED
    BY <2>2, <2>3
<1> QED
  BY <1>1, <1>7, <1>9, <1>11, OrderedParts DEF Ordered

LEMMA DeliverOrdered ==
  ASSUME CallsInv, Ordered, Deliver
  PROVE  Ordered'
<1>1. /\ mainLoop # <<>> /\ mainLoop' = Tail(mainLoop)
      /\ answers' = [answers EXCEPT ![Head(mainLoop).call] = Append(@, Head(mainLoop).reply)]
      /\ calls' = calls /\ jobs' = jobs /\ running' = running /\ nvmeEP' = nvmeEP
  BY DEF Deliver, workerVars
<1> SUFFICES ASSUME nvmeEP PROVE Ordered'
  BY <1>1 DEF Ordered
<1>2. PICK c : c = Head(mainLoop).call
  OBVIOUS
<1>3. WorkerCalls' = WorkerCalls /\ \A d : Due(d)' <=> Due(d)
  BY <1>1 DEF WorkerCalls, OnWorker, Due
<1>4. \A d \in WorkerCalls : d # c => answers'[d] = answers[d]
  <2>1. \A d \in WorkerCalls : d \in Call
    BY PostedCalls
  <2> QED
    BY <2>1, <1>1, <1>2 DEF CallsInv, TypeOK
<1>5. /\ \A d : PostedFor(mainLoop', d) => PostedFor(mainLoop, d)
      /\ PostedFor(mainLoop, c)
      /\ PostedInOrder(mainLoop', WorkerCalls)
      /\ \A d \in WorkerCalls : c \in WorkerCalls /\ PostedFor(mainLoop', d) => c <= d
  <2>1. mainLoop \in Seq(Posting) /\ PostedInOrder(mainLoop, WorkerCalls)
    BY OrderedParts DEF CallsInv, TypeOK
  <2> QED
    BY <2>1, <1>1, <1>2, PostedShorter
<1>6. ASSUME NEW one \in WorkerCalls, NEW other \in WorkerCalls
      PROVE  /\ Due(other)' /\ (PostedFor(mainLoop', one) \/ answers'[one] # <<>>) => one < other
             /\ PostedFor(mainLoop', other) /\ answers'[one] # <<>> => one <= other
  <2>1. CASE one = c
    BY <2>1, <1>3, <1>5, OrderedParts
  <2>2. CASE one # c
    BY <2>2, <1>3, <1>4, <1>5, OrderedParts
  <2> QED
    BY <2>1, <2>2
<1> QED
  BY <1>1, <1>3, <1>5, <1>6, OrderedParts DEF Ordered

LEMMA CommitStartOrdered ==
  ASSUME CallsInv, Ordered, CommitStarts
  PROVE  Ordered'
<1>1. /\ mainLoop # <<>> /\ mainLoop' = Tail(mainLoop)
      /\ calls' = calls /\ jobs' = jobs /\ answers' = answers
      /\ running' = running /\ nvmeEP' = nvmeEP
  BY DEF CommitStarts, workerVars
<1>2. WorkerCalls' = WorkerCalls
  BY <1>1 DEF WorkerCalls, OnWorker
<1>3. ASSUME NEW set, PostedInOrder(mainLoop, set)
      PROVE  /\ \A d : PostedFor(mainLoop', d) => PostedFor(mainLoop, d)
             /\ PostedInOrder(mainLoop', set)
  <2>1. mainLoop \in Seq(Posting)
    BY DEF CallsInv, TypeOK
  <2> QED
    BY <2>1, <1>1, <1>3, PostedShorter
<1>4. PostedInOrder(mainLoop, {})
  BY DEF PostedInOrder
<1>5. \A d : PostedFor(mainLoop', d) => PostedFor(mainLoop, d)
  BY <1>3, <1>4
<1> QED
  BY <1>1, <1>2, <1>3, <1>5, OrderKept, OrderedParts

LEMMA CommitEndOrdered ==
  ASSUME CallsInv, Ordered, NEW rc \in Errnos \cup {"done", "refused"}, CommitEnds(rc)
  PROVE  Ordered'
<1>1. /\ committing # 0
      /\ mainLoop' = Append(mainLoop, Posted(committing, CommitReply(rc)))
      /\ calls' = calls /\ jobs' = jobs /\ answers' = answers
      /\ running' = running /\ nvmeEP' = nvmeEP
  BY DEF CommitEnds
<1>2. PICK c : c = committing /\ c \in Call /\ c \notin WorkerCalls
  BY <1>1, CallTypes DEF CallsInv, CallsPending, Commits, WorkerCalls, OnWorker
<1>3. WorkerCalls' = WorkerCalls
  BY <1>1 DEF WorkerCalls, OnWorker
<1>4. PICK reply \in ReplySet : reply = CommitReply(rc)
  <2>1. rc \in Errnos => CommitReply(rc) = Failed(rc)
    BY CallConstants DEF CommitReply
  <2> QED
    BY <2>1, IsReply, FailedIsReply DEF CommitReply
<1>5. PICK x \in Posting : x = Posted(c, reply) /\ x.call = c /\ x.commit = FALSE
  BY <1>2, PostingIs
<1>6. mainLoop' = Append(mainLoop, x) /\ mainLoop \in Seq(Posting)
  BY <1>1, <1>2, <1>4, <1>5 DEF CallsInv, TypeOK
<1>7. /\ \A d \in WorkerCalls : PostedFor(mainLoop', d) => PostedFor(mainLoop, d)
      /\ PostedInOrder(mainLoop, WorkerCalls) => PostedInOrder(mainLoop', WorkerCalls)
  <2>1. PICK set : set = WorkerCalls
    OBVIOUS
  <2>2. x \in Posting /\ x.call \notin set
    BY <2>1, <1>2, <1>5
  <2>3. /\ \A d \in set : PostedFor(mainLoop', d) => PostedFor(mainLoop, d)
        /\ PostedInOrder(mainLoop, set) => PostedInOrder(mainLoop', set)
    BY <2>2, <1>6, PostedLonger
  <2> QED
    BY <2>1, <2>3
<1> QED
  BY <1>1, <1>2, <1>3, <1>5, <1>7, OrderKept, OrderedParts

LEMMA QuietOrdered ==
  ASSUME CallsInv, Ordered, nvmeEP' = nvmeEP, calls' = calls, jobs' = jobs, mainLoop' = mainLoop,
         answers' = answers, running' = running
  PROVE  Ordered'
<1>1. WorkerCalls' = WorkerCalls
  BY DEF WorkerCalls, OnWorker
<1> QED
  BY <1>1, OrderKept, OrderedParts

LEMMA NextOrdered == CallsInv /\ Ordered /\ [Next]_vars => Ordered'
<1> SUFFICES ASSUME CallsInv, Ordered, [Next]_vars PROVE Ordered'
  OBVIOUS
<1>1. CASE MakesCall
  <2>1. ASSUME NEW request \in Requests, CallWithoutEndpoint(request) PROVE Ordered'
    BY <2>1 DEF CallWithoutEndpoint, Ordered
  <2> QED
    BY <2>1, <1>1, CallWorkerOrdered, FwCommitOrdered, TooLongOrdered DEF MakesCall
<1>2. CASE StartJob
  BY <1>2, StartOrdered
<1>3. CASE RejectLog
  BY <1>3, FinishOrdered DEF RejectLog
<1>4. CASE NextExchange
  BY <1>4, QuietOrdered DEF NextExchange
<1>5. ASSUME NEW rc \in Errnos \cup {"done", "refused", "excess"}, LastExchange(rc)
      PROVE  Ordered'
  <2>1. running # 0
    <3>1. left > 0
      BY <1>5 DEF LastExchange
    <3> QED
      BY <3>1 DEF CallsInv, WorkerKnown, TypeOK
  <2>2. Finish(rc) /\ (rc = "excess" => calls[running] \in Security)
    BY <1>5 DEF LastExchange, Security
  <2> QED
    BY <2>1, <2>2, FinishOrdered
<1>6. CASE OtherDriveFails
  BY <1>6, QuietOrdered DEF OtherDriveFails
<1>7. CASE MainStep
  BY <1>7, DeliverOrdered, CommitStartOrdered, CommitEndOrdered DEF MainStep
<1>8. CASE UNCHANGED vars
  BY <1>8, QuietOrdered DEF vars, workerVars
<1> QED
  BY <1>1, <1>2, <1>3, <1>4, <1>5, <1>6, <1>7, <1>8 DEF Next, WorkerStep

\* A call without answers waits or is posted.
LEMMA OrderedInOrder == CallsInv /\ Stages /\ Ordered => InOrder
<1> SUFFICES ASSUME CallsInv, Stages, Ordered,
                    NEW later \in DOMAIN calls, NEW earlier \in 1..later - 1,
                    ViaWorker(earlier), ViaWorker(later), answers[later] # <<>>,
                    answers[earlier] = <<>>
             PROVE  FALSE
  BY DEF InOrder
<1>1. /\ nvmeEP /\ earlier \in WorkerCalls /\ later \in WorkerCalls
      /\ earlier \in DOMAIN calls /\ OnWorker(earlier)
  BY DEF ViaWorker, OnWorker, WorkerCalls
<1>2. earlier \in Int /\ later \in Int /\ earlier # 0 /\ earlier < later
  BY <1>1, PostedCalls
<1>3. ~Due(earlier) /\ ~PostedFor(mainLoop, earlier)
  BY <1>1, <1>2, OrderedParts
<1>4. ~Waits(earlier)
  <2>1. ~Commits(earlier)
    BY <1>1 DEF OnWorker, Commits
  <2> QED
    BY <2>1, <1>2, <1>3, QueuedCalls DEF Waits, Due
<1>5. NoneAt(mainLoop, earlier)
  BY <1>3 DEF PostedFor, NoneAt, RepliesTo
<1>6. \A x : ~OnlyAt(mainLoop, earlier, Posted(earlier, x))
  BY <1>5, PostedReplies DEF OnlyAt, NoneAt
<1>7. \A x, y : ~PairAt(mainLoop, earlier, Posted(earlier, x), Posted(earlier, y))
  BY <1>5, PostedReplies DEF PairAt, NoneAt
<1>8. answers[earlier] # <<>>
  <2>1. \A x : <<x>> # <<>>
    OBVIOUS
  <2>2. \A x, y : <<x, y>> # <<>>
    OBVIOUS
  <2> QED
    BY <2>1, <2>2, <1>1, <1>4, <1>6, <1>7 DEF Stages, Stage, HasOne, HasTwo
<1> QED
  BY <1>8

LEMMA InitOrdered == Init => Ordered
<1> SUFFICES ASSUME Init PROVE Ordered
  OBVIOUS
<1>1. DOMAIN jobs = {} /\ DOMAIN mainLoop = {} /\ DOMAIN calls = {} /\ running = 0
  BY NoElement DEF Init
<1>2. WorkerCalls = {}
  BY <1>1 DEF WorkerCalls
<1> QED
  BY <1>1, <1>2 DEF Ordered, PostedInOrder

-----------------------------------------------------------------------------
(* Theorems.                                                               *)

\* IInv holds in every state: each call waits, runs or has ended in one place, with
\* an outcome that only its end sets and the replies that outcome calls for, and
\* jobs, postings and answers are in the order of the calls (enqueue and post,
\* NVMeMi.cpp:121-144).
THEOREM CommandsInvariant == Spec => []IInv
<1>1. Init => IInv
  BY InitInv, InitStages, InitOrdered DEF IInv
<1>2. IInv /\ [Next]_vars => IInv'
  BY NextKeeps, NextStages, NextOrdered DEF IInv
<1> QED
  BY <1>1, <1>2, PTL DEF Spec

\* No answer, of any number of calls of any drive, shows another call's errno as
\* the reason of its own failure; security commands alone show one with a success
\* (NVMeMi.cpp:888-891, 979-982, 1103-1107, 1159-1165).
THEOREM ErrnoAlwaysOwn == Spec => []ErrnoIsOwn
<1>1. IInv => ErrnoIsOwn
  BY DEF IInv, CallsInv
<1> QED
  BY <1>1, CommandsInvariant, PTL

\* No transfer, however it ends and however many run, leaves its timeout to the
\* endpoint (NVMeMi.cpp:964-972).
THEOREM TimeoutAlwaysRestored == Spec => []TimeoutRestored
<1>1. IInv => TimeoutRestored
  BY DEF IInv, CallsInv
<1> QED
  BY <1>1, CommandsInvariant, PTL

\* No callback is lost, and none is called twice but that of a log page which the
\* drive refuses, whatever fails on the way (NVMeMi.cpp:836-912, 979-996,
\* 1048-1070, 1103-1107, 1159-1165).
THEOREM AlwaysAnsweredOnce == Spec => []AnsweredOnce
<1>1. IInv => AnsweredOnce
  BY StagesOnce DEF IInv
<1> QED
  BY <1>1, CommandsInvariant, PTL

\* No failed command is shown as a success, and no buffer that the drive has not
\* filled as its answer, with the exceptions that SuccessIsReal names
\* (NVMeMi.cpp:836-912).
THEOREM SuccessAlwaysReal == Spec => []SuccessIsReal
<1>1. IInv => SuccessIsReal
  BY StagesReal DEF IInv
<1> QED
  BY <1>1, CommandsInvariant, PTL

\* The callbacks of the calls that the Worker runs come in the order of the calls,
\* through two queues and two threads (NVMeMi.cpp:121-144).
THEOREM AlwaysInOrder == Spec => []InOrder
<1>1. IInv => InOrder
  BY OrderedInOrder DEF IInv
<1> QED
  BY <1>1, CommandsInvariant, PTL
=============================================================================
