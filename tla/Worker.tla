------------------------------- MODULE Worker -------------------------------
(***************************************************************************)
(* NVMeMi::Worker: the one thread that runs every NVMe-MI command, and the *)
(* condition variable that replaces asio's work guard.  Threads interleave *)
(* at lock operations, accesses to workerStop and calls of asio.  asio is  *)
(* external: its handlers are a sequence, post() appends to it and run()   *)
(* executes from the front until it is empty.                              *)
(*                                                                         *)
(* A call of post() that throws "NVMeMi has been stopped" leaves its       *)
(* thread "out", with nothing queued.                                      *)
(***************************************************************************)
EXTENDS Naturals, Sequences

CONSTANTS
  Posters,                           \* threads that call post()
  WorkerThread, Destroyer,           \* the other two threads
  Free                               \* no thread: the mutex is not held

ASSUME ThreadsDistinct ==
  /\ WorkerThread \notin Posters
  /\ Destroyer \notin Posters \cup {WorkerThread}
  /\ Free \notin Posters \cup {WorkerThread, Destroyer}

VARIABLES
  queue,                \* workerIO: each poster's handler, named by the poster
  workerStop,
  workerMtx,            \* the thread holding it, or Free
  wpc,                  \* control state of the worker thread
  ppc,                  \* control state of each poster
  dpc                   \* control state of the thread running ~Worker

vars == <<queue, workerStop, workerMtx, wpc, ppc, dpc>>

Init ==
  /\ queue = <<>>
  /\ workerStop = FALSE
  /\ workerMtx = Free
  /\ wpc = "run"
  /\ ppc = [p \in Posters |-> "out"]
  /\ dpc = "alive"

Queued(p) == \E i \in 1..Len(queue) : queue[i] = p

-----------------------------------------------------------------------------
Acquire(t) == workerMtx = Free /\ workerMtx' = t
Release    == workerMtx' = Free

WorkerStep(from, to)    == wpc = from /\ wpc' = to
PosterStep(p, from, to) == ppc[p] = from /\ ppc' = [ppc EXCEPT ![p] = to]
DestroyerStep(from, to) == dpc = from /\ dpc' = to

\* notify_all reaches the worker only while it is inside cv.wait.
NotifyAll == wpc' = IF wpc = "asleep" THEN "woken" ELSE wpc

-----------------------------------------------------------------------------
(* The worker thread.                                                      *)

\* io.run() executes the next handler, in the loop or after a stop request.
RunTask ==
  /\ wpc \in {"run", "drain"}
  /\ queue # <<>>
  /\ queue' = Tail(queue)
  /\ UNCHANGED <<workerStop, workerMtx, wpc, ppc, dpc>>

\* io.run() returns for want of work; io.restart() clears its stopped flag.
RunReturns ==
  /\ WorkerStep("run", "lock")
  /\ queue = <<>>
  /\ UNCHANGED <<queue, workerStop, workerMtx, ppc, dpc>>

LockToWait ==
  /\ WorkerStep("lock", "wait")
  /\ Acquire(WorkerThread)
  /\ UNCHANGED <<queue, workerStop, ppc, dpc>>

\* cv.wait(lock) takes no predicate: it always releases and sleeps.
CvWait ==
  /\ WorkerStep("wait", "asleep")
  /\ Release
  /\ UNCHANGED <<queue, workerStop, ppc, dpc>>

SpuriousWakeup ==
  /\ WorkerStep("asleep", "woken")
  /\ UNCHANGED <<queue, workerStop, workerMtx, ppc, dpc>>

Relock ==
  /\ WorkerStep("woken", "check")
  /\ Acquire(WorkerThread)
  /\ UNCHANGED <<queue, workerStop, ppc, dpc>>

\* Mutant: a stop request ends the thread without a second io.run().
CheckStopNoDrain ==
  /\ WorkerStep("check", IF workerStop THEN "done" ELSE "run")
  /\ Release
  /\ UNCHANGED <<queue, workerStop, ppc, dpc>>

\* Mutant: without a stop request the thread waits again at once.
CheckStopNoRun ==
  /\ IF workerStop THEN WorkerStep("check", "drain") /\ UNCHANGED workerMtx
                   ELSE WorkerStep("check", "lock") /\ Release
  /\ UNCHANGED <<queue, workerStop, ppc, dpc>>

\* After a stop request the lock stays held; otherwise its scope ends.
CheckStop ==
  /\ \/ workerStop /\ WorkerStep("check", "drain") /\ UNCHANGED workerMtx
     \/ ~workerStop /\ WorkerStep("check", "run") /\ Release
  /\ UNCHANGED <<queue, workerStop, ppc, dpc>>

\* The second io.run() found nothing more: unlock and end the thread.
Exit ==
  /\ WorkerStep("drain", "done")
  /\ queue = <<>>
  /\ Release
  /\ UNCHANGED <<queue, workerStop, ppc, dpc>>

WorkerNext ==
  \/ RunTask \/ RunReturns \/ LockToWait \/ CvWait
  \/ Relock \/ CheckStop \/ Exit

-----------------------------------------------------------------------------
(* Worker::post().                                                         *)

\* The unlocked test of workerStop.  Bound: a poster has one task at a time,
\* as a drive that issues its next command from the last one's callback.
EnterPost(p) ==
  /\ PosterStep(p, "out", "entered")
  /\ ~workerStop
  /\ ~Queued(p)
  /\ UNCHANGED <<queue, workerStop, workerMtx, wpc, dpc>>

\* Mutant: post() does not take the mutex.
LockPostNoLock(p) ==
  /\ PosterStep(p, "entered", "locked")
  /\ UNCHANGED <<queue, workerStop, workerMtx, wpc, dpc>>

LockPost(p) ==
  /\ PosterStep(p, "entered", "locked")
  /\ Acquire(p)
  /\ UNCHANGED <<queue, workerStop, wpc, dpc>>

\* Mutant: post() tests workerStop only once, before it takes the mutex.
RecheckNothing(p) ==
  /\ PosterStep(p, "locked", "accepted")
  /\ UNCHANGED <<queue, workerStop, workerMtx, wpc, dpc>>

\* The test of workerStop under the lock; the failing one throws.
Recheck(p) ==
  /\ \/ ~workerStop /\ PosterStep(p, "locked", "accepted") /\ UNCHANGED workerMtx
     \/ workerStop /\ PosterStep(p, "locked", "out") /\ Release
  /\ UNCHANGED <<queue, workerStop, wpc, dpc>>

Push(p) ==
  /\ PosterStep(p, "accepted", "pushed")
  /\ queue' = Append(queue, p)
  /\ UNCHANGED <<workerStop, workerMtx, wpc, dpc>>

NotifyAndReturn(p) ==
  /\ PosterStep(p, "pushed", "out")
  /\ NotifyAll
  /\ Release
  /\ UNCHANGED <<queue, workerStop, dpc>>

InPost(p) == LockPost(p) \/ Recheck(p) \/ Push(p) \/ NotifyAndReturn(p)

-----------------------------------------------------------------------------
(* Worker::~Worker().                                                      *)

\* workerStop is written before the mutex is taken.
RequestStop ==
  /\ DestroyerStep("alive", "stopping")
  /\ workerStop' = TRUE
  /\ UNCHANGED <<queue, workerMtx, wpc, ppc>>

LockToNotify ==
  /\ DestroyerStep("stopping", "locked")
  /\ Acquire(Destroyer)
  /\ UNCHANGED <<queue, workerStop, wpc, ppc>>

\* Mutant: the destructor joins without notifying.
StopSilently ==
  /\ DestroyerStep("locked", "joining")
  /\ Release
  /\ UNCHANGED <<queue, workerStop, wpc, ppc>>

NotifyStop ==
  /\ DestroyerStep("locked", "joining")
  /\ NotifyAll
  /\ Release
  /\ UNCHANGED <<queue, workerStop, ppc>>

Join ==
  /\ DestroyerStep("joining", "gone")
  /\ wpc = "done"
  /\ UNCHANGED <<queue, workerStop, workerMtx, wpc, ppc>>

InDestructor == LockToNotify \/ NotifyStop \/ Join

-----------------------------------------------------------------------------
Next ==
  \/ WorkerNext
  \/ SpuriousWakeup
  \/ \E p \in Posters : EnterPost(p) \/ InPost(p)
  \/ RequestStop
  \/ InDestructor

Spec == Init /\ [][Next]_vars

\* The scheduler runs every thread that can run, and a free mutex is taken.
\* Nobody has to call post() or the destructor, nor does cv.wait have to wake.
FairSpec ==
  /\ Spec
  /\ WF_vars(WorkerNext)
  /\ \A p \in Posters : WF_vars(InPost(p))
  /\ WF_vars(InDestructor)

-----------------------------------------------------------------------------
(* Safety.                                                                 *)

TypeOK ==
  /\ queue \in Seq(Posters)
  /\ workerStop \in BOOLEAN
  /\ workerMtx \in Posters \cup {WorkerThread, Destroyer, Free}
  /\ wpc \in {"run", "lock", "wait", "asleep", "woken", "check", "drain", "done"}
  /\ ppc \in [Posters -> {"out", "entered", "locked", "accepted", "pushed"}]
  /\ dpc \in {"alive", "stopping", "locked", "joining", "gone"}

\* workerMtx is held by exactly the thread that is between its lock and unlock.
LockDiscipline ==
  /\ workerMtx = WorkerThread <=> wpc \in {"wait", "check", "drain"}
  /\ \A p \in Posters :
       workerMtx = p <=> ppc[p] \in {"locked", "accepted", "pushed"}
  /\ workerMtx = Destroyer <=> dpc = "locked"

\* The thread ends only on a stop request, and a post() that has passed the
\* locked test of workerStop still has a worker that will look at the queue.
StopDiscipline ==
  /\ dpc # "alive" <=> workerStop
  /\ wpc \in {"drain", "done"} => workerStop
  /\ \A p \in Posters :
       ppc[p] \in {"accepted", "pushed"} => wpc \notin {"drain", "done"}

\* "exhaust all tasks and exit" (NVMeMi.cpp:82): when the thread has ended no
\* task that post() accepted is left, however post() and ~Worker interleave.
ExhaustedAtExit == wpc = "done" => queue = <<>>

\* The inductive invariant: the four of them together.
IInv == TypeOK /\ LockDiscipline /\ StopDiscipline /\ ExhaustedAtExit

\* With its locks and flags hidden, the Worker is a first-in first-out executor.
Executor == INSTANCE TaskExecutor
              WITH Tasks <- Posters, backlog <- queue, closed <- (wpc = "done")

\* Every task accepted by post() (NVMeMi.cpp:106-119) is run once, in order,
\* and none is accepted by a Worker whose thread has ended.
ImplementsExecutor == Executor!Spec

\* A task is overlooked if the thread sleeps, or is about to, while the task is
\* queued, and the notification of no post() is still to come.
Overlooked ==
  /\ queue # <<>>
  /\ \/ wpc \in {"lock", "wait"}
     \/ wpc = "asleep" /\ \A p \in Posters : ppc[p] # "pushed"

\* That happens only to a task that is posted after io.run() has returned and before
\* the thread has the mutex: one posted at any other time is run, or wakes the
\* thread (NVMeMi.cpp:73-79, 110-116).
LostInWindow ==
  [][~Overlooked /\ Overlooked' => wpc = "lock" /\ \E p \in Posters : Push(p)]_vars

\* join() waits for a thread that is going to sleep, or sleeps, without a notification.
StopMissed == dpc = "joining" /\ wpc \in {"run", "lock", "wait", "asleep"}

\* That happens only if ~Worker notifies a thread that runs tasks or has not got the
\* mutex to wait: workerStop is tested only after a wake-up (NVMeMi.cpp:73-80, 91-99).
StopMissedAwake ==
  [][~StopMissed /\ StopMissed' => NotifyStop /\ wpc \in {"run", "lock"}]_vars

-----------------------------------------------------------------------------
(* Liveness, under FairSpec.                                               *)

\* A thread woken from cv.wait runs all that is queued, earlier posts whose
\* notification it missed included.
WakeRunsBacklog ==
  \A p \in Posters : (wpc = "woken" /\ Queued(p)) ~> ~Queued(p)

\* ~Worker ends the thread if its notification finds it asleep.
StopEndsSleeper == (dpc = "locked" /\ wpc = "asleep") ~> wpc = "done"

\* Every task handed to the worker thread "for calling NVMeMI cmd"
\* (NVMeMi.hpp:83) is eventually run.  It is not: the notification of post()
\* is lost while the thread is between io.run() and cv.wait.
EveryTaskRuns == \A p \in Posters : Queued(p) ~> ~Queued(p)
=============================================================================
