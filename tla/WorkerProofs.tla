---------------------------- MODULE WorkerProofs ----------------------------
(***************************************************************************)
(* Proofs about NVMeMi::Worker, for any number of threads that call        *)
(* post(): IInv is inductive, and the Worker implements TaskExecutor.      *)
(***************************************************************************)
EXTENDS Worker, TLAPS

LEMMA InitIInv == Init => IInv
<1> SUFFICES ASSUME Init PROVE IInv
  OBVIOUS
<1> USE DEF Init
<1>1. TypeOK
  <2>1. queue \in Seq(Posters)
    OBVIOUS
  <2>2. ppc \in [Posters -> {"out", "entered", "locked", "accepted", "pushed"}]
    OBVIOUS
  <2> QED
    BY <2>1, <2>2 DEF TypeOK
<1>2. LockDiscipline
  BY ThreadsDistinct DEF LockDiscipline
<1>3. StopDiscipline /\ ExhaustedAtExit
  BY DEF StopDiscipline, ExhaustedAtExit
<1> QED
  BY <1>1, <1>2, <1>3 DEF IInv

\* Steps of the worker thread preserve the invariant.
LEMMA WorkerKeepsIInv ==
  ASSUME IInv, WorkerNext \/ SpuriousWakeup
  PROVE  IInv'
<1> USE ThreadsDistinct
    DEF IInv, TypeOK, LockDiscipline, StopDiscipline, ExhaustedAtExit,
        Acquire, Release, WorkerStep
<1>1. CASE RunTask
  BY <1>1 DEF RunTask
<1>2. CASE RunReturns
  BY <1>2 DEF RunReturns
<1>3. CASE LockToWait
  BY <1>3 DEF LockToWait
<1>4. CASE CvWait
  BY <1>4 DEF CvWait
<1>5. CASE Relock
  BY <1>5 DEF Relock
<1>6. CASE CheckStop
  BY <1>6 DEF CheckStop
<1>7. CASE Exit
  BY <1>7 DEF Exit
<1>8. CASE SpuriousWakeup
  BY <1>8 DEF SpuriousWakeup
<1> QED
  BY <1>1, <1>2, <1>3, <1>4, <1>5, <1>6, <1>7, <1>8 DEF WorkerNext

\* So do the steps of post(), in whichever thread.
LEMMA PostKeepsIInv ==
  ASSUME IInv, NEW p \in Posters, EnterPost(p) \/ InPost(p)
  PROVE  IInv'
<1> USE ThreadsDistinct
    DEF IInv, TypeOK, LockDiscipline, StopDiscipline, ExhaustedAtExit,
        Acquire, Release, PosterStep
<1>1. CASE EnterPost(p)
  BY <1>1 DEF EnterPost
<1>2. CASE LockPost(p)
  BY <1>2 DEF LockPost
<1>3. CASE Recheck(p)
  BY <1>3 DEF Recheck
<1>4. CASE Push(p)
  BY <1>4 DEF Push
<1>5. CASE NotifyAndReturn(p)
  BY <1>5 DEF NotifyAndReturn, NotifyAll
<1> QED
  BY <1>1, <1>2, <1>3, <1>4, <1>5 DEF InPost

\* And those of the destructor.
LEMMA DestructorKeepsIInv ==
  ASSUME IInv, RequestStop \/ InDestructor
  PROVE  IInv'
<1> USE ThreadsDistinct
    DEF IInv, TypeOK, LockDiscipline, StopDiscipline, ExhaustedAtExit,
        Acquire, Release, DestroyerStep
<1>1. CASE RequestStop
  BY <1>1 DEF RequestStop
<1>2. CASE LockToNotify
  BY <1>2 DEF LockToNotify
<1>3. CASE NotifyStop
  BY <1>3 DEF NotifyStop, NotifyAll
<1>4. CASE Join
  BY <1>4 DEF Join
<1> QED
  BY <1>1, <1>2, <1>3, <1>4 DEF InDestructor

LEMMA NextKeepsIInv == IInv /\ [Next]_vars => IInv'
<1> SUFFICES ASSUME IInv, [Next]_vars PROVE IInv'
  OBVIOUS
<1>1. CASE UNCHANGED vars
  BY <1>1 DEF vars, IInv, TypeOK, LockDiscipline, StopDiscipline, ExhaustedAtExit
<1>2. CASE Next
  BY <1>2, WorkerKeepsIInv, PostKeepsIInv, DestructorKeepsIInv DEF Next
<1> QED
  BY <1>1, <1>2

\* The mutex is held by whoever is between its lock and its unlock, nobody
\* posts to a thread that is leaving its loop (NVMeMi.cpp:65-119), and so on:
\* every part of IInv holds in every reachable state.
THEOREM WorkerInvariant == Spec => []IInv
<1>1. Init => IInv
  BY InitIInv
<1>2. IInv /\ [Next]_vars => IInv'
  BY NextKeepsIInv
<1> QED
  BY <1>1, <1>2, PTL DEF Spec

\* ~Worker never leaves behind a task that post() has accepted: the thread
\* ends only with an empty queue (NVMeMi.cpp:80-85, 106-119).
THEOREM NothingLeftAtExit == Spec => []ExhaustedAtExit
<1>1. IInv => ExhaustedAtExit
  BY DEF IInv
<1> QED
  BY <1>1, WorkerInvariant, PTL

-----------------------------------------------------------------------------
(* Lost notifications.                                                     *)

\* No step but a post() in the window leaves a task behind a thread that sleeps.
LEMMA StepOverlooks ==
  ASSUME IInv, [Next]_vars, ~Overlooked, Overlooked'
  PROVE  wpc = "lock" /\ \E p \in Posters : Push(p)
<1> USE ThreadsDistinct
    DEF IInv, TypeOK, LockDiscipline, Overlooked, Acquire, Release
<1>1. CASE UNCHANGED vars
  BY <1>1 DEF vars
<1>2. CASE WorkerNext \/ SpuriousWakeup
  BY <1>2 DEF WorkerNext, RunTask, RunReturns, LockToWait, CvWait, Relock, CheckStop, Exit,
              SpuriousWakeup, WorkerStep
<1>3. CASE RequestStop \/ InDestructor
  BY <1>3 DEF RequestStop, InDestructor, LockToNotify, NotifyStop, Join, NotifyAll, DestroyerStep
<1>4. ASSUME NEW p \in Posters, EnterPost(p) \/ LockPost(p) \/ Recheck(p) PROVE FALSE
  BY <1>4 DEF EnterPost, LockPost, Recheck, PosterStep
<1>5. ASSUME NEW p \in Posters, NotifyAndReturn(p) PROVE FALSE
  BY <1>5 DEF NotifyAndReturn, NotifyAll, PosterStep
<1>6. ASSUME NEW p \in Posters, Push(p) PROVE wpc = "lock"
  <2>1. workerMtx = p /\ ppc'[p] = "pushed" /\ wpc' = wpc
    BY <1>6 DEF Push, PosterStep
  <2>2. wpc # "wait"
    BY <2>1
  <2> QED
    BY <2>1, <2>2
<1> QED
  BY <1>1, <1>2, <1>3, <1>4, <1>5, <1>6 DEF Next, InPost

\* The window between io.run() and the mutex is the only one in which a notification
\* of post() can be lost, whatever the number of threads and wherever they are
\* (NVMeMi.cpp:73-79, 106-119).
THEOREM LossesInWindow == Spec => LostInWindow
<1>1. IInv /\ [Next]_vars =>
        [~Overlooked /\ Overlooked' => wpc = "lock" /\ \E p \in Posters : Push(p)]_vars
  BY StepOverlooks
<1> QED
  BY <1>1, WorkerInvariant, PTL DEF Spec, LostInWindow

\* No step but the destructor's notification makes its join() wait for a thread that
\* nobody wakes.
LEMMA StepMisses ==
  ASSUME IInv, [Next]_vars, ~StopMissed, StopMissed'
  PROVE  NotifyStop /\ wpc \in {"run", "lock"}
<1> USE ThreadsDistinct
    DEF IInv, TypeOK, LockDiscipline, StopDiscipline, StopMissed, Acquire, Release
<1>1. CASE UNCHANGED vars
  BY <1>1 DEF vars
<1>2. CASE WorkerNext \/ SpuriousWakeup
  BY <1>2 DEF WorkerNext, RunTask, RunReturns, LockToWait, CvWait, Relock, CheckStop, Exit,
              SpuriousWakeup, WorkerStep
<1>3. CASE RequestStop \/ LockToNotify \/ Join
  BY <1>3 DEF RequestStop, LockToNotify, Join, DestroyerStep
<1>4. CASE NotifyStop
  BY <1>4 DEF NotifyStop, NotifyAll, DestroyerStep
<1>5. ASSUME NEW p \in Posters, EnterPost(p) \/ InPost(p) PROVE FALSE
  BY <1>5 DEF EnterPost, InPost, LockPost, Recheck, Push, NotifyAndReturn, NotifyAll, PosterStep
<1> QED
  BY <1>1, <1>2, <1>3, <1>4, <1>5 DEF Next, InDestructor

\* ~Worker is heard by a thread that sleeps, and missed by one that is awake, and by no
\* other: join() then waits for a spurious wake-up (NVMeMi.cpp:65-100).
THEOREM StopsMissedAwake == Spec => StopMissedAwake
<1>1. IInv /\ [Next]_vars =>
        [~StopMissed /\ StopMissed' => NotifyStop /\ wpc \in {"run", "lock"}]_vars
  BY StepMisses
<1> QED
  BY <1>1, WorkerInvariant, PTL DEF Spec, StopMissedAwake

-----------------------------------------------------------------------------
(* Refinement.  Only four kinds of step are visible to the caller.         *)

LEMMA InitRefines == Init => Executor!Init
BY DEF Init, Executor!Init

\* A task enters the executor when post() hands it to asio under the lock.
LEMMA PushAccepts ==
  ASSUME IInv, NEW p \in Posters, Push(p)
  PROVE  Executor!Accept(p)
BY DEF IInv, StopDiscipline, Push, PosterStep, Executor!Accept

\* It leaves when io.run() executes it, whichever of the two calls that is.
LEMMA RunTaskRuns == RunTask => Executor!Run
BY DEF RunTask, Executor!Run

\* The executor is closed when the thread ends.
LEMMA ExitCloses == Exit => Executor!Close
BY DEF Exit, WorkerStep, Executor!Close

LEMMA StepRefines == IInv /\ [Next]_vars => [Executor!Next]_Executor!vars
<1> SUFFICES ASSUME IInv, [Next]_vars PROVE [Executor!Next]_Executor!vars
  OBVIOUS
<1> USE DEF Executor!Next, Executor!vars
<1>1. CASE RunTask
  BY <1>1, RunTaskRuns
<1>2. CASE Exit
  BY <1>2, ExitCloses
<1>3. CASE \E p \in Posters : Push(p)
  BY <1>3, PushAccepts
<1>4. CASE RunReturns \/ LockToWait \/ CvWait \/ Relock \/ CheckStop \/ SpuriousWakeup
  BY <1>4 DEF RunReturns, LockToWait, CvWait, Relock, CheckStop, SpuriousWakeup,
              WorkerStep
<1>5. ASSUME NEW p \in Posters,
             EnterPost(p) \/ LockPost(p) \/ Recheck(p) \/ NotifyAndReturn(p)
      PROVE  UNCHANGED Executor!vars
  BY <1>5 DEF EnterPost, LockPost, Recheck, NotifyAndReturn, NotifyAll
<1>6. CASE RequestStop \/ InDestructor
  BY <1>6 DEF RequestStop, InDestructor, LockToNotify, NotifyStop, NotifyAll, Join
<1>7. CASE UNCHANGED vars
  BY <1>7 DEF vars
<1> QED
  BY <1>1, <1>2, <1>3, <1>4, <1>5, <1>6, <1>7 DEF Next, WorkerNext, InPost

\* Behind its locks and flags the Worker (NVMeMi.cpp:65-119) is a first-in
\* first-out executor that runs each accepted task once and closes when empty.
THEOREM WorkerImplementsExecutor == Spec => ImplementsExecutor
<1>1. Init => Executor!Init
  BY InitRefines
<1>2. IInv /\ [Next]_vars => [Executor!Next]_Executor!vars
  BY StepRefines
<1> QED
  BY <1>1, <1>2, WorkerInvariant, PTL DEF Spec, ImplementsExecutor, Executor!Spec
=============================================================================
