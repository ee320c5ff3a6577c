# A verification project for nvidia-nvme-manager

The program (`src/`) is a D-Bus daemon for a BMC. It finds NVMe drives that
speak NVMe-MI over MCTP, initialises and polls them, shows their health on D-Bus
and sanitizes them on request. These modules model it in TLA+, the `.cfg` files
check the models with TLC, and the `*Proofs` modules prove the main properties
with TLAPS for every value of the constants.

## The system

| Part | State | Operations | Source |
| --- | --- | --- | --- |
| Worker | queue of closures in `workerIO`, `workerStop`, `workerMtx`, `workerCv`, the thread | `post()`, the thread's loop, `~Worker()` | `NVMeMi.cpp:65-119` |
| NVMeMi, the command layer of a drive | `nvmeEP` and its timeout, the controllers libnvme-mi has open, the shared Worker, `errno` of its thread | `miScanCtrl`, `adminIdentify`, `miPCIePortInformation`, `miSubsystemHealthStatusPoll`, `adminGetLogPage`, `adminSanitize`, `adminXfer`, `adminFwCommit`, `adminSecuritySend`, `adminSecurityReceive` | `NVMeMi.cpp:20-63, 121-1170` |
| NVMeDevice, the drive object | `presence`, `ctrl`, `retry`, `scanTimer`, `inProgress`, the SecureErase, Progress and Operation properties; `nodmmas`, `eraseType`, `estimatedTime`; the link speeds | `initialize()`, `getDriveInfo()`, `getDriveLink()`, `pollDrive()`, `erase()`, `updatePercent()`, `getMaxLinkSpeed()`, `getCurrLinkSpeed()`, `setNodmmas()` and the callbacks | `NVMeDevice.cpp:181-333, 441-741`, `NVMeDevice.hpp:104-119` |
| Drive status | `driveFunctional`, `smartWarning`, `...Err`, `driveAssociation`, the Health, Associations and NVMeStatus properties | `markFunctional()`, `markStatus()`, `updateDriveAssociations()`, the SMART callback, the D-Bus setters | `NVMeDevice.cpp:142-161, 335-389, 599-661`, `NVMeDevice.hpp:144-168` |
| Drive manager | `driveMap`, `filterTimer`, the `getObjects` instances with their calls and data | `createDrives()`, `collectInventory()`, `handleMCTPEndpoints()`, `handleEmEndpoints()`, the handlers of three signals, `getConfiguration()`, `getPath()`, `~getObjects()` | `NVMeDeviceMain.cpp`, `MCTPDiscovery.hpp` |
| Redfish events, asset and `drive.json` strings | none that others read | `generateRedfishEventbySmart()`, `getManufacture()`, `stripString()`, `updateLocation()` | `NVMeDevice.cpp` |
| D-Bus helpers | none | `createLogEntry()` and getters | `dbusutil.hpp` |

Two threads run. The main loop runs every D-Bus call, timer and callback, one
at a time. The Worker thread, one for all drives, runs the NVMe-MI commands. A
drive object issues a command by posting a closure to the Worker; the closure
calls libnvme-mi and posts the callback with the reply to the main loop. Each
callback issues the next command: scan, Identify, port information, and then
the poll cycle of health status, SMART log and timer. A sanitize operation
replaces the poll by reading its log. Drive objects are made by the drive
manager: a signal arms `filterTimer`, the timer starts a collection of MCTP
endpoints, its end makes the drives and starts a collection of Entity Manager's
objects, and the end of that one updates and initialises all drives. `systemd`
restarts the process whenever it ends (`Restart=always`).

### What is hard

* The Worker replaces asio's work guard by a condition variable without
  predicate (`NVMeMi.cpp:70-79`), and tests `workerStop` with and without its lock.
* State is read by a handler and changed by a callback that comes much later:
  `erase()` tests `inProgress`, which is set by the reply; a rescan closes the
  controllers that queued commands and `ctrl` still name.
* Nothing but the last callback of the chain starts the next poll, so every
  error path must lead back to `pollDrive()`.
* Health and associations are written by two replies and by Entity Manager,
  each on a change of its own input only.
* The drive outlives the process and the replies: a sanitize operation goes on
  while its reply is lost or the process restarts.
* One timer serves two kinds of signals, and a third kind cancels it. Collections
  overlap, and each ends in a destructor, with whatever its calls have given.
* The loop over Entity Manager's objects carries variables from one to the next.
* The figures of a sanitize operation come from members that earlier operations
  and later Identify data may have set, in 32-bit arithmetic.
* `errno` and the endpoint's timeout are shared by the commands, and not every
  error path of a command returns after its reply.

`PROJECT.json` lists the hazards one by one, each with its line and with the
properties that would catch it.

### What makes each part correct

* Worker: each accepted task is run once, in order, and none is left when the
  thread ends; who wakes the thread runs everything; the destructor ends it.
* Command layer: each command is answered, once, in order, as it went, and it
  leaves nothing behind that the next one would meet.
* Drive object: a present drive goes on being polled; commands go to an open
  controller; nothing is used before it is set; an operation shown as completed
  is one, and every operation shown in progress ends.
* Status: health, associations and indicators agree, without false or missed
  alarms.
* Figures: the percentage is that of the operation's own time and method, does not
  fall, and stays below 100 until the end; the link's two speeds agree.
* Drive manager: each drive is made once, keeps its address, gets the data of its
  own bus and is started; the daemon's own announcements do not keep it busy.

## The modules

| Module | Models | EXTENDS |
| --- | --- | --- |
| `TaskExecutor` | what the Worker promises: a first-in first-out executor that closes when empty | |
| `Worker` | the thread, `post()` and `~Worker()`, interleaved at lock operations | refines `TaskExecutor` |
| `DriveStatus` | what a drive object shows of the drive's health: the steps that `NVMeDevice` takes on it | |
| `NVMeMi` | the command layer of one drive and the drive behind it | |
| `EraseOperation` | what `erase()` and the Progress interface promise: one operation at a time, announced, and concluded once, by its own outcome | |
| `NVMeDevice` | the drive object over both | `NVMeMi`, `DriveStatus`; refines `EraseOperation` |
| `MiCommands` | all the other commands, on both threads, with exchanges that take time | |
| `DriveFigures` | the percentage, the estimates and the link speeds of a drive object | |
| `DriveRegistry` | what the drive manager promises: drives are made once, keep their address and are made available together | |
| `DriveManager` | signals, `filterTimer`, the collections and `driveMap` | refines `DriveRegistry` |
| `MCWorker`, `MCNVMeDevice`, `MCMiCommands`, `MCDriveFigures`, `MCDriveManager` | instances for TLC | |
| `WorkerProofs`, `DriveStatusProofs`, `NVMeMiProofs`, `NVMeDeviceProofs`, `NVMeDeviceInvProofs`, `DriveManagerProofs`, `DriveFiguresProofs`, `MiCommandsProofs` | the proofs | |

### Worker

The control state of each thread is the place in the code it has reached. asio
is external: its handlers are a sequence, `post()` appends and `run()` executes
from the front. A task is named by the thread that posts it. `CvWait` has no
predicate, as `cv.wait(lock)` has none: `NotifyAll` reaches the thread only while
it is inside. `RequestStop` writes `workerStop` before the mutex is taken.
`TaskExecutor` hides all of this; `ImplementsExecutor` says that `Push` accepts a
task, `RunTask` runs it, `Exit` closes, and no other step is visible.

### DriveStatus

The SMART critical warning byte is the set of its bits, `Unread` the 0xff of
the constructor. `MarkFunctional` and `ApplySmart` are what the two replies do,
`Relocate` is what `handleEmEndpoints()` does to the associations, `SetFault` the
five D-Bus setters, `StatusReset` a restart. Each association to the chassis is
named by its far end.

### NVMeMi and NVMeDevice

`jobs` is the drive's part of the Worker's queue, `replies` the callbacks that wait
in the main loop, the expiry of `scanTimer` included. Other drives share both
queues and only delay what happens here. One action of `NVMeMi` runs one closure,
with one action per outcome; what the drive answers is free, within the
constants, except that the state of its sanitize operation (`hwSanitize`) is
modelled: a command is refused while one runs, and the log tells the truth. Each
action of `NVMeDevice` is a whole handler of the main loop. `Issue` is the common
head of the command methods: a closure for the Worker, or the error reply at once
when there is no endpoint.

Details of the code that the model keeps:

* a forced rescan closes every handle, also when it fails (`ScanFails`);
* a command through a closed handle may do anything (`MayFail`);
* a refused SMART log is answered twice (`SmartRefused`, `NVMeMi.cpp:894-912`);
* a sanitize log that cannot be read is delivered as a success full of zeroes
  (`SanlogFails`: `rc` is shadowed, `NVMeMi.cpp:861`), so the error branch of its
  callback (`NVMeDevice.cpp:491-497`) is not reached while there is an endpoint,
  and no operation is in progress without one;
* re-arming the timer does not take back a handler that is queued already.

`EraseOperation` hides the queues, the polling and the restarts of the drive's
initialisation: a command begins an operation or is refused, the reply announces
it, the drive ends it, and a log concludes it. `ImplementsErase` maps it to
`Progress::status`, to the reply that waits, and to the drive; what it promises holds
only without mishaps.

Abstractions: an empty list of controllers counts as a failed scan, since both
take the same branch; `Operation::operation` is set once together with
`inProgress` and is folded into it; the percentage is `none`, `some` (0 to 99) or
`full`, since `DriveFigures` has its value; asset data and Redfish events are left out.

### DriveFigures

The same drive object with its commands succeeding, in the order in which
`NVMeDevice` lets them, and the numbers in full. SANICAP and the supported speeds are
sets of bit positions; the seconds and estimates are numbers, and `Wrapped` is the
unsigned word. `Byte` is the conversion to `uint8_t` of `setNodmmas()`'s parameter. `Unset`
is what the constructor leaves in a member. `updatePercent()` divides before it
looks whether the estimate is zero; where the machine traps, the process ends
(`DivisionTraps`), and where it does not, the quotient is not used. `polls` and `link`
record what the properties compare with.

### MiCommands

A call is named by its number. `jobs` is the Worker's queue, `running` and `left` the
closure it runs and the exchanges it has still to make, `mainLoop` what is posted
to the main loop: replies, and the closures of `adminFwCommit()`, which run there.
Each exchange begins in one step and ends in another, so that the threads
overlap. `Replies` says for each command, and each result of its exchange, which
replies the closure posts: two for a log that the drive refuses, "unfilled"
success for the reservation and sanitize logs, whose `rc` is shadowed, `errno` even
on success for the security commands. `SecurityData` is what they hand on:
`adminSecurityReceive()` gives its callback the buffer of zeroes whatever the status is
(`NVMeMi.cpp:1134, 1159-1164`), so its data are "unfilled" unless the drive has sent
some. `OtherDriveFails` is a command of another
drive that fails on the same thread. Without an endpoint, all but the
security commands are answered at once; the too long receive is always refused
inside the call. The daemon itself makes none of the calls that `NVMeMi` leaves
out; the interface has them.

### DriveManager

Each action is a handler of the main loop, or a change on D-Bus. `signals` is the
connection's queue, `timer` what the pending wait on `filterTimer` is for, and `due` a
handler that has left the timer and that `cancel()` no longer reaches. Arming the
timer for one signal takes back the wait of another, and the handler of removals
cancels it (`Receive`). A `getObjects` instance is a record of the calls it still waits
for, each with its retries left, and of what it has collected; `Deliver` is the
release of the last reference to it, in whose destructor the callback runs. An
instance that waits to try a call again keeps the call, and answers come in the
order of the calls (`IsNext`). An object in the mapper's answer that has no owner ends
the loop over them (`MCTPDiscovery.hpp:158-161`), so that those behind it are not asked
for; `Listed` lets this happen where the mapper may fail.

`Carried(field, setters, i)` is the value of a loop variable of `handleEmEndpoints()` after
object `i`: that of the last object up to it that has set it. `Updates` are the
objects that get past the `continue` statements, `Hits` those whose bus, carried
along or not, is the drive's. The endpoints' own properties (EID, message types,
address, bus) are there once their interface is; an interface that could not be
had is missing as a whole. `MCInventory` and `MCBaseboard` give the inventory.

`DriveRegistry` hides the collections: drives are added with an address, and all
that exist are made available together.

## What is checked

Every property stands in its module under a comment that states it.

| Run | Shows | Distinct states |
| --- | --- | --- |
| `worker` | lock discipline, nothing left at exit, refinement of `TaskExecutor`; the one window in which a notification is lost; a wake-up runs the backlog, a stop request ends a sleeping thread; three posters and the destructor | 1868 |
| `device_status` | associations, health and indicators under any order of writers; Critical is kept while the warnings do not change | 259 thousand |
| `device_polling` | the inductive invariant and its parts, with every failure and mishap; a poll cycle never becomes two | 2.2 million |
| `device_live` | without mishaps the drive object refines `EraseOperation`, and no health poll is begun during one; an operation shown in progress ends; an injected fault reaches the indicators | 92 thousand |
| `drive_figures` | the percentage and the speeds, with absent, zero and too small estimates, Identify and port information at any time, and restarts | 58 thousand |
| `commands` | three calls of any kind: types, timeouts and `errno`; each is answered once, in order, truly, and in the end | 343 thousand |
| `manager` | refinement of `DriveRegistry`; what is collected is used, drives are started, the daemon comes to rest; the form factor of a drive is its own bus's though a second object has no bus; calls that fail for good, restarts | 459 thousand |

The other five runs each check one statement of a comment or an interface
description that the code does not keep; `PROJECT.json` quotes them as findings:

| Run | What happens |
| --- | --- |
| `worker_lost_wakeup` | a notification between `io.run()` and `cv.wait()` is lost, and the task waits for another |
| `device_absent_for_good` | a failed scan arms no timer, so `pollDrive()` never re-initialises an absent drive |
| `device_double_erase` | a second `erase()` before the reply to the first makes the drive object forget the operation |
| `figures_nodmmas` | `setNodmmas()` masks bit 31 of a `uint8_t`: the flag is never set, and the estimates for it are never used |
| `manager_wrong_chassis` | a drive whose inventory object names no chassis gets that of an object before it |

More that the models show or take over from the code, without a run of its own:

* Worker: the notification of `~Worker` is lost if the thread is awake, since `workerStop`
  is tested only after a wake-up, and `join()` then does not return
  (`StopsMissedAwake`). The destructor is not reached today: `driveMap` keeps every
  drive. A comment promises a Worker for each root bus (`NVMeMi.hpp:100-105`); the code
  makes one for all (`NVMeMi.cpp:39-49`).
* Commands: a log page that the drive refuses is answered twice, by an error and by
  a success, and a reservation or sanitize log that cannot be read by a success
  (`NVMeMi.cpp:836-912`); a security receive hands on a buffer of zeroes when it fails, and
  when the drive refuses it, then as a success unless an older `errno` is left
  (`NVMeMi.cpp:1134, 1159-1164`). `AnsweredOnce` and `SuccessIsReal` name these exceptions. For
  a drive object the second answer is a SMART log without warnings, which clears
  the indicators. Security commands report the `errno` of an earlier command, of any
  drive, even when they succeed; `ErrnoIsOwn` names that exception. Firmware commit
  blocks the main loop, and talks to the drive beside the Worker, without `mctpMtx`.
* Drive: several poll cycles may run at once, one more for each signal of Entity
  Manager, each sanitize operation whose end is found while the timer's handler is
  queued, and each refused SMART log; `CyclesBegun` says that there are no other
  causes. They merge when they wait for the timer. `updateSanitizeStatus()` leaves `Progress::progress` alone, so a second operation
  stands at 100 per cent until its first log is read. `retry` is reset only by
  giving up, so that the Identify retries of one initialisation may have been used
  up by earlier ones. An estimate of zero divides by zero; where that does not
  trap, 99 per cent is shown.
* Status: `markFunctional(true)` sets OK while SMART warnings and their indicators
  persist, and the next log restores Warning only if it differs from the last. A
  change of the warnings of a failed drive replaces Critical by Warning;
  `CriticalKept` names that exception.
* Manager: an endpoint whose signal is followed within a second by one of Entity
  Manager, or by a removal, gets its drive only with a later signal. The mapper's
  errors are not retried. A drive made from partial data keeps its unknown bus or
  empty address. Removed endpoints keep their drive objects (a Todo in the code),
  and one that comes back with the same EID is taken for the old one.

### Bounds, and why they are enough

* `MaxPending` (2 or 3): `erase()`, Entity Manager and the timer start something
  new only while fewer commands and replies are in flight. Two is what one poll
  cycle needs (health status and SMART log together); three lets a scan or a
  sanitize command overlap it, which is where the order of replies matters. The
  callbacks themselves are not bounded. The proofs hold for any bound.
* Two handles: a rescan may give the old one or another. Symmetric, since no
  action tells handles apart.
* One method of `erase()`: the three take the same path. The list of methods
  the drive supports is empty until Identify succeeds.
* Two fault flags, one of which the drive itself may report, are enough for the
  status: no two bits of the warning byte affect each other.
* Three posters with one task each: a poster is a drive that issues its next
  command from the last one's callback. Two would already interleave in `post()`.
* `drive_figures`: a word of 12 bits (`UintMax` 4095), which the product of 100 and the
  seconds outgrows within the `MaxPolls` 11 logs of one operation. Estimates are
  absent, zero, 12 s, which is too small, and 60 s, which is not reached before the
  product wraps; 30 s replace an absent one. Two methods with estimates of their
  own tell one operation's figures from those of another. `MCLinks` has known and
  unknown speeds, links that are down and that lack lanes.
* `commands`: of three calls one may run while another waits and a third blocks the
  main loop, and two transfers follow one another. One `errno` beside `EINVAL` is enough
  to tell whose it is. `MCRequests` has one request of each group that the code
  treats alike.
* `manager`: one endpoint, since the loops treat drives one by one, and that drives
  are made and started together is proved for any set of endpoints; two collections
  at once, which is what a signal during the first one needs; one retry in place of
  five, for a call that succeeds when retried and one that fails for good; D-Bus
  changes only while no signal waits, the announcements of drives included.
  The inventory of `manager` has two objects, and the second has no bus: the first one's
  is still in the variable when its turn comes, which is what `FormOwn` is about. That
  the first one's chassis is carried on as well is `manager_wrong_chassis`, and both are
  proved for any inventory (`FormsAreOwn`, `ChassesAreOwn`).
* The sets `Failing`, `Functional`, `Readings` and `Mishaps` say what may happen
  in a run. `Mishaps` are overlapping `erase()` calls, sanitize commands whose reply
  is lost, and restarts; the runs without them say what they break.

Deadlock is checked in all runs but the Worker's, which may stop: the thread sleeps
when nobody posts.

### Fairness

`Worker!FairSpec`: the scheduler runs each thread that can run and the mutex is
granted in the end. Nobody has to post, and `cv.wait` need not wake spuriously.

`NVMeDevice!FairSpec`: the main loop runs its callbacks, the timer expires, the
drive ends its sanitize operation, and the Worker runs its jobs. The last is more
than the Worker promises by itself: a job whose notification is lost is run with
the next wake-up (`WakeRunsBacklog`), which another drive's poll gives. With a
single drive no other may come, and then everything waits; that is the run
`worker_lost_wakeup`. `device_live` says what holds besides. `EraseSettles`
further assumes that Entity Manager falls silent (`BusQuiet`): each of its signals
starts the drive over.

In `device_live` no SMART log is refused, as a drive that never gives one shows no
fault, and no scan and no read of the sanitize log fails. A scan that
fails while Entity Manager is silent leaves the drive absent, and its operation
in progress on D-Bus, for good, by the same defect as `device_absent_for_good`. A
log that is never readable tells of no end.

`MiCommands!FairSpec`: both threads run, and an exchange ends, by its timeout if not
otherwise. That the thread wakes up is the matter of `Worker`.

`DriveManager!FairSpec`: the main loop runs what is queued, signals pause for the
second that `filterTimer` takes, and each call on D-Bus is answered, if only by its
timeout. `Answered(g)` is `WF_vars(Answer(g))` in a form that TLC checks faster: an
answer is possible while the instance lives, and each one changes it. `TimerExpires` needs a free getter, a bound only, and older collections end.
`Settles` says of itself that nothing more happens on D-Bus and that the process
lives (`Calm`).

## What is proved

TLAPS checks each proof to the last leaf, from the assumptions on the constants
alone (`ThreadsDistinct`, `StatusConstants`, `CommandConstants`, `DeviceConstants`,
`CallConstants`, `FigureConstants`, `ManagerConstants`, which TLC evaluates in the runs).

* `WorkerInvariant`, `NothingLeftAtExit`: the Worker's `IInv` is inductive. That the
  queue is empty at exit is not inductive by itself: it needs that a thread
  between the locked test of `workerStop` and its notification excludes a worker
  that is leaving its loop (`StopDiscipline`), and that follows from who holds the
  mutex (`LockDiscipline`).
* `WorkerImplementsExecutor`: from that invariant, each step is a step of
  `TaskExecutor` or none.
* `LossesInWindow`: a task is left behind a sleeping thread only if it is posted while the
  thread is between `io.run()` and the mutex. This bounds the finding of
  `worker_lost_wakeup`; that such a task is run after the next wake-up is
  `WakeRunsBacklog`, which TLC checks. `StopsMissedAwake` is the same for the notification
  of the destructor, and is there without a run of its own.
* `StatusInvariant`: `StatusInv` is inductive. The first SMART log always shows,
  since no reading is 0xff. Its parts are `AssociationsAlwaysAgree`,
  `HealthAlwaysJustified` and `FaultsAlwaysCurrent`; `CriticalStays` is the action property.
* `DeviceTypes`: types, and the bound of the retry counter.
* `DeviceCriticalStays`: the same in the drive object, where handlers of all kinds come
  in between. Each of its steps is a step of `DriveStatus` or leaves the status alone;
  with the types, the values of the replies are ones that `DriveStatus` expects.
* `DeviceInvariant`, and from it `PollingGoesOn`, `ControllerCurrent`,
  `CompletedIsTrue`, `CompletedShownFull`, `SetBeforeUse` and `PresenceIsBacked`: the
  drive object's `IInv` is inductive, for any number of commands in flight and all
  mishaps. Two of its parts are there for the induction:
  `LastScanCurrent` (of the replies that wait, the last one of a scan names the open
  handle) gives `CtrlCurrent` when that reply is handled, and `StaleLogOvertaken` (a
  log that the drive has outrun has the newer command's reply behind it) gives
  `CompletedTruthful`, for operations that run and for those that have failed. A
  part of its own is `OperationShown`, that Operation and Progress agree
  (`InterfacesAgree`). `NVMeMiProofs` holds what they rest on: queues
  only grow at the end, a command in flight stays so until its callback runs.
* `OperationsTracked`, `NoPollWhileSanitizing`: on the assumption that `Mishaps = {}`, a
  second inductive invariant, `SanitizeInv`, says where each operation is known: by
  `inProgress`, or by one command or reply in flight.
* `EraseImplemented`, on the same assumption: each step is a step of `EraseOperation` or
  none. `SanitizeInv` does not say why an operation is concluded once and by its own
  outcome: two polls may each have read its log. `EraseInv` adds that logs are read
  before the next sanitize command is run (`LogsFirst`), and that a log that comes after
  the conclusion can only repeat it (`LateLogRepeats`).
* `CyclesDoNotSplit`: no step but the three that `CyclesBegun` names makes more poll
  cycles. Each entry of a queue counts for one cycle or none (`Link`), and lemmas say
  what a queue's count gains and loses at either end (`LinksAppend`, `LinksTail`).
* `AbsentRetried`: if no scan fails, an absent drive that has an endpoint always has its
  timer armed or a command under way that leads to it. This bounds the finding of
  `device_absent_for_good`: a failed scan is its only cause. The invariant, `Retried`,
  adds that the replies of scans that wait are good ones.
* `ManagerInvariant`, `FormsAreOwn`: a drive's form factor comes from its own bus although
  the loop carries `bus` and `form` along, if Entity Manager's calls do not fail. The
  strengthening is `CollectedWhole`: of each object, every interface is collected or
  still asked for, so that at the end each object has all of them, and sets bus
  and form anew or ends its turn.
* `StartsPending`: a drive that is not started has a collection of the inventory under
  way, whichever calls fail: this is what `DrivesStart` needs of the state, for any
  number of endpoints and collections.
* `ChassesAreOwn`: the same as for form factors holds for the chassis where no object
  without one comes after an object that has one (`BaseboardFirst`). This bounds the
  finding of `manager_wrong_chassis`: only such an object, or a call that fails, lets a
  chassis be carried over.
* `ManagerImplementsRegistry`: each step is a step of `DriveRegistry` or none.
* `FiguresInvariant`, and from it `StaysBelowFull`, `NothingReadUnset` and `LinkShownRight`,
  for words of any width, any estimates and any link. `PercentIsOwn` and
  `PercentNeverFalls` rest on `TimeCounted`: the seconds are `pollInterval` for each log of
  this operation, and the percentage is `Percent` of them; then on lemmas about integer
  division.
* `NodmmasKeptOtherwise`: the finding of `figures_nodmmas` concerns only drives that report
  the value 2 in NODMMAS (`NoneModifies`).
* `CommandsInvariant`, and from it `ErrnoAlwaysOwn`, `TimeoutAlwaysRestored`,
  `AlwaysAnsweredOnce`, `SuccessAlwaysReal` and `AlwaysInOrder`: for any number of calls,
  requests and errnos. `IInv` has three parts. `CallsInv` is inductive by itself: a call
  that waits has no outcome yet and waits at one place (`CallsPending`), so the outcome
  that its reply is judged by is never overwritten. `Stages` needs it, and says of
  each call that it waits or runs without a reply, or that all of its replies, the one
  that its outcome calls for or the two of a refused log page, are posted or given in
  their order. `Ordered` needs `CallsInv`, too: jobs, postings and answers follow the
  order of the calls, and no call whose reply is posted comes after one that waits.

Only model-checked: everything under fairness, which is out of the prover's reach, as
are `ENABLED` and induction over data. That is `WakeRunsBacklog`, `StopEndsSleeper`,
`EraseSettles`, `FaultIsShown`, `EveryCallAnswered`, `CollectedIsUsed`, `DrivesStart` and
`Settles`. Every invariant, action property and refinement that a passing run checks
is proved.

## What is not modelled

* `NVMeBasicIntf`, which `NVMeIntf.hpp` declares and nothing implements.
* `dbusutil.hpp`, Redfish events, asset strings and `drive.json`: pure output. The
  manager asks for the interfaces LocationCode and Location as well, and uses
  neither; they are left out with them.
* Races inside asio: `BOOST_ASIO_DISABLE_THREADS` removes its locks while two
  threads post (`meson.build:36`); each call is taken as atomic. `workerStop` is a
  plain `bool` that two threads access; a read gives the old or the new value,
  which the interleaving of `RequestStop` covers.
* `mctpMtx`: only closures of the one Worker take it, so it never waits.
* The error paths for a `post()` that throws: while a drive object lives it keeps
  its Worker, so `workerStop` is not set when it posts.
* What two exchanges at once do inside libnvme-mi.

## Plan

1. Done: the modules above and the proofs listed.
2. Dropped: a theorem that joins `Worker` and `NVMeDevice` by the queue of
   `TaskExecutor`. One callback may post two closures (`IssueBoth`), and the other drives'
   closures are not in `jobs`, so the mapping would need a queue that the drive object
   does not have, to say no more than that `jobs` is first in, first out.
3. Left: an instance of `manager` with two endpoints on two buses; with the liveness
   properties it is more than TLC does in some minutes.
