---------------------------- MODULE DriveFigures ----------------------------
(***************************************************************************)
(* The numbers a drive object computes from what the drive reports: the    *)
(* percentage of a sanitize operation, from the drive's estimate for the   *)
(* method in use, and the speeds of the PCIe link.  When the commands are  *)
(* sent and which of them fail is in NVMeDevice; here they succeed, in the *)
(* order in which that module lets them.                                   *)
(*                                                                         *)
(* Words are sets of bit positions where bits are tested, numbers          *)
(* elsewhere.                                                              *)
(***************************************************************************)
EXTENDS Integers

CONSTANTS
  UintMax,             \* the largest uint32_t
  pollInterval,        \* seconds between two logs: 5
  driveSanitizeTime,   \* build option: seconds, if the drive gives no estimate
  Methods,             \* of erase()
  Drives,              \* what drives report: Identify's SANICAP and estimates
  Links,               \* what port information says
  MaxPolls,            \* bound: logs read during one operation
  Unset                \* a member that the constructor leaves alone

Estimates == [Methods \X BOOLEAN -> 0..UintMax]
Link == [sls : SUBSET (0..7), mlw : Nat, cls : Nat, nlw : Nat]

\* The current speed is one of the supported ones, and no lanes are made up.
Consistent(link) ==
  /\ link.cls # 0 => link.cls - 1 \in link.sls
  /\ link.nlw <= link.mlw

ASSUME FigureConstants ==
  /\ Methods \subseteq {"CryptoErase", "BlockErase", "Overwrite"}
  /\ UintMax \in Nat
  /\ pollInterval \in 1..UintMax
  /\ driveSanitizeTime \in 1..UintMax
  /\ Drives \subseteq [sanicap : SUBSET (0..31), estimates : Estimates]
  /\ \A link \in Links : link \in Link /\ Consistent(link)
  /\ MaxPolls \in Nat
  /\ Unset \notin Methods /\ Unset \notin Nat /\ Unset \notin BOOLEAN
  /\ Unset \notin Links

VARIABLES
  drive,            \* the drive's own constants
  saniCap,          \* SecureErase::sanitizeCapability
  nodmmas,          \* no-deallocate modifies media after sanitize
  eraseType,
  estimatedTime,    \* seconds since the operation was accepted
  inProgress,
  progress,         \* Progress::progress
  polls,            \* logs read of the operation, for the properties
  link,             \* port information last read, for the properties
  maxSpeed, currentSpeed

sanitizeVars == <<saniCap, nodmmas, eraseType, estimatedTime, inProgress, progress, polls>>
linkVars     == <<link, maxSpeed, currentSpeed>>
vars         == <<drive, sanitizeVars, linkVars>>

Init ==
  /\ drive \in Drives
  /\ saniCap = {}
  /\ nodmmas = Unset /\ eraseType = Unset /\ estimatedTime = Unset
  /\ inProgress = FALSE
  /\ progress = 0
  /\ polls = 0
  /\ link = Unset
  /\ maxSpeed = 0 /\ currentSpeed = 0

\* The process starts over, the drive does not.
Reset ==
  /\ saniCap' = {}
  /\ nodmmas' = Unset /\ eraseType' = Unset /\ estimatedTime' = Unset
  /\ inProgress' = FALSE
  /\ progress' = 0
  /\ polls' = 0
  /\ link' = Unset
  /\ maxSpeed' = 0 /\ currentSpeed' = 0
  /\ UNCHANGED drive

-----------------------------------------------------------------------------
(* Identify.                                                               *)

\* setNodmmas() takes SANICAP as a uint8_t, and masks bit 31.
Byte(word) == word \cap 0..7
SetNodmmas(word) == nodmmas' = (31 \in Byte(word))

\* The methods the drive supports, each by its bit.
SanicapBit == [CryptoErase |-> 0, BlockErase |-> 1, Overwrite |-> 2]

Supported == {method \in Methods : SanicapBit[method] \in drive.sanicap}

\* Mutant: NODMMAS is not looked at.
IdentifyMethods ==
  /\ saniCap' = Supported
  /\ UNCHANGED <<drive, linkVars, nodmmas, eraseType, estimatedTime, inProgress, progress, polls>>

\* Mutant: it starts the time over.
IdentifyStartsOver ==
  /\ saniCap' = Supported
  /\ SetNodmmas(drive.sanicap)
  /\ estimatedTime' = 0
  /\ UNCHANGED <<drive, linkVars, eraseType, inProgress, progress, polls>>

\* At each initialize().
Identify ==
  /\ saniCap' = Supported
  /\ SetNodmmas(drive.sanicap)
  /\ UNCHANGED <<drive, linkVars, eraseType, estimatedTime, inProgress, progress, polls>>

-----------------------------------------------------------------------------
(* Sanitize.                                                               *)

\* Mutant: the time of the last operation counts on.
SanitizeGoesOn(method) ==
  /\ ~inProgress
  /\ method \in saniCap
  /\ estimatedTime' = IF estimatedTime = Unset THEN 0 ELSE estimatedTime
  /\ inProgress' = TRUE
  /\ eraseType' = method
  /\ polls' = 0
  /\ UNCHANGED <<drive, linkVars, saniCap, nodmmas, progress>>

\* erase() and, when the drive has accepted it, updateSanitizeStatus().
Sanitize(method) ==
  /\ ~inProgress
  /\ method \in saniCap
  /\ estimatedTime' = 0
  /\ inProgress' = TRUE
  /\ eraseType' = method
  /\ polls' = 0
  /\ UNCHANGED <<drive, linkVars, saniCap, nodmmas, progress>>

\* The estimate the log gives for the method in use.
Estimate == drive.estimates[<<eraseType, nodmmas>>]

\* A drive may report none.
EndTime == IF Estimate = UintMax THEN driveSanitizeTime ELSE Estimate

Wrapped(n) == n % (UintMax + 1)

\* Mutant: an estimate that is too low is not made up for.
PercentUncapped(time, endTime) ==
  IF endTime = 0 THEN 99 ELSE Wrapped(time * 100) \div endTime

\* Mutant: the comparison leaves out the end.
PercentTooLate(time, endTime) ==
  IF time > endTime \/ endTime = 0 THEN 99 ELSE Wrapped(time * 100) \div endTime

\* updatePercent() after `time` seconds.
Percent(time, endTime) ==
  IF time >= endTime THEN 99 ELSE Wrapped(time * 100) \div endTime

\* A log shows that the operation goes on.  Where a division by zero gives a
\* number, it is not used.
LogBusy ==
  /\ inProgress
  /\ polls < MaxPolls
  /\ estimatedTime' = Wrapped(estimatedTime + pollInterval)
  /\ progress' = Percent(estimatedTime', EndTime)
  /\ polls' = polls + 1
  /\ UNCHANGED <<drive, linkVars, saniCap, nodmmas, eraseType, inProgress>>

\* Where it traps, the process dies of an estimate of zero, which is looked at
\* only after the division.
DivisionTraps ==
  /\ inProgress
  /\ EndTime = 0
  /\ Reset

\* A log shows the end: 100 for success and 0 for failure.
LogDone ==
  /\ inProgress
  /\ inProgress' = FALSE
  /\ progress' \in {0, 100}
  /\ UNCHANGED <<drive, linkVars, saniCap, nodmmas, eraseType, estimatedTime, polls>>

-----------------------------------------------------------------------------
(* Port information.                                                       *)

\* 2.5, 5, 8, 16 and 32 Gb/s, by the bit of the supported speeds vector.
Rate == [i \in 0..4 |-> CASE i = 0 -> 2 [] i = 1 -> 4 [] i = 2 -> 8 [] i = 3 -> 16 [] i = 4 -> 32]

Known(sls) == sls \cap 0..4

\* The fastest one, or 1 for none that is known.
getMaxLinkSpeed(sls, lanes) ==
  (IF Known(sls) = {} THEN 1
   ELSE Rate[CHOOSE i \in Known(sls) : \A j \in Known(sls) : j <= i]) * lanes

\* Mutant: the current speed is taken as a bit position.
getCurrLinkSpeedBit(cls, lanes) ==
  IF cls = 0 THEN 0 ELSE (IF cls \in 0..4 THEN Rate[cls] ELSE 1) * lanes

\* The current speed counts from 1; 0 is a link that is down.
getCurrLinkSpeed(cls, lanes) ==
  IF cls = 0 THEN 0 ELSE (IF cls - 1 \in 0..4 THEN Rate[cls - 1] ELSE 1) * lanes

PortInformation ==
  /\ link' \in Links
  /\ maxSpeed' = getMaxLinkSpeed(link'.sls, link'.mlw)
  /\ currentSpeed' = getCurrLinkSpeed(link'.cls, link'.nlw)
  /\ UNCHANGED <<drive, sanitizeVars>>

Next ==
  \/ Identify
  \/ \E method \in Methods : Sanitize(method)
  \/ LogBusy
  \/ DivisionTraps
  \/ LogDone
  \/ PortInformation
  \/ Reset

Spec == Init /\ [][Next]_vars

-----------------------------------------------------------------------------
TypeOK ==
  /\ drive \in Drives
  /\ saniCap \in {{}, Supported}
  /\ nodmmas \in BOOLEAN \cup {Unset}
  /\ eraseType \in Methods \cup {Unset}
  /\ estimatedTime \in 0..UintMax \cup {Unset}
  /\ inProgress \in BOOLEAN
  /\ progress \in 0..100
  /\ polls \in 0..MaxPolls
  /\ link \in Links \cup {Unset}
  /\ maxSpeed \in Nat /\ currentSpeed \in Nat

\* nodmmas, eraseType and estimatedTime are not set by the constructor
\* (NVMeDevice.cpp:33-43), and updatePercent() reads them only after Identify and
\* erase() have set them: no operation is in progress without.
SetBeforeRead ==
  /\ saniCap # {} => nodmmas # Unset
  /\ inProgress => nodmmas # Unset /\ eraseType \in saniCap /\ estimatedTime # Unset

\* An operation that goes on is shown below 100 per cent once its log has been
\* read, however wrong the estimate, also where the 32-bit product wraps
\* (NVMeDevice.cpp:441-461).
BelowFull == inProgress /\ polls > 0 => progress <= 99

\* The percentage of an operation does not fall from one log to the next, as long
\* as 100 times the seconds fit in the word (NVMeDevice.cpp:441-461, 667): neither
\* an earlier operation nor a new Identify changes the scale.
NeverFalls ==
  [][inProgress /\ inProgress' /\ polls > 0 /\ polls' = polls + 1
     /\ 100 * pollInterval * polls' <= UintMax
     => progress' >= progress]_vars

\* The percentage is that of the time since this operation was accepted, over
\* the estimate of its own method (NVMeDevice.cpp:441-461, 524-560).
PercentOfOwnTime ==
  inProgress /\ polls > 0 /\ 100 * pollInterval * polls <= UintMax =>
    LET time == pollInterval * polls IN
    IF time >= EndTime THEN progress = 99
    ELSE progress * EndTime <= 100 * time /\ 100 * time < (progress + 1) * EndTime

\* The link is not shown faster than it can be, and a link that runs at its best
\* is shown at its maximum (NVMeDevice.cpp:181-216).
SpeedsAgree ==
  link # Unset =>
    /\ currentSpeed <= maxSpeed
    /\ link.cls \in 1..5 /\ (\A i \in Known(link.sls) : i < link.cls) /\ link.nlw = link.mlw
         => currentSpeed = maxSpeed

\* Why the percentage is right: the seconds are counted log by log, and the estimate
\* stays the one for nodmmas = FALSE, which is all that setNodmmas() gives.
TimeCounted ==
  /\ nodmmas # TRUE
  /\ inProgress /\ 100 * pollInterval * polls <= UintMax =>
       /\ estimatedTime = pollInterval * polls
       /\ polls > 0 => progress = Percent(pollInterval * polls, EndTime)

\* The inductive invariant.
IInv == TypeOK /\ SetBeforeRead /\ BelowFull /\ SpeedsAgree /\ TimeCounted

\* "Following is the value 0x10 of NODMMAS. Media is additionally modified by
\* the controller after sanitize operation" (NVMeDevice.hpp:108-111): the flag
\* follows bits 31:30 of SANICAP.
NodmmasKept ==
  nodmmas # Unset => (nodmmas <=> 31 \in drive.sanicap /\ 30 \notin drive.sanicap)

\* It does for drives that do not report the value 2, which is all that is lost.
NoneModifies == \A d \in Drives : 31 \in d.sanicap => 30 \in d.sanicap
=============================================================================
