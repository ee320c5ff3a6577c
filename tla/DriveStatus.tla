---------------------------- MODULE DriveStatus ----------------------------
(***************************************************************************)
(* What a drive object shows of the drive's health: the Health state, the  *)
(* associations that raise it to the chassis, and the fault indicators.    *)
(* They are written by two replies (health status poll and SMART log) and  *)
(* by D-Bus callers, in any order.  NVMeDevice says when those come.       *)
(*                                                                         *)
(* A SMART critical warning byte is the set of its bits, and the one       *)
(* association to the chassis is its far end.                              *)
(***************************************************************************)
CONSTANTS
  Warnings,             \* the SMART critical warning bits
  FaultFlags,           \* those with an indicator that D-Bus can also set
  Chassis,              \* chassis that Entity Manager may name
  DriveLocation         \* the build-time default chassis

NoAssociation == ""

\* 0xff, which no drive reports: two of its bits are reserved.
Unread == Warnings \cup {"reserved"}

ASSUME StatusConstants ==
  /\ FaultFlags \subseteq Warnings
  /\ "reserved" \notin Warnings
  /\ NoAssociation \notin Chassis

VARIABLES
  driveFunctional,      \* last health status reported
  health,               \* Health::health
  associations,         \* the health and the chassis association
  driveAssociation,     \* chassis named by Entity Manager, if any
  smartWarning,         \* last warnings seen, those set from D-Bus included
  injected,             \* backupDeviceErr, temperatureErr, ...: set from D-Bus
  faults                \* backupDeviceFault, ...: the indicators that are on

statusVars == <<driveFunctional, health, associations, driveAssociation,
                smartWarning, injected, faults>>

Home == IF driveAssociation = NoAssociation THEN DriveLocation
                                            ELSE driveAssociation

\* The constructor: markFunctional(true) on a drive that was not functional.
StatusInit ==
  /\ driveFunctional = TRUE
  /\ health = "OK"
  /\ associations = [health |-> "OK", chassis |-> DriveLocation]
  /\ driveAssociation = NoAssociation
  /\ smartWarning = Unread
  /\ injected = {}
  /\ faults = {}

-----------------------------------------------------------------------------
\* Mutant: a health change puts the drive back in the default chassis.
MarkStatusAtHome(h) ==
  /\ health' = h
  /\ associations' = [health |-> h, chassis |-> DriveLocation]

\* markStatus(): an association "health" exists unless h is "OK".
MarkStatus(h) ==
  /\ health' = h
  /\ associations' = [health |-> h, chassis |-> Home]

\* Mutant: the recovery of a drive is not marked.
MarkFunctionalFailuresOnly(functional) ==
  /\ IF driveFunctional /\ ~functional
       THEN MarkStatus("Critical")
       ELSE UNCHANGED <<health, associations>>
  /\ driveFunctional' = functional
  /\ UNCHANGED <<driveAssociation, smartWarning, injected, faults>>

\* markFunctional(), with the status bit of a health status poll.
MarkFunctional(functional) ==
  /\ IF driveFunctional # functional
       THEN MarkStatus(IF functional THEN "OK" ELSE "Critical")
       ELSE UNCHANGED <<health, associations>>
  /\ driveFunctional' = functional
  /\ UNCHANGED <<driveAssociation, smartWarning, injected, faults>>

\* Mutant: the change is looked for in the drive's own bits.
ApplySmartRaw(reported) ==
  LET cw == reported \cup injected IN
  /\ IF reported # smartWarning
       THEN /\ faults' = cw \cap FaultFlags
            /\ MarkStatus(IF cw # {} THEN "Warning" ELSE "OK")
       ELSE UNCHANGED <<faults, health, associations>>
  /\ smartWarning' = cw
  /\ UNCHANGED <<driveFunctional, driveAssociation, injected>>

\* Mutant: every log is shown.
ApplySmartEach(reported) ==
  LET cw == reported \cup injected IN
  /\ faults' = cw \cap FaultFlags
  /\ MarkStatus(IF cw # {} THEN "Warning" ELSE "OK")
  /\ smartWarning' = cw
  /\ UNCHANGED <<driveFunctional, driveAssociation, injected>>

\* The SMART log: only a change of the warnings is shown.
ApplySmart(reported) ==
  LET cw == reported \cup injected IN
  /\ IF cw # smartWarning
       THEN /\ faults' = cw \cap FaultFlags
            /\ MarkStatus(IF cw # {} THEN "Warning" ELSE "OK")
       ELSE UNCHANGED <<faults, health, associations>>
  /\ smartWarning' = cw
  /\ UNCHANGED <<driveFunctional, driveAssociation, injected>>

\* handleEmEndpoints() on a drive whose bus matches: the new chassis, and
\* updateDriveAssociations(), which keeps the health association.
Relocate(chassis) ==
  /\ driveAssociation' = chassis
  /\ associations' = [health |-> health, chassis |-> chassis]
  /\ UNCHANGED <<driveFunctional, health, smartWarning, injected, faults>>

\* backupDeviceFault(value), ...: the setters of the D-Bus properties keep the
\* value for the next SMART log and change no indicator.
SetFault(flag, value) ==
  /\ injected' = IF value THEN injected \cup {flag} ELSE injected \ {flag}
  /\ UNCHANGED <<driveFunctional, health, associations, driveAssociation,
                 smartWarning, faults>>

\* The process is restarted and constructs the object anew.
StatusReset ==
  /\ driveFunctional' = TRUE
  /\ health' = "OK"
  /\ associations' = [health |-> "OK", chassis |-> DriveLocation]
  /\ driveAssociation' = NoAssociation
  /\ smartWarning' = Unread
  /\ injected' = {}
  /\ faults' = {}

StatusNext ==
  \/ \E functional \in BOOLEAN : MarkFunctional(functional)
  \/ \E reported \in SUBSET Warnings : ApplySmart(reported)
  \/ \E chassis \in Chassis : Relocate(chassis)
  \/ \E flag \in FaultFlags, value \in BOOLEAN : SetFault(flag, value)
  \/ StatusReset

StatusSpec == StatusInit /\ [][StatusNext]_statusVars

-----------------------------------------------------------------------------
StatusTypeOK ==
  /\ driveFunctional \in BOOLEAN
  /\ health \in {"OK", "Warning", "Critical"}
  /\ associations \in [health : {"OK", "Warning", "Critical"},
                       chassis : Chassis \cup {DriveLocation}]
  /\ driveAssociation \in Chassis \cup {NoAssociation}
  /\ smartWarning \in SUBSET Unread
  /\ injected \in SUBSET FaultFlags
  /\ faults \in SUBSET FaultFlags

\* The three places that rebuild the associations (markStatus and
\* updateDriveAssociations, NVMeDevice.cpp:142-161, 335-363) leave the same
\* ones: those of the present health and of the present chassis.
AssociationsAgree ==
  associations = [health |-> health, chassis |-> Home]

\* No false alarm, in any order of replies: "Critical" is shown only while the
\* last health status says failed, "Warning" only while the last SMART log or
\* a D-Bus caller warns (NVMeDevice.cpp:365-389, 626-656).
HealthJustified ==
  /\ health = "Critical" => ~driveFunctional
  /\ health = "Warning" => smartWarning \notin {{}, Unread}

\* Showing changes only (NVMeDevice.cpp:626) loses none: after the first SMART
\* log the indicators are those of the last one.
FaultsCurrent == smartWarning # Unread => faults = smartWarning \cap FaultFlags

StatusInv ==
  StatusTypeOK /\ AssociationsAgree /\ HealthJustified /\ FaultsCurrent

\* A failed drive that is shown as Critical stays so through unchanged SMART logs,
\* relocations and D-Bus writes: until it recovers or its warnings change, which
\* then hides the failure (NVMeDevice.cpp:365-389, 626-656).
CriticalKept ==
  [][health = "Critical" /\ ~driveFunctional' /\ smartWarning' = smartWarning
     => health' = "Critical"]_statusVars
=============================================================================
