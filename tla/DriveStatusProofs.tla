------------------------- MODULE DriveStatusProofs -------------------------
(***************************************************************************)
(* Proofs about the status of a drive, for any set of warnings and of      *)
(* chassis: StatusInv is inductive.                                        *)
(***************************************************************************)
EXTENDS DriveStatus, TLAPS

LEMMA InitStatusInv == StatusInit => StatusInv
BY StatusConstants
   DEF StatusInit, StatusInv, StatusTypeOK, AssociationsAgree, HealthJustified,
       FaultsCurrent, Home, Unread

LEMMA NextStatusInv == StatusInv /\ [StatusNext]_statusVars => StatusInv'
<1> SUFFICES ASSUME StatusInv, [StatusNext]_statusVars PROVE StatusInv'
  OBVIOUS
<1> USE StatusConstants
    DEF StatusInv, StatusTypeOK, AssociationsAgree, HealthJustified,
        FaultsCurrent, Home, Unread
\* An answer to the health status poll changes the health only with the bit.
<1>1. ASSUME NEW functional \in BOOLEAN, MarkFunctional(functional)
      PROVE  StatusInv'
  BY <1>1 DEF MarkFunctional, MarkStatus
\* A SMART log that changes nothing leaves the indicators of the last one, and
\* the first one always changes something: no reading is Unread.
<1>2. ASSUME NEW reported \in SUBSET Warnings, ApplySmart(reported)
      PROVE  StatusInv'
  <2>1. reported \cup injected # Unread
    OBVIOUS
  <2> QED
    BY <1>2, <2>1 DEF ApplySmart, MarkStatus
<1>3. ASSUME NEW chassis \in Chassis, Relocate(chassis)
      PROVE  StatusInv'
  BY <1>3 DEF Relocate
<1>4. ASSUME NEW flag \in FaultFlags, NEW value \in BOOLEAN, SetFault(flag, value)
      PROVE  StatusInv'
  BY <1>4 DEF SetFault
<1>5. CASE StatusReset
  BY <1>5 DEF StatusReset
<1>6. CASE UNCHANGED statusVars
  BY <1>6 DEF statusVars
<1> QED
  BY <1>1, <1>2, <1>3, <1>4, <1>5, <1>6 DEF StatusNext

\* The types, the agreement of the associations, the absence of false alarms and
\* the truth of the fault indicators (NVMeDevice.cpp:142-161, 335-389, 587-661)
\* hold in every reachable state, in whatever order replies and calls come.
THEOREM StatusInvariant == StatusSpec => []StatusInv
<1>1. StatusInit => StatusInv
  BY InitStatusInv
<1>2. StatusInv /\ [StatusNext]_statusVars => StatusInv'
  BY NextStatusInv
<1> QED
  BY <1>1, <1>2, PTL DEF StatusSpec

\* Every association that D-Bus shows is the one the drive's health and place call
\* for (NVMeDevice.cpp:142-161, 335-389).
THEOREM AssociationsAlwaysAgree == StatusSpec => []AssociationsAgree
<1>1. StatusInv => AssociationsAgree
  BY DEF StatusInv
<1> QED
  BY <1>1, StatusInvariant, PTL

\* No health is shown without what the drive reported or a caller set
\* (NVMeDevice.cpp:335-389, 567-661).
THEOREM HealthAlwaysJustified == StatusSpec => []HealthJustified
<1>1. StatusInv => HealthJustified
  BY DEF StatusInv
<1> QED
  BY <1>1, StatusInvariant, PTL

\* The fault indicators are those of the last SMART log and of the callers
\* (NVMeDevice.cpp:587-661, NVMeDevice.hpp:144-168).
THEOREM FaultsAlwaysCurrent == StatusSpec => []FaultsCurrent
<1>1. StatusInv => FaultsCurrent
  BY DEF StatusInv
<1> QED
  BY <1>1, StatusInvariant, PTL

LEMMA StepKeepsCritical ==
  ASSUME StatusNext, health = "Critical", ~driveFunctional', smartWarning' = smartWarning
  PROVE  health' = "Critical"
<1>1. ASSUME NEW functional \in BOOLEAN, MarkFunctional(functional)
      PROVE  health' = "Critical"
  BY <1>1 DEF MarkFunctional, MarkStatus
<1>2. ASSUME NEW reported \in SUBSET Warnings, ApplySmart(reported)
      PROVE  health' = "Critical"
  BY <1>2 DEF ApplySmart
<1>3. ASSUME NEW chassis \in Chassis, Relocate(chassis)
      PROVE  health' = "Critical"
  BY <1>3 DEF Relocate
<1>4. ASSUME NEW flag \in FaultFlags, NEW value \in BOOLEAN, SetFault(flag, value)
      PROVE  health' = "Critical"
  BY <1>4 DEF SetFault
<1>5. ~StatusReset
  BY DEF StatusReset
<1> QED
  BY <1>1, <1>2, <1>3, <1>4, <1>5 DEF StatusNext

\* The failure of a drive that is shown stays shown while its SMART warnings do not
\* change (NVMeDevice.cpp:365-389, 626-656).
THEOREM CriticalStays == StatusSpec => CriticalKept
<1>1. [StatusNext]_statusVars =>
        [health = "Critical" /\ ~driveFunctional' /\ smartWarning' = smartWarning
         => health' = "Critical"]_statusVars
  BY StepKeepsCritical DEF statusVars
<1> QED
  BY <1>1, PTL DEF StatusSpec, CriticalKept
=============================================================================
