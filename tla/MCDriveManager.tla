--------------------------- MODULE MCDriveManager ---------------------------
EXTENDS DriveManager

MCBusOf == [e \in Endpoints |-> 2]

\* The second object has no bus: that of the first, on the drive's, is still in the
\* variable when its turn comes.
MCInventory == <<[bus |-> 2, form |-> "U2", chassis |-> "backplane"],
                 [bus |-> None, form |-> "M2_2280", chassis |-> None]>>

\* The second object names no chassis: its drive is on the baseboard.
MCBaseboard == <<[bus |-> 1, form |-> "U2", chassis |-> "backplane"],
                 [bus |-> 2, form |-> "M2_2280", chassis |-> None]>>
=============================================================================
