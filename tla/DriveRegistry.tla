--------------------------- MODULE DriveRegistry ---------------------------
(***************************************************************************)
(* What the drive manager promises: a drive object is made once for each   *)
(* endpoint, with an address that it keeps; the objects are only made      *)
(* available all together; and nothing but the end of the process takes    *)
(* one away.                                                               *)
(***************************************************************************)
CONSTANTS
  Endpoints,
  Addresses,   \* how a drive object can reach its endpoint
  NoDrive

VARIABLES
  address,     \* of each endpoint's drive object, or NoDrive
  available    \* the endpoints whose drive objects D-Bus shows

registryVars == <<address, available>>

Known == {e \in Endpoints : address[e] # NoDrive}

Init ==
  /\ address = [e \in Endpoints |-> NoDrive]
  /\ available = {}

\* Drive objects are added; none is changed.
Discover ==
  /\ \A e \in Endpoints :
       \/ address'[e] = address[e]
       \/ e \notin Known /\ address'[e] \in Addresses
  /\ DOMAIN address' = Endpoints
  /\ UNCHANGED available

\* All drive objects made so far are started, the ones that run already again.
StartAll ==
  /\ available' = Known
  /\ UNCHANGED address

Crash ==
  /\ address' = [e \in Endpoints |-> NoDrive]
  /\ available' = {}

Next == Discover \/ StartAll \/ Crash

Spec == Init /\ [][Next]_registryVars
=============================================================================
