---------------------------- MODULE DriveManager ----------------------------
(***************************************************************************)
(* The drive manager: how the daemon learns of MCTP endpoints and of       *)
(* Entity Manager's inventory, makes the drive objects and starts them     *)
(* (NVMeDeviceMain.cpp, MCTPDiscovery.hpp).                                *)
(*                                                                         *)
(* Every action is a handler of the main loop, or a change on D-Bus.  What *)
(* a drive object does after initialize() is in NVMeDevice.                *)
(***************************************************************************)
EXTENDS Integers, Sequences, FiniteSets

CONSTANTS
  Endpoints,       \* MCTP endpoints, by the EID they announce
  NvmeEndpoints,   \* the ones that support NVMe-MI
  Buses,
  BusOf,           \* the I2C bus of each endpoint
  Forms, Chassis,  \* form factors, and far ends of associations "containing"
  Inventory,       \* Entity Manager's NVMe objects, in the order of their paths
  Getters,         \* bound: getObjects instances that are alive at once
  Failing,         \* the services whose calls may fail, and the "daemon"
  MaxRetries,      \* of a GetAll call: 5
  MaxSignals,      \* bound: nothing changes on D-Bus while so many signals wait
  UnknownBus,      \* uint32_t(-1), the bus of a drive that has none
  None             \* no value: also for uint64_t(-1), which is no drive's bus

Objects   == 1..Len(Inventory)
Item      == [bus : Buses \cup {None}, form : Forms \cup {None}, chassis : Chassis \cup {None}]
Services  == {"endpoints", "inventory"}
Callbacks == {"createDrives", "collectInventory"}
Signals   == {"endpoint added", "endpoint removed", "inventory added"}

\* The interfaces each kind of object is asked for, as far as they are used.
Interfaces(want) ==
  CASE want = "endpoints" -> {"UnixSocket", "I2CDevice", "Endpoint"}
    [] want = "inventory" -> {"Association", "I2CDevice", "Drive", "NVMe"}

\* They come in the order of their names.
Position == [Association |-> 1, UnixSocket |-> 2, I2CDevice |-> 3,
             Drive |-> 4, NVMe |-> 5, Endpoint |-> 6]

Call == [obj : Endpoints \cup Objects, iface : DOMAIN Position, left : 0..MaxRetries]
Data == (Endpoints \cup Objects) \X DOMAIN Position

Getter == [want : Services, phase : {"mapper", "calls"}, calls : SUBSET Call, data : SUBSET Data]

\* How a drive object reaches its endpoint.
Address == [bus : Buses \cup {UnknownBus}, socket : BOOLEAN]

Drive == [bus : Buses \cup {UnknownBus}, socket : BOOLEAN,
          form : Forms \cup {None}, chassis : Chassis \cup {None}, started : BOOLEAN]

ASSUME ManagerConstants ==
  /\ IsFiniteSet(Endpoints)
  /\ NvmeEndpoints \subseteq Endpoints
  /\ BusOf \in [Endpoints -> Buses]
  /\ Inventory \in Seq(Item)
  /\ MaxRetries \in Nat
  /\ UnknownBus \notin Buses \cup {None}
  /\ None \notin Buses /\ None \notin Forms /\ None \notin Chassis
  /\ None \notin Getter /\ None \notin Drive /\ None \notin Address

VARIABLES
  exported,     \* endpoints on D-Bus
  configured,   \* inventory objects on D-Bus
  signals,      \* signals in the connection's queue
  timer,        \* what the wait on filterTimer is for, or "none"
  due,          \* the call the main loop's queue holds, out of reach of cancel()
  getters,      \* the getObjects instances
  driveMap

worldVars == <<exported, configured>>
vars      == <<worldVars, signals, timer, due, getters, driveMap>>

Known == {e \in Endpoints : driveMap[e] # None}

\* The daemon starts at any time: main() posts the first createDrives().
Init ==
  /\ exported \in SUBSET Endpoints
  /\ configured \in SUBSET Objects
  /\ signals = <<>>
  /\ timer = "none"
  /\ due = "createDrives"
  /\ getters = [g \in Getters |-> None]
  /\ driveMap = [e \in Endpoints |-> None]

-----------------------------------------------------------------------------
(* Changes on D-Bus.                                                       *)

Room == Len(signals) < MaxSignals

EndpointAppears ==
  /\ Room
  /\ \E e \in Endpoints \ exported : exported' = exported \cup {e}
  /\ signals' = Append(signals, "endpoint added")
  /\ UNCHANGED <<configured, timer, due, getters, driveMap>>

EndpointLeaves ==
  /\ Room
  /\ \E e \in exported : exported' = exported \ {e}
  /\ signals' = Append(signals, "endpoint removed")
  /\ UNCHANGED <<configured, timer, due, getters, driveMap>>

InventoryAppears ==
  /\ Room
  /\ \E i \in Objects \ configured : configured' = configured \cup {i}
  /\ signals' = Append(signals, "inventory added")
  /\ UNCHANGED <<exported, timer, due, getters, driveMap>>

-----------------------------------------------------------------------------
(* Signals and the timer.  Arming filterTimer or cancelling it takes back  *)
(* the wait that was pending, whatever it was for.                         *)

Receive(signal, wait) ==
  /\ signals # <<>>
  /\ Head(signals) = signal
  /\ signals' = Tail(signals)
  /\ timer' = wait
  /\ UNCHANGED <<worldVars, due, getters, driveMap>>

EventHandler == Receive("endpoint added", "createDrives")
EmHandler    == Receive("inventory added", "collectInventory")

\* interfaceRemoved() only logs: the drive object stays.
InterfaceRemoved == Receive("endpoint removed", "none")

TimerExpires ==
  /\ timer # "none"
  /\ due = "none"
  /\ \E g \in Getters : getters[g] = None
  /\ due' = timer
  /\ timer' = "none"
  /\ UNCHANGED <<worldVars, signals, getters, driveMap>>

-----------------------------------------------------------------------------
(* getObjects: the paths from the mapper, then one GetAll call for each    *)
(* interface of each path, each tried again on its own.  The instance      *)
(* lives as long as a call refers to it, and its destructor passes what    *)
(* has been collected to the callback.                                     *)

GetConfiguration(g, want) ==
  getters' = [getters EXCEPT ![g] = [want |-> want, phase |-> "mapper", calls |-> {}, data |-> {}]]

CreateDrives ==
  /\ due = "createDrives"
  /\ due' = "none"
  /\ \E g \in Getters : getters[g] = None /\ GetConfiguration(g, "endpoints")
  /\ UNCHANGED <<worldVars, signals, timer, driveMap>>

CollectInventory ==
  /\ due = "collectInventory"
  /\ due' = "none"
  /\ \E g \in Getters : getters[g] = None /\ GetConfiguration(g, "inventory")
  /\ UNCHANGED <<worldVars, signals, timer, driveMap>>

\* An endpoint without an address or a bus in `data` gets a drive as well.
NewDrive(e, data) ==
  [bus     |-> IF <<e, "I2CDevice">> \in data THEN BusOf[e] ELSE UnknownBus,
   socket  |-> <<e, "UnixSocket">> \in data,
   form    |-> None, chassis |-> None, started |-> FALSE]

\* Mutant: a drive that is known is made again.
HandleMctpEndpointsAnew(g, data) ==
  /\ driveMap' = [e \in Endpoints |->
                   IF e \in NvmeEndpoints /\ <<e, "Endpoint">> \in data
                     THEN NewDrive(e, data) ELSE driveMap[e]]
  /\ GetConfiguration(g, "inventory")
  /\ UNCHANGED signals

HandleMctpEndpoints(g, data) ==
  /\ driveMap' = [e \in Endpoints |->
                   IF e \in NvmeEndpoints \ Known /\ <<e, "Endpoint">> \in data
                     THEN NewDrive(e, data) ELSE driveMap[e]]
  /\ GetConfiguration(g, "inventory")
  /\ UNCHANGED signals

-----------------------------------------------------------------------------
(* handleEmEndpoints() keeps bus, form and driveAssoc from one object to   *)
(* the next.  An object sets the ones its data has, and a property that is *)
(* missing ends its turn there.                                            *)

SetsBus(data) ==
  {i \in Objects : {<<i, "NVMe">>, <<i, "I2CDevice">>} \subseteq data /\ Inventory[i].bus # None}

\* Mutant: an object without a bus goes on with the bus of the one before.
PastBusCarried(data) == {i \in Objects : <<i, "NVMe">> \in data}

PastBus(data) ==
  {i \in Objects : <<i, "NVMe">> \in data /\ (<<i, "I2CDevice">> \in data => i \in SetsBus(data))}

SetsForm(data) ==
  {i \in PastBus(data) : <<i, "Drive">> \in data /\ Inventory[i].form # None}

\* The objects that get as far as the drives.
Updates(data) ==
  {i \in PastBus(data) : <<i, "Drive">> \in data => i \in SetsForm(data)}

SetsChassis(data) ==
  {i \in Updates(data) : <<i, "Association">> \in data /\ Inventory[i].chassis # None}

\* i is the last of the objects in S.
Last(S, i) == i \in S /\ \A j \in S : j <= i

\* The value of a variable once object i has had its turn.
Carried(field, setters, i) ==
  LET past == {j \in setters : j <= i} IN
  IF past = {} THEN None ELSE Inventory[CHOOSE j \in past : Last(past, j)][field]

\* The objects that update a drive.
Hits(drive, data) ==
  {i \in Updates(data) : Carried("bus", SetsBus(data), i) = drive.bus}

\* Of these the last one prevails.
Updated(drive, data) ==
  LET hits    == Hits(drive, data)
      last    == CHOOSE i \in hits : Last(hits, i)
      chassis == Carried("chassis", SetsChassis(data), last)
  IN [drive EXCEPT
       !.form    = IF hits = {} THEN @ ELSE Carried("form", SetsForm(data), last),
       !.chassis = IF hits = {} \/ chassis = None THEN @ ELSE chassis,
       !.started = TRUE]

\* Mutant: each initialize() announces the drive.
AnnouncedEachTime == Known

\* A drive object announces itself with its first initialize(), and the signal
\* comes back to the daemon.
Announced == {e \in Known : ~driveMap[e].started}

HandleEmEndpoints(g, data) ==
  /\ driveMap' = [e \in Endpoints |-> IF e \in Known THEN Updated(driveMap[e], data) ELSE None]
  /\ signals' = signals \o [n \in 1..Cardinality(Announced) |-> "inventory added"]
  /\ getters' = [getters EXCEPT ![g] = None]

-----------------------------------------------------------------------------
\* The calls that are left, and the data so far: the last call to end destroys
\* the instance.
Deliver(g, calls, data) ==
  \/ /\ calls # {}
     /\ getters' = [getters EXCEPT ![g] = [@ EXCEPT !.phase = "calls", !.calls = calls, !.data = data]]
     /\ UNCHANGED <<driveMap, signals>>
  \/ /\ calls = {} /\ getters[g].want = "endpoints"
     /\ HandleMctpEndpoints(g, data)
  \/ /\ calls = {} /\ getters[g].want = "inventory"
     /\ HandleEmEndpoints(g, data)

OnBus(want) == IF want = "endpoints" THEN exported ELSE configured

Waiting(g, phase) == getters[g] # None /\ getters[g].phase = phase

\* The objects in the mapper's answer that are asked for.  One that has no owner
\* any more ends the loop, and those behind it are left out.
Listed(want) ==
  {OnBus(want)} \cup
  (IF "mapper" \in Failing THEN {{o \in OnBus(want) : o < end} : end \in OnBus(want)} ELSE {})

SubtreeReply(g) ==
  /\ Waiting(g, "mapper")
  /\ LET want == getters[g].want IN
     \E listed \in Listed(want) :
       Deliver(g, [obj : listed, iface : Interfaces(want), left : {MaxRetries}], {})
  /\ UNCHANGED <<worldVars, timer, due>>

\* Mutant: an instance whose mapper call fails calls nobody back.
SubtreeErrorSilent(g) ==
  /\ Waiting(g, "mapper")
  /\ "mapper" \in Failing
  /\ getters' = [getters EXCEPT ![g] = None]
  /\ UNCHANGED <<worldVars, signals, timer, due, driveMap>>

\* getConfiguration() is called without retries.
SubtreeError(g) ==
  /\ Waiting(g, "mapper")
  /\ "mapper" \in Failing
  /\ Deliver(g, {}, {})
  /\ UNCHANGED <<worldVars, timer, due>>

\* A service answers in the order of the calls: c is next.
IsNext(g, c) ==
  \A d \in getters[g].calls \ {c} :
    \/ d.left < c.left
    \/ /\ d.left = c.left
       /\ \/ c.obj < d.obj
          \/ c.obj = d.obj /\ Position[c.iface] < Position[d.iface]

GetAllReply(g) ==
  /\ Waiting(g, "calls")
  /\ \E c \in getters[g].calls :
       /\ IsNext(g, c)
       /\ c.obj \in OnBus(getters[g].want)
       /\ Deliver(g, getters[g].calls \ {c}, getters[g].data \cup {<<c.obj, c.iface>>})
  /\ UNCHANGED <<worldVars, timer, due>>

CanFail(g, c) == getters[g].want \in Failing \/ c.obj \notin OnBus(getters[g].want)

\* Mutant: the retries are not counted down to zero.
GetAllRetryForever(g) ==
  /\ Waiting(g, "calls")
  /\ \E c \in getters[g].calls :
       /\ IsNext(g, c)
       /\ CanFail(g, c)
       /\ Deliver(g, (getters[g].calls \ {c}) \cup {[c EXCEPT !.left = @ - 1]}, getters[g].data)
  /\ UNCHANGED <<worldVars, timer, due>>

\* Tried again after ten seconds.
GetAllRetry(g) ==
  /\ Waiting(g, "calls")
  /\ \E c \in getters[g].calls :
       /\ IsNext(g, c)
       /\ CanFail(g, c)
       /\ c.left > 0
       /\ Deliver(g, (getters[g].calls \ {c}) \cup {[c EXCEPT !.left = @ - 1]}, getters[g].data)
  /\ UNCHANGED <<worldVars, timer, due>>

\* Mutant: a call that has failed for good takes what was collected with it.
GetAllErrorDropsData(g) ==
  /\ Waiting(g, "calls")
  /\ \E c \in getters[g].calls :
       /\ IsNext(g, c)
       /\ CanFail(g, c)
       /\ c.left = 0
       /\ Deliver(g, getters[g].calls \ {c}, {})
  /\ UNCHANGED <<worldVars, timer, due>>

GetAllError(g) ==
  /\ Waiting(g, "calls")
  /\ \E c \in getters[g].calls :
       /\ IsNext(g, c)
       /\ CanFail(g, c)
       /\ c.left = 0
       /\ Deliver(g, getters[g].calls \ {c}, getters[g].data)
  /\ UNCHANGED <<worldVars, timer, due>>

Answer(g) ==
  \/ SubtreeReply(g) \/ SubtreeError(g)
  \/ GetAllReply(g) \/ GetAllRetry(g) \/ GetAllError(g)

-----------------------------------------------------------------------------
\* Restart=always: what the process knew is lost, with the queues of its
\* connection and of its main loop.
Restart ==
  /\ "daemon" \in Failing
  /\ signals' = <<>>
  /\ timer' = "none"
  /\ due' = "createDrives"
  /\ getters' = [g \in Getters |-> None]
  /\ driveMap' = [e \in Endpoints |-> None]
  /\ UNCHANGED worldVars

World == EndpointAppears \/ EndpointLeaves \/ InventoryAppears

Next ==
  \/ World
  \/ EventHandler \/ EmHandler \/ InterfaceRemoved
  \/ TimerExpires
  \/ CreateDrives \/ CollectInventory
  \/ \E g \in Getters : Answer(g)
  \/ Restart

Spec == Init /\ [][Next]_vars

\* WF_vars(Answer(g)), spelled out for TLC's sake: an answer is possible as long as
\* the instance lives, and every answer changes it.
Answered(g) ==
  []<>(getters[g] = None) \/ []<><<getters'[g] # getters[g]>>_getters

\* The main loop runs what is queued, the timer expires when signals pause for a
\* second, and every call on D-Bus is answered, if only by its timeout.
FairSpec ==
  /\ Spec
  /\ WF_vars(EventHandler \/ EmHandler \/ InterfaceRemoved)
  /\ WF_vars(CreateDrives \/ CollectInventory)
  /\ WF_vars(TimerExpires)
  /\ \A g \in Getters : Answered(g)

-----------------------------------------------------------------------------
(* Safety.                                                                 *)

TypeOK ==
  /\ exported \in SUBSET Endpoints
  /\ configured \in SUBSET Objects
  /\ signals \in Seq(Signals)
  /\ timer \in Callbacks \cup {"none"}
  /\ due \in Callbacks \cup {"none"}
  /\ getters \in [Getters -> Getter \cup {None}]
  /\ driveMap \in [Endpoints -> Drive \cup {None}]

\* Of each object that is asked for, every interface is collected or still to be.
NoneSkipped(calls, data) ==
  LET called == {<<c.obj, c.iface>> : c \in calls} \cup data IN
  /\ called \subseteq configured \X Interfaces("inventory")
  /\ \A x \in called : {x[1]} \X Interfaces("inventory") \subseteq called

\* Why: the objects of Entity Manager are collected whole, if no call fails.
CollectedWhole ==
  "inventory" \notin Failing =>
    \A g \in Getters :
      getters[g] # None /\ getters[g].want = "inventory" =>
        NoneSkipped(getters[g].calls, getters[g].data)

\* The form factor of a drive is that of an inventory object on the drive's own
\* bus, although form and bus live across the loop over all objects: one without a
\* bus must not pass its form factor to the drive on the bus of the object before
\* (NVMeDeviceMain.cpp:24-90).  As long as no call to Entity Manager fails.
FormOwn ==
  "inventory" \notin Failing =>
    \A e \in Known :
      driveMap[e].form # None =>
        \E i \in Objects : /\ Inventory[i].bus = driveMap[e].bus
                           /\ Inventory[i].form = driveMap[e].form

\* A drive that is not started waits for an inventory that is being collected, or
\* whose callback is still to come: no collection is cut off (NVMeDeviceMain.cpp:182-196,
\* MCTPDiscovery.hpp:88-119).
StartPending ==
  (\E e \in Known : ~driveMap[e].started) =>
    \E g \in Getters : getters[g] # None /\ getters[g].want = "inventory"

\* The inductive invariant.
IInv ==
  /\ TypeOK
  /\ CollectedWhole
  /\ FormOwn
  /\ StartPending

\* "update location and formfactor by comparing bus number"
\* (NVMeDeviceMain.cpp:78): a drive's chassis is named by an object on its bus.
ChassisOwn ==
  \A e \in Known :
    driveMap[e].chassis # None =>
      \E i \in Objects : /\ Inventory[i].bus = driveMap[e].bus
                         /\ Inventory[i].chassis = driveMap[e].chassis

\* It does where the objects that name no chassis come first.
BaseboardFirst ==
  \A i, j \in Objects :
    j < i /\ Inventory[i].chassis = None => Inventory[j].chassis = None

AddressOf(e) ==
  IF driveMap[e] = None THEN None ELSE [bus |-> driveMap[e].bus, socket |-> driveMap[e].socket]

Registry == INSTANCE DriveRegistry WITH
  Addresses <- Address,
  NoDrive   <- None,
  address   <- [e \in Endpoints |-> AddressOf(e)],
  available <- {e \in Known : driveMap[e].started}

\* However the collections overlap and whichever of their calls fail, a drive is
\* made once, keeps its address and is started with all the others
\* (NVMeDeviceMain.cpp:95-98, 177-193).
ImplementsRegistry == Registry!Spec

-----------------------------------------------------------------------------
(* Liveness, under FairSpec.                                               *)

\* Whatever was collected of an endpoint is used, whichever calls fail for good:
\* it gets its drive, unless the daemon starts over (MCTPDiscovery.hpp:88-119,
\* 198-201).
CollectedIsUsed ==
  \A e \in NvmeEndpoints :
    (\E g \in Getters : /\ getters[g] # None
                        /\ getters[g].want = "endpoints"
                        /\ <<e, "Endpoint">> \in getters[g].data)
      ~> e \in Known \/ due = "createDrives"

\* A drive that is made is started, even if the inventory cannot be had
\* (NVMeDeviceMain.cpp:95-98, 196).
DrivesStart ==
  \A e \in Endpoints : e \in Known ~> (e \in Known => driveMap[e].started)

\* Nothing more happens on D-Bus, and the process lives.
Calm == <>[][~World /\ ~Restart]_vars

\* The drives' own announcements, which come back as signals of Entity Manager,
\* set off only so many collections (NVMeDeviceMain.cpp:260-291).
Settles ==
  Calm => <>[](/\ signals = <<>> /\ timer = "none" /\ due = "none"
               /\ \A g \in Getters : getters[g] = None)
=============================================================================
