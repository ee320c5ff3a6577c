------------------------- MODULE DriveManagerProofs -------------------------
(***************************************************************************)
(* The drive manager's invariant, and that it implements DriveRegistry,    *)
(* for any endpoints, inventory, number of collections at once, failing    *)
(* services and retries.                                                   *)
(***************************************************************************)
EXTENDS DriveManager, FiniteSetTheorems, SequenceTheorems, WellFoundedInduction, TLAPS

\* Objects are numbers.
LEMMA ObjectNumbers == Len(Inventory) \in Nat /\ Objects \subseteq Nat
  BY ManagerConstants DEF Objects

\* Two last objects of a set are the same.
LEMMA LastUnique ==
  ASSUME NEW S \in SUBSET Objects, NEW i, NEW j, Last(S, i), Last(S, j)
  PROVE  i = j
  BY ObjectNumbers DEF Last

\* A set of objects that is not empty has a last one.
LEMMA LastExists ==
  ASSUME NEW S \in SUBSET Objects, S # {}
  PROVE  \E i \in S : Last(S, i)
<1> DEFINE n == Len(Inventory)
           T == {n - i : i \in S}
           R == {ss \in Nat \X Nat : ss[1] < ss[2]}
<1>1. n \in Nat /\ S \subseteq 1..n
  BY ObjectNumbers DEF Objects
<1>2. T \subseteq Nat /\ T # {}
  <2>1. \A i \in S : n - i \in Nat
    BY <1>1
  <2> HIDE DEF n
  <2> QED BY <2>1
<1>3. PICK x \in T : \A y \in T : ~(<<y, x>> \in R)
  <2>1. IsWellFoundedOn(R, Nat)
    BY Zenon, NatLessThanWellFounded DEF OpToRel
  <2> HIDE DEF T, R
  <2> QED BY Zenon, <2>1, <1>2, WFMin
<1>4. \A y \in T : ~(y < x)
  <2> SUFFICES ASSUME NEW y \in T PROVE ~(y < x)
    OBVIOUS
  <2> QED BY <1>2, <1>3
<1>5. PICK i \in S : x = n - i
  BY <1>3
<1>6. \A j \in S : j <= i
  <2> TAKE j \in S
  <2> n - j \in T
    OBVIOUS
  <2> ~(n - j < n - i)
    BY <1>4, <1>5
  <2> QED BY <1>1
<1> QED BY <1>5, <1>6 DEF Last

\* What an object sets itself is what holds after its turn.
LEMMA CarriedOwn ==
  ASSUME NEW field, NEW S \in SUBSET Objects, NEW i \in S
  PROVE  Carried(field, S, i) = Inventory[i][field]
<1> DEFINE past == {j \in S : j <= i}
<1>1. past \in SUBSET Objects /\ i \in past /\ Last(past, i)
  <2>1. i \in Nat
    BY ObjectNumbers
  <2>2. i \in past
    BY <2>1
  <2>3. past \in SUBSET Objects
    OBVIOUS
  <2> QED BY <2>2, <2>3 DEF Last
<1>2. (CHOOSE j \in past : Last(past, j)) = i
  <2> HIDE DEF past
  <2> QED BY <1>1, LastUnique
<1> QED BY <1>1, <1>2 DEF Carried

\* A variable that is not unset has the value of some object that sets it.
LEMMA CarriedFrom ==
  ASSUME NEW field, NEW S \in SUBSET Objects, NEW i
  PROVE  \/ Carried(field, S, i) = None
         \/ \E j \in S : Carried(field, S, i) = Inventory[j][field]
<1> DEFINE past == {j \in S : j <= i}
<1> CASE past = {}
  BY DEF Carried
<1> CASE past # {}
  <2> \E j \in past : Last(past, j)
    <3> past \in SUBSET Objects
      OBVIOUS
    <3> HIDE DEF past
    <3> QED BY LastExists
  <2> (CHOOSE j \in past : Last(past, j)) \in past
    OBVIOUS
  <2> QED BY DEF Carried
<1> QED OBVIOUS

-----------------------------------------------------------------------------
(* One turn of handleEmEndpoints().                                        *)

\* The objects that update a drive are inventory objects, and so are those that
\* set one of the variables.
LEMMA Setters ==
  ASSUME NEW data, NEW drive
  PROVE  /\ SetsBus(data) \in SUBSET Objects
         /\ SetsForm(data) \in SUBSET Objects
         /\ SetsChassis(data) \in SUBSET Objects
         /\ Hits(drive, data) \in SUBSET Objects
         /\ \A i \in SetsForm(data) : Inventory[i].form \in Forms
         /\ \A i \in SetsChassis(data) : Inventory[i].chassis \in Chassis
<1> \A i \in Objects : Inventory[i] \in Item
  BY ManagerConstants DEF Objects
<1> QED BY DEF SetsBus, SetsForm, SetsChassis, Hits, Updates, PastBus, Item

\* A drive that is updated is a drive with the same address, and started.
LEMMA UpdatedDrive ==
  ASSUME NEW data, NEW drive \in Drive
  PROVE  /\ Updated(drive, data) \in Drive
         /\ Updated(drive, data).bus = drive.bus
         /\ Updated(drive, data).socket = drive.socket
         /\ Updated(drive, data).started
<1> DEFINE hits    == Hits(drive, data)
           last    == CHOOSE i \in hits : Last(hits, i)
           form    == Carried("form", SetsForm(data), last)
           chassis == Carried("chassis", SetsChassis(data), last)
<1>1. form \in Forms \cup {None}
  BY CarriedFrom, Setters
<1>2. chassis \in Chassis \cup {None}
  BY CarriedFrom, Setters
<1>3. Updated(drive, data) = [drive EXCEPT
        !.form = IF hits = {} THEN @ ELSE form,
        !.chassis = IF hits = {} \/ chassis = None THEN @ ELSE chassis,
        !.started = TRUE]
  BY DEF Updated
<1> HIDE DEF hits, last, form, chassis
<1> QED BY <1>1, <1>2, <1>3 DEF Drive

\* If the data is whole, an object that updates a drive is on the drive's bus
\* and gives it its own form factor.
LEMMA HitOwn ==
  ASSUME NEW data, NoneSkipped({}, data),
         NEW drive \in Drive, NEW i \in Hits(drive, data)
  PROVE  /\ i \in Objects
         /\ Inventory[i].bus = drive.bus
         /\ Carried("form", SetsForm(data), i) = Inventory[i].form
<1>1. i \in Objects /\ i \in Updates(data) /\ i \in PastBus(data)
  BY DEF Hits, Updates, PastBus
<1>2. <<i, "NVMe">> \in data
  BY <1>1 DEF PastBus
<1>3. <<i, "I2CDevice">> \in data /\ <<i, "Drive">> \in data
  <2> {i} \X Interfaces("inventory") \subseteq data
    BY <1>2 DEF NoneSkipped
  <2> "I2CDevice" \in Interfaces("inventory") /\ "Drive" \in Interfaces("inventory")
    BY DEF Interfaces
  <2> QED OBVIOUS
<1>4. i \in SetsBus(data)
  BY <1>1, <1>3 DEF PastBus
<1>5. i \in SetsForm(data)
  BY <1>1, <1>3 DEF Updates
<1>6. Carried("bus", SetsBus(data), i) = Inventory[i].bus
  BY <1>4, CarriedOwn, Setters
<1>7. Carried("form", SetsForm(data), i) = Inventory[i].form
  BY <1>5, CarriedOwn, Setters
<1> QED BY <1>1, <1>6, <1>7 DEF Hits

\* Then the form factor of the drive is its own after the turn, if it was before.
LEMMA UpdatedOwn ==
  ASSUME NEW data, NoneSkipped({}, data), NEW drive \in Drive,
         drive.form # None =>
           \E i \in Objects : Inventory[i].bus = drive.bus /\ Inventory[i].form = drive.form,
         NEW new, new = Updated(drive, data)
  PROVE  new.form # None =>
           \E i \in Objects : Inventory[i].bus = new.bus /\ Inventory[i].form = new.form
<1> DEFINE hits == Hits(drive, data)
           last == CHOOSE i \in hits : Last(hits, i)
<1>1. new.bus = drive.bus
  BY UpdatedDrive
<1>2. CASE hits = {}
  <2> new.form = drive.form
    BY <1>2 DEF Updated, Drive
  <2> QED BY <1>1
<1>3. CASE hits # {}
  <2>1. last \in hits
    <3> \E i \in hits : Last(hits, i)
      BY <1>3, LastExists, Setters
    <3> QED OBVIOUS
  <2>2. new.form = Carried("form", SetsForm(data), last)
    BY <1>3 DEF Updated, Drive
  <2> HIDE DEF last
  <2> QED BY <1>1, <2>1, <2>2, HitOwn
<1> QED BY <1>2, <1>3

-----------------------------------------------------------------------------
(* The callbacks of getObjects.                                            *)

\* What a callback or a call leaves of the invariant, besides what it does not
\* change.
Delivered ==
  /\ getters' \in [Getters -> Getter \cup {None}]
  /\ driveMap' \in [Endpoints -> Drive \cup {None}]
  /\ signals' \in Seq(Signals)
  /\ CollectedWhole'
  /\ FormOwn'
  /\ StartPending'

\* A new instance asks for nothing yet.
LEMMA NewGetter ==
  ASSUME TypeOK, CollectedWhole, NEW g \in Getters, NEW want \in Services,
         GetConfiguration(g, want), UNCHANGED worldVars
  PROVE  getters' \in [Getters -> Getter \cup {None}] /\ CollectedWhole'
<1> DEFINE new == [want |-> want, phase |-> "mapper", calls |-> {}, data |-> {}]
<1>1. new \in Getter
  BY DEF Getter, Services
<1>2. getters' = [getters EXCEPT ![g] = new]
  BY DEF GetConfiguration
<1>5. new # None /\ new.calls = {} /\ new.data = {}
  BY <1>1, ManagerConstants
<1> HIDE DEF new
<1>6. getters' \in [Getters -> Getter \cup {None}]
  BY <1>1, <1>2 DEF TypeOK
<1>7. ASSUME "inventory" \notin Failing, NEW h \in Getters,
             getters'[h] # None, getters'[h].want = "inventory"
      PROVE  NoneSkipped(getters[h].calls, getters[h].data)'
  <2>1. CASE h = g
    <3> getters'[h].calls = {} /\ getters'[h].data = {}
      BY <2>1, <1>2, <1>5 DEF TypeOK
    <3> QED BY DEF NoneSkipped
  <2>2. CASE h # g
    <3> getters'[h] = getters[h]
      BY <2>2, <1>2 DEF TypeOK
    <3> NoneSkipped(getters[h].calls, getters[h].data)
      BY <1>7 DEF CollectedWhole
    <3> QED BY DEF NoneSkipped, worldVars
  <2> QED BY <2>1, <2>2
<1> QED BY <1>6, <1>7 DEF CollectedWhole

\* The drive of each endpoint with data is made, the others stay.
LEMMA MctpEndpointsDeliver ==
  ASSUME IInv, NEW g \in Getters, NEW data, HandleMctpEndpoints(g, data), UNCHANGED worldVars
  PROVE  Delivered
<1> USE DEF IInv
<1>1. driveMap' \in [Endpoints -> Drive \cup {None}]
  <2> \A e \in Endpoints : NewDrive(e, data) \in Drive
    BY ManagerConstants DEF NewDrive, Drive
  <2> QED BY DEF HandleMctpEndpoints, TypeOK
<1>2. signals' \in Seq(Signals)
  BY DEF HandleMctpEndpoints, TypeOK
<1>3. getters' \in [Getters -> Getter \cup {None}] /\ CollectedWhole'
  BY NewGetter DEF HandleMctpEndpoints, Services
<1>4. FormOwn'
  <2> \A e \in Endpoints :
        \/ driveMap'[e] = driveMap[e]
        \/ driveMap'[e].form = None
    BY DEF HandleMctpEndpoints, NewDrive
  <2> QED BY DEF FormOwn, Known
<1>5. StartPending'
  <2> DEFINE new == [want |-> "inventory", phase |-> "mapper", calls |-> {}, data |-> {}]
  <2>1. getters'[g] = new
    BY DEF HandleMctpEndpoints, GetConfiguration, TypeOK
  <2>2. new \in Getter
    BY DEF Getter, Services
  <2> QED BY <2>1, <2>2, ManagerConstants DEF StartPending
<1> QED BY <1>1, <1>2, <1>3, <1>4, <1>5 DEF Delivered

\* The drives announce themselves.
LEMMA AnnouncementsType ==
  [n \in 1..Cardinality(Announced) |-> "inventory added"] \in Seq(Signals)
<1> IsFiniteSet(Announced)
  BY ManagerConstants, FS_Subset DEF Announced, Known
<1> DEFINE k == Cardinality(Announced)
<1>1. k \in Nat
  BY FS_CardinalityType
<1> HIDE DEF k
<1>2. [n \in 1..k |-> "inventory added"] \in [1..k -> Signals]
  BY DEF Signals
<1>3. [n \in 1..k |-> "inventory added"] \in Seq(Signals)
  BY <1>1, <1>2, SeqDef
<1> QED BY <1>3 DEF k

\* All drives are updated and started.
LEMMA EmEndpointsDeliver ==
  ASSUME IInv, NEW g \in Getters, NEW data, HandleEmEndpoints(g, data), UNCHANGED worldVars,
         "inventory" \notin Failing => NoneSkipped({}, data)
  PROVE  Delivered
<1> USE DEF IInv
<1>1. \A e \in Known : driveMap[e] \in Drive
  BY DEF TypeOK, Known
<1>2. driveMap' \in [Endpoints -> Drive \cup {None}]
  BY <1>1, UpdatedDrive DEF HandleEmEndpoints
<1>3. signals' \in Seq(Signals)
  <2> DEFINE announcements == [n \in 1..Cardinality(Announced) |-> "inventory added"]
  <2>1. announcements \in Seq(Signals) /\ signals \in Seq(Signals)
    BY AnnouncementsType DEF TypeOK
  <2>2. signals' = signals \o announcements
    BY DEF HandleEmEndpoints
  <2> HIDE DEF announcements
  <2> QED BY <2>1, <2>2
<1>4. getters' = [getters EXCEPT ![g] = None]
  BY DEF HandleEmEndpoints
<1>5. getters' \in [Getters -> Getter \cup {None}]
  BY <1>4 DEF TypeOK
<1>6. CollectedWhole'
  <2> \A h \in Getters : getters'[h] = None \/ getters'[h] = getters[h]
    BY <1>4 DEF TypeOK
  <2> \A calls, d : NoneSkipped(calls, d)' = NoneSkipped(calls, d)
    BY DEF NoneSkipped, worldVars
  <2> QED BY DEF CollectedWhole
<1>7. FormOwn'
  <2> SUFFICES ASSUME "inventory" \notin Failing, NEW e \in Known', driveMap'[e].form # None
               PROVE  \E i \in Objects : /\ Inventory[i].bus = driveMap'[e].bus
                                         /\ Inventory[i].form = driveMap'[e].form
    BY DEF FormOwn
  <2>1. e \in Known /\ e \in Endpoints /\ driveMap'[e] = Updated(driveMap[e], data)
    BY DEF HandleEmEndpoints, Known
  <2>2. driveMap[e].form # None =>
          \E i \in Objects : Inventory[i].bus = driveMap[e].bus /\ Inventory[i].form = driveMap[e].form
    BY <2>1 DEF FormOwn
  <2> QED BY <1>1, <2>1, <2>2, UpdatedOwn
<1>8. StartPending'
  <2> \A e \in Known' : driveMap'[e].started
    BY <1>1, UpdatedDrive DEF HandleEmEndpoints, Known
  <2> QED BY DEF StartPending
<1> QED BY <1>2, <1>3, <1>5, <1>6, <1>7, <1>8 DEF Delivered

\* A call that ends leaves the invariant alone, whether it is the last or not.
LEMMA DeliverInv ==
  ASSUME IInv, NEW g \in Getters, getters[g] # None,
         NEW calls \in SUBSET Call, NEW data \in SUBSET Data,
         Deliver(g, calls, data), UNCHANGED worldVars,
         "inventory" \notin Failing /\ getters[g].want = "inventory" => NoneSkipped(calls, data)
  PROVE  Delivered
<1> USE DEF IInv
<1>1. CASE /\ calls # {}
           /\ getters' = [getters EXCEPT ![g] = [@ EXCEPT !.phase = "calls", !.calls = calls, !.data = data]]
           /\ UNCHANGED <<driveMap, signals>>
  <2> DEFINE new == [getters[g] EXCEPT !.phase = "calls", !.calls = calls, !.data = data]
  <2>1. getters[g] \in Getter
    BY DEF TypeOK
  <2>2. new \in Getter /\ new.want = getters[g].want /\ new.calls = calls /\ new.data = data
    BY <2>1 DEF Getter
  <2>3. getters' = [getters EXCEPT ![g] = new]
    BY <1>1
  <2> HIDE DEF new
  <2>4. getters' \in [Getters -> Getter \cup {None}]
    BY <2>2, <2>3 DEF TypeOK
  <2>5. \A c, d : NoneSkipped(c, d)' = NoneSkipped(c, d)
    BY DEF NoneSkipped, worldVars
  <2>6. CollectedWhole'
    <3> \A h \in Getters : getters'[h] = IF h = g THEN new ELSE getters[h]
      BY <2>3 DEF TypeOK
    <3> QED BY <2>2, <2>5 DEF CollectedWhole
  <2>7. driveMap' \in [Endpoints -> Drive \cup {None}] /\ signals' \in Seq(Signals) /\ FormOwn'
    BY <1>1 DEF TypeOK, FormOwn, Known
  <2>8. StartPending'
    <3>1. \A h \in Getters : getters[h] # None => getters'[h] # None /\ getters'[h].want = getters[h].want
      BY <2>2, <2>3, ManagerConstants DEF TypeOK
    <3> QED BY <1>1, <3>1 DEF StartPending, Known
  <2> QED BY <2>4, <2>6, <2>7, <2>8 DEF Delivered
<1>2. CASE calls = {} /\ getters[g].want = "endpoints" /\ HandleMctpEndpoints(g, data)
  BY <1>2, MctpEndpointsDeliver
<1>3. CASE calls = {} /\ getters[g].want = "inventory" /\ HandleEmEndpoints(g, data)
  BY <1>3, EmEndpointsDeliver
<1> QED BY <1>1, <1>2, <1>3 DEF Deliver

-----------------------------------------------------------------------------
(* The invariant.                                                          *)

LEMMA InitInv == Init => IInv
<1> SUFFICES ASSUME Init PROVE IInv
  OBVIOUS
<1>1. TypeOK
  BY DEF Init, TypeOK, Callbacks
<1>2. CollectedWhole
  BY DEF Init, CollectedWhole
<1>3. FormOwn
  BY DEF Init, FormOwn, Known
<1>4. StartPending
  BY DEF Init, StartPending, Known
<1> QED BY <1>1, <1>2, <1>3, <1>4 DEF IInv

\* What is collected stays whole while Entity Manager adds objects, and nothing
\* else looks at them.
LEMMA WorldInv ==
  ASSUME IInv, World
  PROVE  IInv'
<1> USE DEF IInv
<1>1. UNCHANGED <<timer, due, getters, driveMap>> /\ configured \subseteq configured'
  BY DEF World, EndpointAppears, EndpointLeaves, InventoryAppears
<1>2. TypeOK'
  <2>1. exported' \in SUBSET Endpoints /\ configured' \in SUBSET Objects
    BY DEF World, EndpointAppears, EndpointLeaves, InventoryAppears, TypeOK
  <2>2. \E s \in Signals : signals' = Append(signals, s)
    BY DEF World, EndpointAppears, EndpointLeaves, InventoryAppears, Signals
  <2>3. signals' \in Seq(Signals)
    BY <2>2 DEF TypeOK
  <2> QED BY <1>1, <2>1, <2>3 DEF TypeOK
<1>3. CollectedWhole'
  <2> SUFFICES ASSUME "inventory" \notin Failing, NEW g \in Getters,
                      getters[g] # None, getters[g].want = "inventory"
               PROVE  NoneSkipped(getters[g].calls, getters[g].data)'
    BY <1>1 DEF CollectedWhole
  <2> NoneSkipped(getters[g].calls, getters[g].data)
    BY DEF CollectedWhole
  <2> QED BY <1>1 DEF NoneSkipped
<1>4. FormOwn' /\ StartPending'
  BY <1>1 DEF FormOwn, StartPending, Known
<1> QED BY <1>2, <1>3, <1>4

\* Signals and the timer.
LEMMA SignalInv ==
  ASSUME IInv, EventHandler \/ EmHandler \/ InterfaceRemoved \/ TimerExpires
  PROVE  IInv'
<1> USE DEF IInv
<1>1. UNCHANGED <<worldVars, getters, driveMap>>
  BY DEF EventHandler, EmHandler, InterfaceRemoved, Receive, TimerExpires
<1>2. signals' \in Seq(Signals)
  <2> CASE TimerExpires
    BY DEF TimerExpires, TypeOK
  <2> CASE EventHandler \/ EmHandler \/ InterfaceRemoved
    <3> signals # <<>> /\ signals' = Tail(signals)
      BY DEF EventHandler, EmHandler, InterfaceRemoved, Receive
    <3> QED BY DEF TypeOK
  <2> QED OBVIOUS
<1>3. timer' \in Callbacks \cup {"none"} /\ due' \in Callbacks \cup {"none"}
  BY DEF EventHandler, EmHandler, InterfaceRemoved, Receive, TimerExpires, TypeOK, Callbacks
<1>4. TypeOK'
  BY <1>1, <1>2, <1>3 DEF TypeOK, worldVars
<1>5. CollectedWhole' /\ FormOwn' /\ StartPending'
  BY <1>1 DEF CollectedWhole, NoneSkipped, FormOwn, StartPending, Known, worldVars
<1> QED BY <1>4, <1>5

\* A new instance of getObjects.
LEMMA CollectInv ==
  ASSUME IInv, CreateDrives \/ CollectInventory
  PROVE  IInv'
<1> USE DEF IInv
<1>1. UNCHANGED <<worldVars, signals, timer, driveMap>> /\ due' = "none"
  BY DEF CreateDrives, CollectInventory
<1>2. PICK g \in Getters, want \in Services : getters[g] = None /\ GetConfiguration(g, want)
  BY DEF CreateDrives, CollectInventory, Services
<1>3. getters' \in [Getters -> Getter \cup {None}] /\ CollectedWhole'
  BY <1>1, <1>2, NewGetter
<1>4. TypeOK' /\ FormOwn'
  BY <1>1, <1>3 DEF TypeOK, FormOwn, Known, worldVars
<1>5. StartPending'
  <2> \A h \in Getters : getters[h] # None => getters'[h] = getters[h]
    BY <1>2 DEF GetConfiguration, TypeOK
  <2> QED BY <1>1 DEF StartPending, Known
<1> QED BY <1>3, <1>4, <1>5

\* Every answer delivers calls that are left and data so far, which are whole for
\* as long as Entity Manager does not fail.
LEMMA AnswerDelivers ==
  ASSUME IInv, NEW g \in Getters, Answer(g)
  PROVE  \E calls \in SUBSET Call, data \in SUBSET Data :
           /\ Deliver(g, calls, data)
           /\ "inventory" \notin Failing /\ getters[g].want = "inventory" =>
                NoneSkipped(calls, data)
<1> USE DEF IInv
<1>1. getters[g] # None
  BY DEF Answer, SubtreeReply, SubtreeError, GetAllReply, GetAllRetry, GetAllError, Waiting
<1> DEFINE asking    == getters[g].calls
           collected == getters[g].data
           want      == getters[g].want
           whole     == "inventory" \notin Failing /\ want = "inventory"
<1>2. getters[g] \in Getter /\ asking \in SUBSET Call /\ collected \in SUBSET Data /\ want \in Services
  BY <1>1 DEF TypeOK, Getter
<1>3. whole => NoneSkipped(asking, collected)
  BY <1>1 DEF CollectedWhole
<1>4. ASSUME NEW c \in asking, CanFail(g, c) PROVE ~whole
  <2> SUFFICES ASSUME whole PROVE FALSE
    OBVIOUS
  <2> <<c.obj, c.iface>> \in configured \X Interfaces("inventory")
    BY <1>3 DEF NoneSkipped
  <2> QED BY <1>4 DEF CanFail, OnBus
<1>5. CASE SubtreeReply(g)
  <2>0. PICK listed \in SUBSET OnBus(want) :
          Deliver(g, [obj : listed, iface : Interfaces(want), left : {MaxRetries}], {})
    BY <1>5 DEF SubtreeReply, Listed
  <2> DEFINE asked == [obj : listed, iface : Interfaces(want), left : {MaxRetries}]
  <2>1. asked \in SUBSET Call
    BY <1>2, <2>0, ManagerConstants
    DEF Call, OnBus, Interfaces, Services, TypeOK, Position
  <2>2. want = "inventory" => NoneSkipped(asked, {})
    <3> SUFFICES ASSUME want = "inventory" PROVE NoneSkipped(asked, {})
      OBVIOUS
    <3> DEFINE called == {<<c.obj, c.iface>> : c \in asked}
    <3>1. called \subseteq listed \X Interfaces("inventory") /\ listed \subseteq configured
      BY <2>0 DEF OnBus
    <3>2. ASSUME NEW i \in listed, NEW iface \in Interfaces("inventory")
          PROVE  <<i, iface>> \in called
      <4> [obj |-> i, iface |-> iface, left |-> MaxRetries] \in asked
        OBVIOUS
      <4> QED OBVIOUS
    <3> HIDE DEF asked
    <3> QED BY <3>1, <3>2 DEF NoneSkipped
  <2>3. Deliver(g, asked, {})
    BY <2>0
  <2>4. {} \in SUBSET Data
    OBVIOUS
  <2> HIDE DEF asked
  <2> QED BY <2>1, <2>2, <2>3, <2>4
<1>6. CASE SubtreeError(g)
  <2>1. NoneSkipped({}, {})
    BY DEF NoneSkipped
  <2>2. Deliver(g, {}, {})
    BY <1>6 DEF SubtreeError
  <2>3. {} \in SUBSET Call /\ {} \in SUBSET Data
    OBVIOUS
  <2> QED BY <2>1, <2>2, <2>3
<1>7. CASE GetAllReply(g)
  <2>1. PICK c \in asking : Deliver(g, asking \ {c}, collected \cup {<<c.obj, c.iface>>})
    BY <1>7 DEF GetAllReply
  <2> DEFINE left == asking \ {c}
             more == collected \cup {<<c.obj, c.iface>>}
  <2>2. c \in Call /\ left \in SUBSET Call /\ more \in SUBSET Data
    BY <1>2 DEF Call, Data
  <2>3. NoneSkipped(asking, collected) => NoneSkipped(left, more)
    <3> {<<d.obj, d.iface>> : d \in left} \cup more = {<<d.obj, d.iface>> : d \in asking} \cup collected
      OBVIOUS
    <3> QED BY DEF NoneSkipped
  <2>4. Deliver(g, left, more)
    BY <2>1
  <2> HIDE DEF left, more
  <2> QED BY <1>3, <2>2, <2>3, <2>4
<1>8. CASE GetAllRetry(g)
  <2>1. PICK c \in asking :
          /\ CanFail(g, c) /\ c.left > 0
          /\ Deliver(g, (asking \ {c}) \cup {[c EXCEPT !.left = @ - 1]}, collected)
    BY <1>8 DEF GetAllRetry
  <2> DEFINE left == (asking \ {c}) \cup {[c EXCEPT !.left = @ - 1]}
  <2>2. [c EXCEPT !.left = @ - 1] \in Call
    BY <1>2, <2>1, ManagerConstants DEF Call
  <2>3. left \in SUBSET Call /\ Deliver(g, left, collected) /\ ~whole
    BY <1>2, <1>4, <2>1, <2>2
  <2> HIDE DEF left
  <2> QED BY <1>2, <2>3
<1>9. CASE GetAllError(g)
  <2>1. PICK c \in asking : CanFail(g, c) /\ Deliver(g, asking \ {c}, collected)
    BY <1>9 DEF GetAllError
  <2>2. asking \ {c} \in SUBSET Call /\ ~whole
    BY <1>2, <1>4, <2>1
  <2> QED BY <1>2, <2>1, <2>2
<1> QED BY <1>5, <1>6, <1>7, <1>8, <1>9 DEF Answer

\* The answers to the calls of an instance.
LEMMA AnswerInv ==
  ASSUME IInv, NEW g \in Getters, Answer(g)
  PROVE  IInv'
<1>1. UNCHANGED <<worldVars, timer, due>> /\ getters[g] # None
  BY DEF Answer, SubtreeReply, SubtreeError, GetAllReply, GetAllRetry, GetAllError, Waiting
<1>2. Delivered
  BY <1>1, AnswerDelivers, DeliverInv
<1>3. TypeOK'
  BY <1>1, <1>2 DEF Delivered, IInv, TypeOK, worldVars
<1> QED BY <1>2, <1>3 DEF Delivered, IInv

LEMMA RestartInv ==
  ASSUME IInv, Restart
  PROVE  IInv'
<1> USE DEF IInv
<1>1. TypeOK'
  BY DEF Restart, TypeOK, Callbacks, worldVars
<1>2. CollectedWhole' /\ FormOwn' /\ StartPending'
  BY DEF Restart, CollectedWhole, FormOwn, StartPending, Known
<1> QED BY <1>1, <1>2

LEMMA NextInv == IInv /\ [Next]_vars => IInv'
<1> SUFFICES ASSUME IInv, [Next]_vars PROVE IInv'
  OBVIOUS
<1>1. CASE World
  BY <1>1, WorldInv
<1>2. CASE EventHandler \/ EmHandler \/ InterfaceRemoved \/ TimerExpires
  BY <1>2, SignalInv
<1>3. CASE CreateDrives \/ CollectInventory
  BY <1>3, CollectInv
<1>4. CASE \E g \in Getters : Answer(g)
  BY <1>4, AnswerInv
<1>5. CASE Restart
  BY <1>5, RestartInv
<1>6. CASE UNCHANGED vars
  BY <1>6 DEF vars, worldVars, IInv, TypeOK, CollectedWhole, NoneSkipped, FormOwn, StartPending, Known
<1> QED BY <1>1, <1>2, <1>3, <1>4, <1>5, <1>6 DEF Next

\* The invariant of the drive manager (NVMeDeviceMain.cpp, MCTPDiscovery.hpp).
THEOREM ManagerInvariant == Spec => []IInv
  BY InitInv, NextInv, PTL DEF Spec

\* A drive's form factor is that of an inventory object on its bus, whatever the
\* order and the properties of the objects, if no call to Entity Manager fails
\* (NVMeDeviceMain.cpp:24-90).
THEOREM FormsAreOwn == Spec => []FormOwn
<1> IInv => FormOwn
  BY DEF IInv
<1> QED BY ManagerInvariant, PTL

\* A drive is never left unstarted without a collection under way that will start
\* it, whichever calls fail (NVMeDeviceMain.cpp:182-196, MCTPDiscovery.hpp:88-119).
THEOREM StartsPending == Spec => []StartPending
<1> IInv => StartPending
  BY DEF IInv
<1> QED BY ManagerInvariant, PTL

-----------------------------------------------------------------------------
(* The chassis of a drive.                                                 *)

\* If the data is whole and objects without a chassis come first, an object that
\* updates a drive gives it its own chassis, or none.
LEMMA HitChassis ==
  ASSUME BaseboardFirst, NEW data, NoneSkipped({}, data),
         NEW drive \in Drive, NEW i \in Hits(drive, data)
  PROVE  Carried("chassis", SetsChassis(data), i) = Inventory[i].chassis
<1>1. i \in Objects /\ i \in Updates(data)
  BY DEF Hits, Updates, PastBus
<1>2. <<i, "Association">> \in data
  <2>1. <<i, "NVMe">> \in data
    BY <1>1 DEF Updates, PastBus
  <2>2. {i} \X Interfaces("inventory") \subseteq data
    BY <2>1 DEF NoneSkipped
  <2> "Association" \in Interfaces("inventory")
    BY DEF Interfaces
  <2> QED BY <2>2
<1>3. CASE Inventory[i].chassis # None
  <2> i \in SetsChassis(data)
    BY <1>1, <1>2, <1>3 DEF SetsChassis
  <2> QED BY CarriedOwn, Setters
<1>4. CASE Inventory[i].chassis = None
  <2>1. ASSUME NEW j \in SetsChassis(data), j <= i PROVE FALSE
    <3>1. j \in Objects /\ Inventory[j].chassis # None
      BY DEF SetsChassis, Updates, PastBus
    <3>2. j # i /\ j < i
      BY <1>1, <1>4, <2>1, <3>1, ObjectNumbers
    <3> QED BY <1>1, <1>4, <3>1, <3>2 DEF BaseboardFirst
  <2>2. {j \in SetsChassis(data) : j <= i} = {}
    BY <2>1
  <2> QED BY <1>4, <2>2 DEF Carried
<1> QED BY <1>3, <1>4

\* Then the chassis of the drive is its own after the turn, if it was before.
LEMMA UpdatedChassis ==
  ASSUME BaseboardFirst, NEW data, NoneSkipped({}, data), NEW drive \in Drive,
         drive.chassis # None =>
           \E i \in Objects : Inventory[i].bus = drive.bus /\ Inventory[i].chassis = drive.chassis,
         NEW new, new = Updated(drive, data)
  PROVE  new.chassis # None =>
           \E i \in Objects : Inventory[i].bus = new.bus /\ Inventory[i].chassis = new.chassis
<1> DEFINE hits    == Hits(drive, data)
           last    == CHOOSE i \in hits : Last(hits, i)
           chassis == Carried("chassis", SetsChassis(data), last)
<1>1. new.bus = drive.bus
  BY UpdatedDrive
<1>2. new.chassis = IF hits = {} \/ chassis = None THEN drive.chassis ELSE chassis
  BY DEF Updated, Drive
<1>3. CASE hits = {} \/ chassis = None
  BY <1>1, <1>2, <1>3
<1>4. CASE hits # {} /\ chassis # None
  <2>1. last \in hits
    <3> \E i \in hits : Last(hits, i)
      BY <1>4, LastExists, Setters
    <3> QED OBVIOUS
  <2>2. last \in Objects /\ Inventory[last].bus = drive.bus
    BY <2>1, HitOwn
  <2>3. chassis = Inventory[last].chassis
    BY <2>1, HitChassis
  <2> HIDE DEF last
  <2> QED BY <1>1, <1>2, <1>4, <2>2, <2>3
<1> QED BY <1>3, <1>4

\* No callback gives a drive the chassis of another.
LEMMA DeliverChassis ==
  ASSUME BaseboardFirst, IInv, ChassisOwn, NEW g \in Getters, NEW calls, NEW data,
         Deliver(g, calls, data),
         getters[g].want = "inventory" => NoneSkipped(calls, data)
  PROVE  ChassisOwn'
<1>1. CASE UNCHANGED driveMap
  BY <1>1 DEF ChassisOwn, Known
<1>2. CASE HandleMctpEndpoints(g, data)
  <2> \A e \in Endpoints :
        \/ driveMap'[e] = driveMap[e]
        \/ driveMap'[e].chassis = None
    BY <1>2 DEF HandleMctpEndpoints, NewDrive
  <2> QED BY DEF ChassisOwn, Known
<1>3. CASE calls = {} /\ getters[g].want = "inventory" /\ HandleEmEndpoints(g, data)
  <2> SUFFICES ASSUME NEW e \in Known', driveMap'[e].chassis # None
               PROVE  \E i \in Objects : /\ Inventory[i].bus = driveMap'[e].bus
                                         /\ Inventory[i].chassis = driveMap'[e].chassis
    BY DEF ChassisOwn
  <2>1. e \in Known /\ e \in Endpoints /\ driveMap'[e] = Updated(driveMap[e], data)
    BY <1>3 DEF HandleEmEndpoints, Known
  <2>2. driveMap[e] \in Drive
    BY <2>1 DEF IInv, TypeOK, Known
  <2>3. driveMap[e].chassis # None =>
          \E i \in Objects : /\ Inventory[i].bus = driveMap[e].bus
                             /\ Inventory[i].chassis = driveMap[e].chassis
    BY <2>1 DEF ChassisOwn
  <2> QED BY <1>3, <2>1, <2>2, <2>3, UpdatedChassis
<1> QED BY <1>1, <1>2, <1>3 DEF Deliver

LEMMA NextChassis ==
  ASSUME BaseboardFirst, "inventory" \notin Failing, IInv, ChassisOwn, [Next]_vars
  PROVE  ChassisOwn'
<1>1. CASE \E g \in Getters : Answer(g)
  <2>1. PICK g \in Getters : Answer(g)
    BY <1>1
  <2>2. PICK calls \in SUBSET Call, data \in SUBSET Data :
          Deliver(g, calls, data) /\ (getters[g].want = "inventory" => NoneSkipped(calls, data))
    BY <2>1, AnswerDelivers
  <2> QED BY <2>2, DeliverChassis
<1>2. CASE Restart
  BY <1>2 DEF Restart, ChassisOwn, Known
<1>3. CASE ~(\E g \in Getters : Answer(g)) /\ ~Restart
  <2> UNCHANGED driveMap
    BY <1>3 DEF Next, World, EndpointAppears, EndpointLeaves, InventoryAppears,
                EventHandler, EmHandler, InterfaceRemoved, Receive, TimerExpires,
                CreateDrives, CollectInventory, vars
  <2> QED BY DEF ChassisOwn, Known
<1> QED BY <1>1, <1>2, <1>3

\* If no call to Entity Manager fails and its objects without a chassis come first,
\* no drive gets a chassis of another bus: the wrong chassis takes an object
\* without one, between others (NVMeDeviceMain.cpp:24-90).
THEOREM ChassesAreOwn ==
  ASSUME BaseboardFirst, "inventory" \notin Failing
  PROVE  Spec => []ChassisOwn
<1>1. Init => ChassisOwn
  BY DEF Init, ChassisOwn, Known
<1>2. IInv /\ ChassisOwn /\ [Next]_vars => ChassisOwn'
  BY NextChassis
<1> QED BY <1>1, <1>2, ManagerInvariant, PTL DEF Spec

-----------------------------------------------------------------------------
(* The refinement.                                                         *)

\* A drive and its address come together.
LEMMA AddressType ==
  ASSUME TypeOK, NEW e \in Endpoints
  PROVE  /\ e \in Known => AddressOf(e) \in Address /\ AddressOf(e) # None
         /\ e \notin Known => AddressOf(e) = None
  BY ManagerConstants DEF TypeOK, Known, AddressOf, Drive, Address

LEMMA RegistryKnown == TypeOK => Registry!Known = Known
  BY AddressType DEF Registry!Known, Known

\* New drives are a Discover step.
LEMMA MctpEndpointsDiscovers ==
  ASSUME IInv, NEW g \in Getters, NEW data, HandleMctpEndpoints(g, data)
  PROVE  Registry!Discover
<1>1. TypeOK /\ DOMAIN driveMap = Endpoints
  BY DEF IInv, TypeOK
<1>2. \A e \in Endpoints :
        \/ driveMap'[e] = driveMap[e]
        \/ e \notin Known /\ driveMap'[e] = NewDrive(e, data)
  BY DEF HandleMctpEndpoints
<1>3. \A e \in Endpoints : NewDrive(e, data) \in Drive /\ ~NewDrive(e, data).started
  BY ManagerConstants DEF NewDrive, Drive
<1>4. \A e \in Endpoints :
        \/ AddressOf(e)' = AddressOf(e)
        \/ e \notin Known /\ AddressOf(e)' \in Address
  BY <1>2, <1>3, ManagerConstants DEF AddressOf, Drive, Address
<1>5. {e \in Known : driveMap[e].started}' = {e \in Known : driveMap[e].started}
  BY <1>2, <1>3 DEF Known
<1> QED BY <1>1, <1>4, <1>5, RegistryKnown DEF Registry!Discover

\* The turn over all drives is a StartAll step.
LEMMA EmEndpointsStartsAll ==
  ASSUME IInv, NEW g \in Getters, NEW data, HandleEmEndpoints(g, data)
  PROVE  Registry!StartAll
<1>1. \A e \in Known : driveMap[e] \in Drive
  BY DEF IInv, TypeOK, Known
<1>2. \A e \in Endpoints : driveMap'[e] = IF e \in Known THEN Updated(driveMap[e], data) ELSE None
  BY DEF HandleEmEndpoints
<1>3. \A e \in Known : /\ driveMap'[e] # None
                       /\ driveMap'[e].started
                       /\ driveMap'[e].bus = driveMap[e].bus
                       /\ driveMap'[e].socket = driveMap[e].socket
  BY <1>1, <1>2, UpdatedDrive, ManagerConstants DEF Known
<1>4. Known' = Known
  BY <1>2, <1>3 DEF Known
<1>5. \A e \in Endpoints : AddressOf(e)' = AddressOf(e)
  BY <1>2, <1>3 DEF AddressOf, Known
<1>6. {e \in Known : driveMap[e].started}' = Known
  BY <1>3, <1>4
<1> QED BY <1>5, <1>6, RegistryKnown DEF Registry!StartAll, IInv

\* Whatever does not touch driveMap is no step of the registry.
LEMMA RegistryStutters ==
  ASSUME UNCHANGED driveMap
  PROVE  UNCHANGED Registry!registryVars
  BY DEF Registry!registryVars, AddressOf, Known

LEMMA DeliverImplements ==
  ASSUME IInv, NEW g \in Getters, NEW calls, NEW data, Deliver(g, calls, data)
  PROVE  [Registry!Next]_(Registry!registryVars)
<1>1. CASE UNCHANGED driveMap
  BY <1>1, RegistryStutters
<1>2. CASE HandleMctpEndpoints(g, data)
  BY <1>2, MctpEndpointsDiscovers DEF Registry!Next
<1>3. CASE HandleEmEndpoints(g, data)
  BY <1>3, EmEndpointsStartsAll DEF Registry!Next
<1> QED BY <1>1, <1>2, <1>3 DEF Deliver

LEMMA AnswerImplements ==
  ASSUME IInv, NEW g \in Getters, Answer(g)
  PROVE  [Registry!Next]_(Registry!registryVars)
<1>1. \E calls, data : Deliver(g, calls, data)
  BY DEF Answer, SubtreeReply, SubtreeError, GetAllReply, GetAllRetry, GetAllError
<1> QED BY <1>1, DeliverImplements

LEMMA RestartCrashes ==
  ASSUME Restart
  PROVE  Registry!Crash
  BY DEF Restart, Registry!Crash, AddressOf, Known

LEMMA NextImplements ==
  ASSUME IInv, [Next]_vars
  PROVE  [Registry!Next]_(Registry!registryVars)
<1>1. CASE World \/ EventHandler \/ EmHandler \/ InterfaceRemoved \/ TimerExpires
  <2> UNCHANGED driveMap
    BY <1>1 DEF World, EndpointAppears, EndpointLeaves, InventoryAppears,
                EventHandler, EmHandler, InterfaceRemoved, Receive, TimerExpires
  <2> QED BY RegistryStutters
<1>2. CASE CreateDrives \/ CollectInventory \/ UNCHANGED vars
  <2> UNCHANGED driveMap
    BY <1>2 DEF CreateDrives, CollectInventory, vars
  <2> QED BY RegistryStutters
<1>3. CASE \E g \in Getters : Answer(g)
  BY <1>3, AnswerImplements
<1>4. CASE Restart
  BY <1>4, RestartCrashes DEF Registry!Next
<1> QED BY <1>1, <1>2, <1>3, <1>4 DEF Next

\* Each drive is made once, keeps its address and is started with all others,
\* whatever collections overlap and calls fail.
THEOREM ManagerImplementsRegistry == Spec => ImplementsRegistry
<1>1. Init => Registry!Init
  BY DEF Init, Registry!Init, AddressOf, Known
<1>2. IInv /\ [Next]_vars => [Registry!Next]_(Registry!registryVars)
  BY NextImplements
<1> QED BY <1>1, <1>2, ManagerInvariant, PTL DEF Spec, ImplementsRegistry, Registry!Spec
=============================================================================
