------------------------ MODULE LayerRegistryProofs ------------------------
(***************************************************************************)
(* What holds of the layer registry for every set of files, customers,     *)
(* names and products, every interval and every bound.                     *)
(***************************************************************************)
EXTENDS LayerRegistry, TLAPS

(* The types the constants have by their assumptions. *)
LEMMA ProductTypes ==
    \A p \in Products : p.names \in SUBSET Names /\ p.kind \in Kinds
  BY ProductsAssumption DEF Kinds

(* map::insert into a map of layers gives a map of layers. *)
LEMMA InsertType ==
    ASSUME NEW map \in [Names -> Layer \cup {NoLayer}], NEW ns,
           NEW l \in Layer \cup {NoLayer}
    PROVE  Insert(map, ns, l) \in [Names -> Layer \cup {NoLayer}]
  BY DEF Insert

LEMMA EmptyMapType == EmptyMap \in [Names -> Layer \cup {NoLayer}]
  BY DEF EmptyMap

(* The time of a file is a time. *)
LEMMA FileTimeType ==
    ASSUME TypeOK, NEW f \in Files
    PROVE  FileTime(f) \in Nat
  BY DEF TypeOK, FileTime, Version

LEMMA ModificationTimeType ==
    ASSUME TypeOK, work \in Work
    PROVE  ModificationTime(work) \in Nat
  <1>1. FileTime(work.file) \in Nat
    BY FileTimeType DEF Work
  <1>2. work.version.product.kind \in Kinds
    BY ProductTypes DEF Work, Version
  <1>3. QED
    BY <1>1, <1>2 DEF ModificationTime, Kinds, Latest, TypeOK

LEMMA InitType == Init => TypeOK
  <1> SUFFICES ASSUME Init PROVE TypeOK
    OBVIOUS
  <1>1. disk \in [Files -> Version \cup {NoFile}]
    <2>1. \A p \in [product : Products, mtime : {0}] : p \in Version
      BY DEF Version
    <2>2. QED
      BY <2>1 DEF Init
  <1>2. seen \in [Files -> SUBSET (Version \cup {NoFile})]
    BY <1>1 DEF Init
  <1>3. QED
    BY <1>1, <1>2, EmptyMapType DEF Init, TypeOK

(* A product is in the hands of LayerFactory exactly while createLayers runs. *)
Working == pc = "create" <=> work # NoWork

LEMMA WorkingKept == TypeOK /\ Working /\ [Next]_vars => Working'
  <1> SUFFICES ASSUME TypeOK, Working, [Next]_vars PROVE Working'
    OBVIOUS
  <1> USE DEF Working, Goto, environment, scan, vars
  <1>1. CASE UpdateThread
    <2>1. CASE Boot \/ EndScan \/ Store \/ LoseScan
      BY <2>1 DEF Boot, EndScan, Store, LoseScan, Finish, BeginScan, LeaveScan, AfterScan
    <2>2. CASE (\E c \in Customers : EnterCustomer(c)) \/ LeaveCustomer
      BY <2>2 DEF EnterCustomer, LeaveCustomer, LeaveScan, AfterScan
    <2>3. CASE \E f \in Files : SkipFile(f) \/ KeepLayer(f) \/ DropFile(f)
      BY <2>3 DEF SkipFile, KeepLayer, DropFile, Visiting
    <2>4. CASE \E f \in Files : ReadProduct(f)
      <3>1. PICK f \in Files : ReadProduct(f)
        BY <2>4
      <3>2. work' \in Work
        BY <3>1 DEF ReadProduct, Work, TypeOK
      <3>3. QED
        BY <3>1, <3>2, NoneAssumption DEF ReadProduct
    <2>5. CASE CreateLayers
      BY <2>5 DEF CreateLayers
    <2>6. CASE Launch \/ CheckLoop \/ WakeUp \/ Interrupted \/ Sweep \/ LoseSweep
      BY <2>6 DEF Launch, CheckLoop, WakeUp, Interrupted, Sweep, LoseSweep, Finish, BeginScan
    <2>7. QED
      BY <1>1, <2>1, <2>2, <2>3, <2>4, <2>5, <2>6 DEF UpdateThread
  <1>2. CASE MainThread
    BY <1>2 DEF MainThread, CancelTask, JoinTask
  <1>3. CASE Environment
    BY <1>3 DEF Environment, WriteProduct, RemoveProduct, PutFile, NewData, Edit,
       Tick, BeginShutdown
  <1>4. CASE Stopped \/ UNCHANGED vars
    BY <1>4 DEF Stopped
  <1>5. QED
    BY <1>1, <1>2, <1>3, <1>4 DEF Next

(***************************************************************************)
(* Type correctness, one step per action.                                  *)
(***************************************************************************)
LEMMA EnvironmentType == TypeOK /\ Environment => TypeOK'
  <1> SUFFICES ASSUME TypeOK, Environment PROVE TypeOK'
    OBVIOUS
  <1>1. ASSUME NEW f \in Files, NEW v \in Version \cup {NoFile}, PutFile(f, v)
        PROVE  TypeOK'
    BY <1>1 DEF PutFile, Edit, TypeOK, scan
  <1>2. CASE \E f \in Files : \E p \in Products : WriteProduct(f, p)
    <2>1. PICK f \in Files, p \in Products : WriteProduct(f, p)
      BY <1>2
    <2>2. [product |-> p, mtime |-> now] \in Version
      BY DEF TypeOK, Version
    <2>3. QED
      BY <1>1, <2>1, <2>2 DEF WriteProduct
  <1>3. CASE \E f \in Files : RemoveProduct(f)
    BY <1>1, <1>3 DEF RemoveProduct
  <1>4. CASE NewData
    BY <1>4 DEF NewData, Edit, TypeOK, scan
  <1>5. CASE Tick
    BY <1>5 DEF Tick, TypeOK, scan
  <1>6. CASE BeginShutdown
    BY <1>6 DEF BeginShutdown, TypeOK, scan, environment
  <1>7. QED
    BY <1>2, <1>3, <1>4, <1>5, <1>6 DEF Environment

LEMMA MainThreadType == TypeOK /\ MainThread => TypeOK'
  BY DEF MainThread, CancelTask, JoinTask, TypeOK, scan, environment

LEMMA UpdateThreadType == TypeOK /\ Working /\ UpdateThread => TypeOK'
  <1> SUFFICES ASSUME TypeOK, Working, UpdateThread PROVE TypeOK'
    OBVIOUS
  <1> USE DEF TypeOK, Goto, environment, scan
  <1>1. CASE Boot
    BY <1>1, EmptyMapType DEF Boot, Finish, BeginScan
  <1>2. CASE EndScan
    BY <1>2 DEF EndScan
  <1>3. CASE Store
    BY <1>3, EmptyMapType DEF Store, LeaveScan, AfterScan
  <1>4. CASE LoseScan
    BY <1>4, EmptyMapType DEF LoseScan, LeaveScan, Fail
  <1>5. CASE \E c \in Customers : EnterCustomer(c)
    BY <1>5, EmptyMapType DEF EnterCustomer, LeaveScan, AfterScan
  <1>6. CASE LeaveCustomer
    BY <1>6 DEF LeaveCustomer, Fail
  <1>7. CASE \E f \in Files : SkipFile(f)
    BY <1>7 DEF SkipFile, Visiting
  <1>8. CASE \E f \in Files : KeepLayer(f)
    <2>1. PICK f \in Files : KeepLayer(f)
      BY <1>8
    <2>2. Published(f) \in Layer \cup {NoLayer}
      BY FilesAssumption DEF Published
    <2>3. fresh' \in [Names -> Layer \cup {NoLayer}]
      BY <2>1, <2>2, InsertType DEF KeepLayer
    <2>4. QED
      BY <2>1, <2>3 DEF KeepLayer, Visiting
  <1>9. CASE \E f \in Files : ReadProduct(f)
    <2>1. PICK f \in Files : ReadProduct(f)
      BY <1>9
    <2>2. work' \in Work \cup {NoWork}
      BY <2>1 DEF ReadProduct, Work
    <2>3. QED
      BY <2>1, <2>2 DEF ReadProduct, Visiting
  <1>10. CASE \E f \in Files : DropFile(f)
    BY <1>10 DEF DropFile, Visiting, Fail
  <1>11. CASE CreateLayers
    <2>1. work \in Work
      BY <1>11 DEF CreateLayers, Working
    <2>2. [file |-> work.file, version |-> work.version, built |-> now] \in Layer
      BY <2>1 DEF Layer, Work
    <2>3. fresh' \in [Names -> Layer \cup {NoLayer}]
      BY <1>11, <2>2, InsertType DEF CreateLayers
    <2>4. capTime' \in Nat
      BY <1>11, <2>1, ModificationTimeType DEF CreateLayers, Latest
    <2>5. lost' \in SUBSET Files /\ faults' \in Nat
      BY <1>11, <2>1 DEF CreateLayers, Fail, Work
    <2>6. QED
      BY <1>11, <2>3, <2>4, <2>5 DEF CreateLayers
  <1>12. CASE Launch
    BY <1>12 DEF Launch, Finish
  <1>13. CASE CheckLoop
    BY <1>13 DEF CheckLoop, Finish
  <1>14. CASE WakeUp
    BY <1>14, EmptyMapType DEF WakeUp, BeginScan
  <1>15. CASE Interrupted
    BY <1>15 DEF Interrupted
  <1>16. CASE Sweep
    <2>1. PICK looked \in LookedAt :
             capTime' \in {capTime} \cup {FileTime(f) : f \in looked}
      BY <1>16 DEF Sweep
    <2>2. looked \subseteq Files
      BY DEF LookedAt
    <2>3. capTime' \in Nat
      BY <2>1, <2>2, FileTimeType
    <2>4. QED
      BY <1>16, <2>3 DEF Sweep
  <1>17. CASE LoseSweep
    BY <1>17 DEF LoseSweep, Fail
  <1>18. QED
    BY <1>1, <1>2, <1>3, <1>4, <1>5, <1>6, <1>7, <1>8, <1>9, <1>10, <1>11,
       <1>12, <1>13, <1>14, <1>15, <1>16, <1>17 DEF UpdateThread

LEMMA TypeInduction == TypeOK /\ Working /\ [Next]_vars => TypeOK'
  <1>1. TypeOK /\ UNCHANGED vars => TypeOK'
    BY DEF TypeOK, vars
  <1>2. QED
    BY <1>1, EnvironmentType, MainThreadType, UpdateThreadType DEF Next, Stopped

(* Every value the registry, its thread and its history take is of its     *)
(* type; a product that vanished is never handed to LayerFactory.          *)
THEOREM TypeCorrect == Spec => [](TypeOK /\ Working)
  <1>1. Init => TypeOK /\ Working
    BY InitType DEF Init, Working
  <1>2. TypeOK /\ Working /\ [Next]_vars => (TypeOK /\ Working)'
    BY TypeInduction, WorkingKept
  <1>3. QED
    BY <1>1, <1>2, PTL DEF Spec

-----------------------------------------------------------------------------
(***************************************************************************)
(* The safety properties.  Freshness is inductive once a scan is known to  *)
(* have begun in the past; the names of published layers, once the layers  *)
(* that the scan collects are known to bear their names as well.           *)
(***************************************************************************)
StartedBefore == began <= now

NamedByProduct(map) ==
    \A n \in Names : map[n] # NoLayer => n \in map[n].version.product.names

(* The steps that leave the clock, the scan and the published map alone. *)
Quiet == UNCHANGED <<fresh, layers, began, now>>

LEMMA Steps ==
    ASSUME TypeOK, [Next]_vars
    PROVE  \/ Quiet
           \/ UNCHANGED <<fresh, layers, began>> /\ now' = now + 1
           \/ fresh' = EmptyMap /\ layers' \in {layers, fresh} /\ began' \in {0, now} /\ now' = now
           \/ \E f \in Files : KeepLayer(f)
           \/ CreateLayers
  <1> USE DEF Quiet, Goto, environment, scan, vars
  <1>1. CASE Boot \/ EndScan \/ Store \/ LoseScan
    BY <1>1 DEF Boot, EndScan, Store, LoseScan, Finish, BeginScan, LeaveScan
  <1>2. CASE (\E c \in Customers : EnterCustomer(c)) \/ LeaveCustomer
    BY <1>2 DEF EnterCustomer, LeaveCustomer, LeaveScan
  <1>3. CASE \E f \in Files : SkipFile(f) \/ ReadProduct(f) \/ DropFile(f)
    BY <1>3 DEF SkipFile, ReadProduct, DropFile, Visiting
  <1>4. CASE Launch \/ CheckLoop \/ WakeUp \/ Interrupted \/ Sweep \/ LoseSweep
    BY <1>4 DEF Launch, CheckLoop, WakeUp, Interrupted, Sweep, LoseSweep, Finish, BeginScan
  <1>5. CASE MainThread
    BY <1>5 DEF MainThread, CancelTask, JoinTask
  <1>6. CASE Environment
    BY <1>6 DEF Environment, WriteProduct, RemoveProduct, PutFile, NewData, Edit,
       Tick, BeginShutdown
  <1>7. CASE Stopped \/ UNCHANGED vars
    BY <1>7 DEF Stopped
  <1>8. QED
    BY <1>1, <1>2, <1>3, <1>4, <1>5, <1>6, <1>7 DEF Next, UpdateThread

(* What the two steps that fill the new map do to it. *)
LEMMA KeepLayerStep ==
    ASSUME TypeOK, NEW f \in Files, KeepLayer(f)
    PROVE  /\ UNCHANGED <<layers, began, now>>
           /\ FullName[f] \in Names
           /\ fresh' = Insert(fresh, {FullName[f]}, layers[FullName[f]])
           /\ layers[FullName[f]] \in Layer
           /\ now - layers[FullName[f]].built < Interval
           /\ layers[FullName[f]].version.product.kind = "postgis"
  <1>1. FullName[f] \in Names
    BY FilesAssumption
  <1>2. layers[FullName[f]] \in Layer
    BY <1>1 DEF KeepLayer, Published, TypeOK
  <1>3. now - layers[FullName[f]].built < Interval
    BY <1>2, BoundsAssumption DEF KeepLayer, MayKeep, Expired, Published, TypeOK, Layer
  <1>4. QED
    BY <1>1, <1>2, <1>3
       DEF KeepLayer, MayKeep, Published, Visiting, Goto, environment

LEMMA CreateLayersStep ==
    ASSUME TypeOK, Working, CreateLayers
    PROVE  /\ UNCHANGED <<layers, began, now>>
           /\ work \in Work
           /\ \E made \in SUBSET work.version.product.names :
                fresh' = Insert(fresh, made,
                                [file |-> work.file, version |-> work.version, built |-> now])
  BY DEF CreateLayers, NamesOf, Goto, environment, Working, TypeOK

LEMMA StalenessInduction ==
    ASSUME TypeOK, Working, StartedBefore, StalenessBound, [Next]_vars
    PROVE  (StartedBefore /\ StalenessBound)'
  <1> USE DEF StartedBefore, StalenessBound
  <1>1. CASE Quiet
    BY <1>1 DEF Quiet
  <1>2. CASE UNCHANGED <<fresh, layers, began>> /\ now' = now + 1
    BY <1>2 DEF TypeOK
  <1>3. CASE /\ fresh' = EmptyMap
             /\ layers' \in {layers, fresh}
             /\ began' \in {0, now}
             /\ now' = now
    BY <1>3 DEF TypeOK, EmptyMap
  <1>4. CASE \E f \in Files : KeepLayer(f)
    <2>1. PICK f \in Files : KeepLayer(f)
      BY <1>4
    <2>2. layers[FullName[f]].built + Interval > began
      <3> DEFINE l == layers[FullName[f]]
      <3>1. l \in Layer /\ now - l.built < Interval
        BY <2>1, KeepLayerStep
      <3>2. l.built \in Nat /\ now \in Nat /\ began \in Nat /\ began <= now
        BY <3>1 DEF Layer, TypeOK
      <3> HIDE DEF l
      <3>3. l.built + Interval > began
        BY <3>1, <3>2, BoundsAssumption
      <3>4. QED
        BY <3>3 DEF l
    <2>3. QED
      BY <2>1, <2>2, KeepLayerStep DEF Insert
  <1>5. CASE CreateLayers
    BY <1>5, CreateLayersStep DEF Insert
  <1>6. QED
    BY <1>1, <1>2, <1>3, <1>4, <1>5, Steps

(* A layer outlives its product file, or an edit of it, by at most the     *)
(* metadata interval, counted from the beginning of the last scan          *)
(* (updateLayerMetaDataForCustomerLayer).                                  *)
THEOREM Freshness == Spec => []StalenessBound
  <1>1. Init => StartedBefore /\ StalenessBound
    BY DEF Init, StartedBefore, StalenessBound, EmptyMap
  <1>2. TypeOK /\ Working /\ StartedBefore /\ StalenessBound /\ [Next]_vars
           => (StartedBefore /\ StalenessBound)'
    BY StalenessInduction
  <1>3. QED
    BY <1>1, <1>2, TypeCorrect, PTL DEF Spec

LEMMA NamesInduction ==
    ASSUME TypeOK, Working, NamedByProduct(layers), NamedByProduct(fresh), [Next]_vars
    PROVE  (NamedByProduct(layers) /\ NamedByProduct(fresh))'
  <1> USE DEF NamedByProduct
  <1>1. CASE Quiet
    BY <1>1 DEF Quiet
  <1>2. CASE UNCHANGED <<fresh, layers, began>>
    BY <1>2
  <1>3. CASE fresh' = EmptyMap /\ layers' \in {layers, fresh}
    BY <1>3 DEF EmptyMap
  <1>4. CASE \E f \in Files : KeepLayer(f)
    BY <1>4, KeepLayerStep DEF Insert
  <1>5. CASE CreateLayers
    BY <1>5, CreateLayersStep DEF Insert
  <1>6. QED
    BY <1>1, <1>2, <1>3, <1>4, <1>5, Steps

(* A layer is found only under a name its own product defines, although a  *)
(* reused layer is inserted under the name of the file being visited.      *)
THEOREM Naming == Spec => []OwnNames
  <1>1. Init => NamedByProduct(layers) /\ NamedByProduct(fresh)
    BY DEF Init, NamedByProduct, EmptyMap
  <1>2. TypeOK /\ Working /\ NamedByProduct(layers) /\ NamedByProduct(fresh) /\ [Next]_vars
           => (NamedByProduct(layers) /\ NamedByProduct(fresh))'
    BY NamesInduction
  <1>3. NamedByProduct(layers) => OwnNames
    BY DEF NamedByProduct, OwnNames
  <1>4. QED
    BY <1>1, <1>2, <1>3, TypeCorrect, PTL DEF Spec

(* A step from "sweep" to "check" that meets no failure is a whole Sweep,  *)
(* and unless the reactor is shutting down it has looked at the product    *)
(* file of every published layer.  A sweep that fails (LoseSweep) is       *)
(* counted in faults.                                                      *)
THEOREM SweepCoverage == Spec => SweepCovers
  <1>1. ASSUME TypeOK, Next, pc = "sweep", pc' = "check", ~shutdown, faults' = faults
        PROVE  \A n \in Names :
                  layers[n] # NoLayer /\ disk[layers[n].file] = layers[n].version =>
                      layers[n].version.mtime <= capTime'
    <2> SUFFICES ASSUME NEW n \in Names, layers[n] # NoLayer,
                        disk[layers[n].file] = layers[n].version
                 PROVE  layers[n].version.mtime <= capTime'
      OBVIOUS
    <2>1. Sweep
      <3> ~LoseSweep
        BY <1>1 DEF LoseSweep, Fail, TypeOK
      <3>1. CASE UpdateThread
        BY <1>1, <3>1 DEF UpdateThread, Boot, EndScan, Store, LoseScan, EnterCustomer,
           LeaveCustomer, SkipFile, KeepLayer, ReadProduct, DropFile, Visiting, CreateLayers,
           Launch, CheckLoop, WakeUp, Interrupted
      <3>2. CASE MainThread \/ Environment \/ Stopped
        BY <1>1, <3>2 DEF MainThread, CancelTask, JoinTask, Environment, WriteProduct,
           RemoveProduct, PutFile, NewData, Edit, Tick, BeginShutdown, Stopped, vars
      <3>3. QED
        BY <1>1, <3>1, <3>2 DEF Next
    <2>2. layers[n].file \in Files /\ layers[n].version \in Version
      BY <1>1 DEF TypeOK, Layer
    <2>3. FileTime(layers[n].file) = layers[n].version.mtime
      BY <2>2, NoneAssumption DEF FileTime
    <2>4. \A t \in {FileTime(f) : f \in Files} : t <= capTime'
      BY <1>1, <2>1 DEF Sweep, LookedAt
    <2>5. QED
      BY <2>2, <2>3, <2>4
  <1>2. TypeOK /\ [Next]_vars =>
           [pc = "sweep" /\ pc' = "check" /\ ~shutdown /\ faults' = faults =>
               \A n \in Names :
                  layers[n] # NoLayer /\ disk[layers[n].file] = layers[n].version =>
                      layers[n].version.mtime <= capTime']_vars
    BY <1>1
  <1>3. QED
    BY <1>2, TypeCorrect, PTL DEF Spec, SweepCovers

-----------------------------------------------------------------------------
(***************************************************************************)
(* The registry implements the catalogue.                                  *)
(***************************************************************************)

(* The history has the version on disk, and the version a product in the   *)
(* hands of LayerFactory was read from.                                    *)
SeenOnDisk == \A f \in Files : disk[f] \in seen[f]

SeenWork ==
    work # NoWork => work.file \notin Ignored /\ work.version \in seen[work.file]

Collected ==
    \A n \in Names :
        fresh[n] # NoLayer => Catalog!MadeFrom(fresh[n], n) \/ Catalog!Kept(fresh[n], n)

(* What a step does to the files and to their history. *)
LEMMA FileSteps ==
    ASSUME TypeOK, [Next]_vars
    PROVE  \/ UNCHANGED <<disk, seen>>
           \/ \E f \in Files : \E v \in Version \cup {NoFile} : PutFile(f, v)
           \/ Store
  <1> USE DEF Goto, environment, vars
  <1>1. CASE UpdateThread
    BY <1>1 DEF UpdateThread, Boot, EndScan, LoseScan, EnterCustomer,
       LeaveCustomer, SkipFile, KeepLayer, ReadProduct, DropFile, Visiting, CreateLayers,
       Launch, CheckLoop, WakeUp, Interrupted, Sweep, LoseSweep, Finish, BeginScan, LeaveScan
  <1>2. CASE \E f \in Files : \E p \in Products : WriteProduct(f, p)
    <2>1. PICK f \in Files, p \in Products : WriteProduct(f, p)
      BY <1>2
    <2>2. [product |-> p, mtime |-> now] \in Version
      BY DEF TypeOK, Version
    <2>3. QED
      BY <2>1, <2>2 DEF WriteProduct
  <1>3. CASE \E f \in Files : RemoveProduct(f)
    BY <1>3 DEF RemoveProduct
  <1>4. CASE NewData \/ Tick \/ BeginShutdown \/ MainThread \/ Stopped \/ UNCHANGED vars
    BY <1>4 DEF NewData, Tick, BeginShutdown, MainThread, CancelTask, JoinTask, Stopped
  <1>5. QED
    BY <1>1, <1>2, <1>3, <1>4 DEF Next, Environment

(* The versions seen of a file grow until a map is stored. *)
LEMMA SeenInduction ==
    ASSUME TypeOK, SeenOnDisk, [Next]_vars
    PROVE  /\ SeenOnDisk'
           /\ Store \/ \A f \in Files : seen[f] \subseteq seen'[f]
  <1>1. CASE UNCHANGED <<disk, seen>>
    BY <1>1 DEF SeenOnDisk
  <1>2. CASE \E f \in Files : \E v \in Version \cup {NoFile} : PutFile(f, v)
    BY <1>2 DEF PutFile, SeenOnDisk, TypeOK
  <1>3. CASE Store
    BY <1>3 DEF Store, SeenOnDisk, LeaveScan, Goto, environment
  <1>4. QED
    BY <1>1, <1>2, <1>3, FileSteps

LEMMA SeenWorkInduction ==
    ASSUME TypeOK, Working, SeenOnDisk, SeenWork, [Next]_vars
    PROVE  SeenWork'
  <1> USE DEF SeenWork, Goto, environment, scan, vars
  <1>1. CASE \E f \in Files : ReadProduct(f)
    <2>1. PICK f \in Files : ReadProduct(f)
      BY <1>1
    <2>2. seen' = seen /\ disk[f] \in seen[f] /\ f \notin Ignored
      BY <2>1 DEF ReadProduct, Visiting, SeenOnDisk
    <2>3. work'.file = f /\ work'.version = disk[f]
      BY <2>1 DEF ReadProduct
    <2>4. QED
      BY <2>2, <2>3
  <1>2. CASE Store
    BY <1>2 DEF Store, LeaveScan, Working
  <1>3. CASE work' = NoWork
    BY <1>3
  <1>4. CASE work' = work /\ ~Store
    BY <1>4, SeenInduction DEF TypeOK, Work
  <1>5. work' \in {work, NoWork} \/ \E f \in Files : ReadProduct(f)
    <2>1. CASE UpdateThread
      BY <2>1 DEF UpdateThread, Boot, EndScan, LoseScan, Store, EnterCustomer,
         LeaveCustomer, SkipFile, KeepLayer, DropFile, CreateLayers,
         Launch, CheckLoop, WakeUp, Interrupted, Sweep, LoseSweep, Finish, BeginScan, LeaveScan
    <2>2. CASE MainThread \/ Stopped \/ UNCHANGED vars
      BY <2>2 DEF MainThread, CancelTask, JoinTask, Stopped
    <2>3. CASE Environment
      BY <2>3 DEF Environment, WriteProduct, RemoveProduct, PutFile, NewData, Edit,
         Tick, BeginShutdown
    <2>4. QED
      BY <2>1, <2>2, <2>3 DEF Next
  <1>6. QED
    BY <1>1, <1>2, <1>3, <1>4, <1>5

LEMMA CollectedInduction ==
    ASSUME TypeOK, Working, SeenOnDisk, SeenWork, Collected, [Next]_vars
    PROVE  Collected'
  <1> USE DEF Collected
  <1>1. CASE fresh' = EmptyMap
    BY <1>1 DEF EmptyMap
  <1>2. CASE Quiet \/ UNCHANGED <<fresh, layers, began>>
    <2>1. CASE Store
      BY <2>1, <1>1 DEF Store, LeaveScan
    <2>2. CASE ~Store
      <3> SUFFICES ASSUME NEW n \in Names, fresh[n] # NoLayer
                   PROVE  (Catalog!MadeFrom(fresh[n], n) \/ Catalog!Kept(fresh[n], n))'
        BY <1>2 DEF Quiet
      <3>1. UNCHANGED <<fresh, layers>>
        BY <1>2 DEF Quiet
      <3>2. \A f \in Files : seen[f] \subseteq seen'[f]
        BY <2>2, SeenInduction
      <3>3. Catalog!MadeFrom(fresh[n], n) \/ Catalog!Kept(fresh[n], n)
        OBVIOUS
      <3>4. QED
        BY <3>1, <3>2, <3>3 DEF Catalog!MadeFrom, Catalog!Kept
    <2>3. QED
      BY <2>1, <2>2
  <1>3. CASE \E f \in Files : KeepLayer(f)
    <2>1. PICK f \in Files : KeepLayer(f)
      BY <1>3
    <2>2. seen' = seen
      BY <2>1 DEF KeepLayer, Visiting
    <2>3. QED
      BY <2>1, <2>2, KeepLayerStep DEF Catalog!MadeFrom, Catalog!Kept, Insert
  <1>4. CASE CreateLayers
    <2> DEFINE l == [file |-> work.file, version |-> work.version, built |-> now]
    <2>1. PICK made \in SUBSET work.version.product.names : fresh' = Insert(fresh, made, l)
      BY <1>4, CreateLayersStep
    <2>2. seen' = seen /\ layers' = layers
      BY <1>4 DEF CreateLayers
    <2>3. \A n \in made : Catalog!MadeFrom(l, n)
      <3>1. work \in Work /\ work # NoWork
        BY <1>4 DEF CreateLayers, Working, TypeOK
      <3>2. work.version # NoFile
        BY <3>1, NoneAssumption DEF Work
      <3>3. QED
        BY <2>1, <3>1, <3>2 DEF Catalog!MadeFrom, SeenWork, Work
    <2>4. QED
      BY <2>1, <2>2, <2>3 DEF Insert, Catalog!MadeFrom, Catalog!Kept
  <1>5. QED
    BY <1>1, <1>2, <1>3, <1>4, Steps

History == SeenOnDisk /\ SeenWork /\ Collected

THEOREM HistoryCorrect == Spec => []History
  <1>1. Init => History
    BY DEF Init, History, SeenOnDisk, SeenWork, Collected, EmptyMap
  <1>2. TypeOK /\ Working /\ History /\ [Next]_vars => History'
    BY SeenInduction, SeenWorkInduction, CollectedInduction DEF History
  <1>3. QED
    BY <1>1, <1>2, TypeCorrect, PTL DEF Spec

(* Readers see the published map change as the catalogue says: as a whole, *)
(* to layers made from a version of their product file seen since the last *)
(* publication, or to layers kept (Config::updateLayerMetaData).           *)
THEOREM Implementation == Spec => ImplementsCatalogue
  <1>1. Init => Catalog!Init
    BY InitType DEF Init, Catalog!Init, TypeOK, EmptyMap, Catalog!Version, Version
  <1>2. ASSUME TypeOK, History, [Next]_vars
        PROVE  [Catalog!Next]_(Catalog!vars)
    <2>1. CASE UNCHANGED <<disk, seen>> /\ ~Store
      <3>1. layers' = layers
        <4>1. CASE UpdateThread
          BY <2>1, <4>1 DEF UpdateThread, Boot, EndScan, LoseScan, EnterCustomer, LeaveCustomer,
             SkipFile, KeepLayer, ReadProduct, DropFile, Visiting, CreateLayers, Launch,
             CheckLoop, WakeUp, Interrupted, Sweep, LoseSweep, Finish, BeginScan, LeaveScan
        <4>2. CASE MainThread \/ Stopped \/ UNCHANGED vars
          BY <4>2 DEF MainThread, CancelTask, JoinTask, Stopped, vars
        <4>3. CASE Environment
          BY <4>3 DEF Environment, WriteProduct, RemoveProduct, PutFile, NewData, Edit,
             Tick, BeginShutdown
        <4>4. QED
          BY <1>2, <4>1, <4>2, <4>3 DEF Next
      <3>2. QED
        BY <1>2, <2>1, <3>1 DEF Catalog!vars
    <2>2. CASE \E f \in Files : \E v \in Version \cup {NoFile} : PutFile(f, v)
      <3>1. PICK f \in Files, v \in Version \cup {NoFile} : PutFile(f, v)
        BY <2>2
      <3>2. disk'[f] = v
        BY <1>2, <3>1 DEF PutFile, TypeOK
      <3>3. Catalog!Edit
        BY <3>1, <3>2 DEF Catalog!Edit, PutFile, Edit, Catalog!Version, Version
      <3>4. QED
        BY <3>3 DEF Catalog!Next
    <2>3. CASE Store
      <3>1. layers' = fresh /\ disk' = disk /\ seen' = [f \in Files |-> {disk[f]}]
        BY <2>3 DEF Store, LeaveScan, Goto, environment
      <3>2. layers' \in [Names -> Catalog!Layer \cup {NoLayer}]
        BY <1>2, <3>1 DEF TypeOK, Catalog!Layer, Catalog!Version, Layer, Version
      <3>3. \A n \in Names :
              layers'[n] # NoLayer => Catalog!MadeFrom(layers'[n], n) \/ Catalog!Kept(layers'[n], n)
        BY <1>2, <3>1 DEF History, Collected
      <3>4. QED
        BY <3>1, <3>2, <3>3 DEF Catalog!Next, Catalog!Publish
    <2>4. QED
      BY <1>2, <2>1, <2>2, <2>3, FileSteps
  <1>3. QED
    BY <1>1, <1>2, TypeCorrect, HistoryCorrect, PTL
       DEF Spec, ImplementsCatalogue, Catalog!Spec

-----------------------------------------------------------------------------
(***************************************************************************)
(* Completeness.  A file has been visited when its customer is no longer   *)
(* to do, it is not among the files to visit and LayerFactory is not at    *)
(* work on it; every visited file is covered, and when the map is about    *)
(* to be stored all files have been visited.                               *)
(***************************************************************************)
Scanning == pc \in {"scan", "walk", "create", "store"}

Visited(f) ==
    /\ Scanning
    /\ CustomerOf[f] \notin todo
    /\ f \notin files
    /\ work # NoWork => work.file # f

ScanShape ==
    /\ pc \notin {"walk", "create"} => files = {}
    /\ pc = "store" => todo = {}

VisitedCovered ==
    ~shutdown => \A f \in Files \ (Ignored \cup lost) : Visited(f) /\ Steady(f) => Covered(f)

LEMMA ScanShapeInduction ==
    ASSUME ScanShape, [Next]_vars
    PROVE  ScanShape'
  <1> USE DEF ScanShape, Goto, environment, scan, vars
  <1>1. CASE UpdateThread
    <2>1. CASE Boot \/ EndScan \/ Store \/ LoseScan
      BY <2>1 DEF Boot, EndScan, Store, LoseScan, Finish, BeginScan, LeaveScan, AfterScan
    <2>2. CASE (\E c \in Customers : EnterCustomer(c)) \/ LeaveCustomer
      BY <2>2 DEF EnterCustomer, LeaveCustomer, LeaveScan, AfterScan
    <2>3. CASE \/ CreateLayers
               \/ \E f \in Files : SkipFile(f) \/ KeepLayer(f) \/ ReadProduct(f) \/ DropFile(f)
      BY <2>3 DEF SkipFile, KeepLayer, ReadProduct, DropFile, Visiting, CreateLayers
    <2>4. CASE Launch \/ CheckLoop \/ WakeUp \/ Interrupted \/ Sweep \/ LoseSweep
      BY <2>4 DEF Launch, CheckLoop, WakeUp, Interrupted, Sweep, LoseSweep, Finish, BeginScan
    <2>5. QED
      BY <1>1, <2>1, <2>2, <2>3, <2>4 DEF UpdateThread
  <1>2. CASE MainThread \/ Stopped \/ UNCHANGED vars
    BY <1>2 DEF MainThread, CancelTask, JoinTask, Stopped
  <1>3. CASE Environment
    BY <1>3 DEF Environment, WriteProduct, RemoveProduct, PutFile, NewData, Edit,
       Tick, BeginShutdown
  <1>4. QED
    BY <1>1, <1>2, <1>3 DEF Next

(* A step that leaves the files and the published map alone and only adds  *)
(* to the new map leaves a file covered.                                   *)
LEMMA StaysCovered ==
    ASSUME NEW f \in Files, Covered(f), TypeOK, UNCHANGED <<disk, layers>>,
           Steady(f),
           \A n \in Names : fresh[n] # NoLayer => fresh'[n] # NoLayer
    PROVE  Covered(f)'
  <1>1. disk[f] \in Version
    BY DEF TypeOK, Steady
  <1>2. disk[f].product.names \subseteq Names
    BY <1>1, ProductTypes DEF Version
  <1>3. FullName[f] \in Names
    BY FilesAssumption
  <1>4. QED
    BY <1>2, <1>3 DEF Covered, Published

(* A step that does not visit a file keeps the visited ones covered. *)
LEMMA NothingVisited ==
    ASSUME TypeOK, VisitedCovered, UNCHANGED <<disk, layers, seen>>, shutdown' => FALSE,
           shutdown = FALSE, lost \subseteq lost',
           \A f \in Files : Visited(f)' => Visited(f),
           \A n \in Names : fresh[n] # NoLayer => fresh'[n] # NoLayer
    PROVE  VisitedCovered'
  <1> SUFFICES ASSUME NEW f \in Files \ (Ignored \cup lost), Visited(f), Steady(f)
               PROVE  Covered(f)'
    BY DEF VisitedCovered, Steady
  <1>1. Covered(f)
    BY DEF VisitedCovered
  <1>2. QED
    BY <1>1, StaysCovered

LEMMA InsertGrows ==
    ASSUME NEW map, NEW ns, NEW l, l # NoLayer, NEW n \in Names
    PROVE  /\ map[n] # NoLayer => Insert(map, ns, l)[n] # NoLayer
           /\ n \in ns => Insert(map, ns, l)[n] # NoLayer
  BY DEF Insert

LEMMA CoveredInduction ==
    ASSUME TypeOK, Working, SeenOnDisk, SeenWork, ScanShape, VisitedCovered, [Next]_vars
    PROVE  VisitedCovered'
  <1> SUFFICES ASSUME ~shutdown' PROVE VisitedCovered'
    BY DEF VisitedCovered
  <1>0. shutdown = FALSE
    <2>1. CASE UpdateThread
      BY <2>1 DEF UpdateThread, Boot, EndScan, LoseScan, Store, EnterCustomer, LeaveCustomer,
         SkipFile, KeepLayer, ReadProduct, DropFile, Visiting, CreateLayers, Launch, Goto,
         CheckLoop, WakeUp, Interrupted, Sweep, LoseSweep, Finish, BeginScan, LeaveScan, TypeOK
    <2>2. CASE MainThread \/ Environment \/ Stopped \/ UNCHANGED vars
      BY <2>2 DEF MainThread, CancelTask, JoinTask, Environment, WriteProduct, RemoveProduct,
         PutFile, NewData, Edit, Tick, BeginShutdown, Stopped, vars, TypeOK
    <2>3. QED
      BY <2>1, <2>2 DEF Next
  <1> USE <1>0
  <1> USE DEF Goto, environment, scan
  <1>1. CASE ~Scanning'
    BY <1>1 DEF VisitedCovered, Visited
  <1>2. CASE Boot \/ WakeUp
    BY <1>2, FilesAssumption DEF Boot, WakeUp, BeginScan, Finish, VisitedCovered, Visited, Scanning
  <1>3. CASE EndScan
    BY <1>3, NothingVisited DEF EndScan, Visited, Scanning
  <1>4. CASE \E c \in Customers : EnterCustomer(c)
    <2>1. PICK c \in Customers : EnterCustomer(c)
      BY <1>4
    <2>2. \A f \in Files : Visited(f)' => Visited(f)
      BY <2>1 DEF EnterCustomer, Visited, Scanning, ScanShape
    <2>3. QED
      BY <2>1, <2>2, NothingVisited DEF EnterCustomer
  <1>5. CASE LeaveCustomer
    <2>1. CASE files = {}
      BY <1>5, <2>1, NothingVisited DEF LeaveCustomer, Visited, Scanning, TypeOK
    <2>2. CASE files # {}
      <3>1. lost' = lost \cup files /\ UNCHANGED <<disk, layers, seen, fresh, todo, work>>
        BY <1>5, <2>2 DEF LeaveCustomer
      <3>2. \A f \in Files \ lost' : Visited(f)' => Visited(f)
        BY <1>5, <3>1 DEF LeaveCustomer, Visited, Scanning
      <3>3. QED
        BY <3>1, <3>2 DEF VisitedCovered, Steady, Covered, Published
    <2>3. QED
      BY <2>1, <2>2
  <1>6. CASE \E f \in Files : SkipFile(f)
    <2>1. PICK g \in Files : SkipFile(g)
      BY <1>6
    <2>2. \A f \in Files : Visited(f)' => Visited(f) \/ f = g
      BY <2>1 DEF SkipFile, Visiting, Visited, Scanning
    <2>3. g \in Ignored \/ ~Steady(g)'
      BY <2>1 DEF SkipFile, Steady
    <2>4. UNCHANGED <<disk, layers, seen, fresh, lost>>
      BY <2>1 DEF SkipFile, Visiting
    <2>5. QED
      BY <2>2, <2>3, <2>4 DEF VisitedCovered, Steady, Covered, Published
  <1>7. CASE \E f \in Files : DropFile(f)
    <2>1. PICK g \in Files : DropFile(g)
      BY <1>7
    <2>2. \A f \in Files : Visited(f)' => Visited(f) \/ f = g
      BY <2>1 DEF DropFile, Visiting, Visited, Scanning
    <2>3. UNCHANGED <<disk, layers, seen, fresh>> /\ lost' = lost \cup {g}
      BY <2>1 DEF DropFile, Visiting
    <2>4. QED
      BY <2>2, <2>3 DEF VisitedCovered, Steady, Covered, Published
  <1>8. CASE \E f \in Files : ReadProduct(f)
    <2>1. PICK g \in Files : ReadProduct(g)
      BY <1>8
    <2>2. work' # NoWork /\ work'.file = g
      <3>1. work' \in Work
        BY <2>1 DEF ReadProduct, Work, TypeOK
      <3>2. QED
        BY <2>1, <3>1, NoneAssumption DEF ReadProduct
    <2>3. work = NoWork /\ Scanning
      BY <2>1 DEF ReadProduct, Visiting, Working, Scanning
    <2>4. \A f \in Files : Visited(f)' => Visited(f)
      BY <2>1, <2>2, <2>3 DEF ReadProduct, Visiting, Visited
    <2>5. QED
      BY <2>1, <2>4, NothingVisited DEF ReadProduct, Visiting
  <1>9. CASE \E f \in Files : KeepLayer(f)
    <2>1. PICK g \in Files : KeepLayer(g)
      BY <1>9
    <2>2. UNCHANGED <<disk, layers, seen, lost, shutdown>>
      BY <2>1 DEF KeepLayer, Visiting
    <2>3. \A f \in Files : Visited(f)' => Visited(f) \/ f = g
      BY <2>1 DEF KeepLayer, Visiting, Visited, Scanning
    <2> DEFINE l == layers[FullName[g]]
    <2>4. /\ l # NoLayer
          /\ l.version.product.kind = "postgis"
          /\ FullName[g] \in Names
          /\ fresh' = Insert(fresh, {FullName[g]}, l)
      BY <2>1, KeepLayerStep, NoneAssumption
    <2>5. \A n \in Names : fresh[n] # NoLayer => fresh'[n] # NoLayer
      BY <2>4 DEF Insert
    <2>6. Covered(g)'
      <3>1. fresh'[FullName[g]] # NoLayer
        BY <2>4 DEF Insert
      <3>2. QED
        BY <2>2, <2>4, <3>1 DEF Covered, Published
    <2>7. QED
      <3> SUFFICES ASSUME NEW f \in Files \ (Ignored \cup lost), Visited(f), Steady(f)
                   PROVE  Covered(f)'
        BY <2>2, <2>3, <2>6 DEF VisitedCovered, Steady
      <3>1. Covered(f)
        BY DEF VisitedCovered
      <3>2. QED
        BY <2>2, <2>5, <3>1, StaysCovered
  <1>10. CASE CreateLayers
    <2> DEFINE l == [file |-> work.file, version |-> work.version, built |-> now]
    <2>1. PICK made \in SUBSET work.version.product.names :
             /\ fresh' = Insert(fresh, made, l)
             /\ IF made = work.version.product.names
                THEN lost' = lost
                ELSE lost' = lost \cup {work.file}
      BY <1>10 DEF CreateLayers, NamesOf
    <2>2. UNCHANGED <<disk, layers, seen, shutdown, todo, files>> /\ work' = NoWork
      BY <1>10 DEF CreateLayers
    <2>3. work \in Work /\ work # NoWork /\ Scanning
      BY <1>10 DEF CreateLayers, Working, TypeOK, Scanning
    <2>4. l # NoLayer
      BY <2>3, NoneAssumption DEF Layer, Work, TypeOK
    <2>5. \A n \in Names : fresh[n] # NoLayer => fresh'[n] # NoLayer
      BY <2>1, <2>4, InsertGrows
    <2>6. \A f \in Files : Visited(f)' => Visited(f) \/ f = work.file
      BY <2>2, <2>3 DEF Visited
    <2>7. ASSUME NEW g \in Files \ lost', g = work.file, Steady(g)
          PROVE  Covered(g)'
      <3>1. made = work.version.product.names
        BY <2>1, <2>7
      <3>2. work.version = disk[g]
        BY <2>3, <2>7 DEF SeenWork, Steady
      <3>3. made \subseteq Names
        BY <2>3, ProductTypes, <3>1 DEF Work, Version
      <3>4. \A n \in made : fresh'[n] # NoLayer
        BY <2>1, <2>4, <3>3 DEF Insert
      <3>5. QED
        BY <2>2, <3>1, <3>2, <3>4 DEF Covered
    <2>8. QED
      <3> SUFFICES ASSUME NEW f \in Files \ (Ignored \cup lost'), Visited(f), Steady(f)
                   PROVE  Covered(f)'
        <4> SUFFICES ASSUME NEW f \in Files \ (Ignored \cup lost'), Visited(f)', Steady(f)'
                     PROVE  Covered(f)'
          BY DEF VisitedCovered
        <4>1. Steady(f)
          BY <2>2 DEF Steady
        <4>2. QED
          BY <2>6, <2>7, <4>1
      <3>1. Covered(f)
        BY <2>1 DEF VisitedCovered
      <3>2. QED
        BY <2>2, <2>5, <3>1, StaysCovered
  <1>11. CASE \E f \in Files : \E v \in Version \cup {NoFile} : PutFile(f, v)
    <2>1. PICK g \in Files, v \in Version \cup {NoFile} : PutFile(g, v)
      BY <1>11
    <2>2. UNCHANGED <<pc, todo, files, work, fresh, lost, layers>>
      BY <2>1 DEF PutFile, Edit
    <2>3. \A f \in Files : Steady(f)' => Steady(f) /\ disk'[f] = disk[f]
      BY <2>1 DEF PutFile, Steady, SeenOnDisk, TypeOK
    <2>4. QED
      BY <2>2, <2>3 DEF VisitedCovered, Visited, Scanning, Covered, Published
  <1>12. CASE NewData \/ Tick \/ MainThread \/ Stopped \/ UNCHANGED vars
    <2>1. UNCHANGED <<disk, layers, seen, fresh, lost, pc, todo, files, work>>
      BY <1>12 DEF NewData, Edit, Tick, MainThread, CancelTask, JoinTask, Stopped, vars
    <2>2. QED
      BY <2>1 DEF VisitedCovered, Visited, Scanning, Steady, Covered, Published
  <1>13. CASE Store \/ LoseScan \/ Launch \/ CheckLoop \/ Interrupted \/ Sweep \/ LoseSweep
    BY <1>13, <1>1 DEF Store, LoseScan, LeaveScan, AfterScan, Launch, CheckLoop, Interrupted,
       Sweep, LoseSweep, Finish, Scanning
  <1>14. CASE BeginShutdown
    BY <1>14 DEF BeginShutdown
  <1>15. CASE Environment
    <2>1. \A p \in Products : [product |-> p, mtime |-> now] \in Version
      BY DEF TypeOK, Version
    <2>2. QED
      BY <1>11, <1>12, <1>14, <1>15, <2>1 DEF Environment, WriteProduct, RemoveProduct
  <1>16. QED
    BY <1>2, <1>3, <1>4, <1>5, <1>6, <1>7, <1>8, <1>9, <1>10, <1>12, <1>13, <1>15
       DEF Next, UpdateThread

(* A map stored by an undisturbed scan has the layers of every product     *)
(* file, but for the variants of a file under whose own name a PostGIS     *)
(* layer was reused (updateLayerMetaDataForCustomerLayer).                 *)
THEOREM Completeness == Spec => []CompleteMap
  <1>1. Init => ScanShape /\ VisitedCovered
    BY DEF Init, ScanShape, VisitedCovered, Visited, Scanning
  <1>2. TypeOK /\ Working /\ History /\ ScanShape /\ VisitedCovered /\ [Next]_vars
           => (ScanShape /\ VisitedCovered)'
    BY ScanShapeInduction, CoveredInduction DEF History
  <1>3. Working /\ ScanShape /\ VisitedCovered => CompleteMap
    BY FilesAssumption DEF ScanShape, VisitedCovered, Working, CompleteMap, Visited, Scanning
  <1>4. QED
    BY <1>1, <1>2, <1>3, TypeCorrect, HistoryCorrect, PTL DEF Spec

=============================================================================
