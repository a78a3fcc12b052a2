--------------------------- MODULE LayerRegistry ---------------------------
(***************************************************************************)
(* The WMS layer registry: Config::itsLayers, the map from layer names to  *)
(* layers that every WMS, WMTS and Tiles request reads, and the thread     *)
(* that rebuilds it from the product files under <root>/customers.         *)
(*                                                                         *)
(* One scan (updateLayerMetaData) walks the customers, and in each the     *)
(* product files, collects the layers in a new map and stores that map in  *)
(* one atomic step.  Product files are written and removed, and the        *)
(* database and the file system fail, at any moment of a scan.             *)
(*                                                                         *)
(* Only the updating thread stores itsLayers, so `mylayers', which a scan  *)
(* loads when it begins, equals `layers' until the scan stores: the model  *)
(* reads `layers' for it.                                                  *)
(***************************************************************************)
EXTENDS Integers, FiniteSets

CONSTANTS
    Files,            \* paths below the customers' product directories
    Ignored,          \* those that looks_valid_filename rejects
    Customers,        \* directories below <root>/customers
    CustomerOf,       \* the customer whose directory holds a file
    Names,            \* layer names
    FullName,         \* namespace:stem, the name a file has by its path
    Products,         \* the contents a product file may have
    Interval,         \* metaDataUpdateInterval, in clock ticks
    UpdatesDisabled,  \* wms.get_capabilities.disable_updates
    MaxTime,          \* bound on the clock
    MaxEdits,         \* bound on the changes to product files and querydata
    MaxFaults,        \* bound on the failures of the file system and database
    NoFile,           \* the file does not exist
    NoLayer,          \* the name is not in the map
    NoWork            \* no product file is being made into layers

Kinds == {"map", "query", "postgis"}

ASSUME FilesAssumption ==
    /\ Ignored \subseteq Files
    /\ CustomerOf \in [Files -> Customers]
    /\ FullName \in [Files -> Names]

ASSUME ProductsAssumption ==
    Products \subseteq [names : SUBSET Names, kind : Kinds]

ASSUME BoundsAssumption ==
    /\ Interval \in Nat
    /\ MaxTime \in Nat
    /\ MaxEdits \in Nat
    /\ MaxFaults \in Nat
    /\ UpdatesDisabled \in BOOLEAN

(***************************************************************************)
(* A product file's version is what it holds and when it was written.  A   *)
(* product without layer names is one that does not parse; with several it *)
(* defines variants.  A layer remembers the version it was made from and   *)
(* the time of its metadata (metadataTimestamp).                           *)
(***************************************************************************)
Version == [product : Products, mtime : Nat]

Layer == [file : Files, version : Version, built : Nat]

Work == [file : Files, version : Version]

ASSUME NoneAssumption ==
    /\ NoFile \notin Version
    /\ NoLayer \notin Layer
    /\ NoWork \notin Work

VARIABLES
    disk,      \* the product files
    data,      \* modification time of the newest querydata
    now,       \* the clock, in seconds
    shutdown,  \* Reactor::isShuttingDown()
    layers,    \* itsLayers, the published map
    capTime,   \* itsCapabilitiesModificationTime
    pc,        \* where the updating thread is
    booted,    \* Config::init has started the update loop
    todo,      \* customers the scan has not come to yet
    files,     \* files of the current customer not visited yet
    work,      \* the product file in LayerFactory::createLayers
    fresh,     \* newProxies, the map under construction
    main,      \* where the thread that calls Config::shutdown is
    edits,     \* changes so far
    faults,    \* failures so far
    seen,      \* history: versions of each file since the last publication
    lost,      \* history: files met by a failure in this scan
    began      \* history: when the scan began

environment == <<disk, data, now, edits>>
scan == <<todo, files, work, fresh, lost, began>>
vars == <<disk, data, now, shutdown, layers, capTime, pc, booted, todo, files,
          work, fresh, main, edits, faults, seen, lost, began>>

Latest(a, b) == IF a < b THEN b ELSE a

EmptyMap == [n \in Names |-> NoLayer]

TypeOK ==
    /\ disk \in [Files -> Version \cup {NoFile}]
    /\ data \in Nat
    /\ now \in Nat
    /\ shutdown \in BOOLEAN
    /\ layers \in [Names -> Layer \cup {NoLayer}]
    /\ capTime \in Nat
    /\ pc \in {"boot", "scan", "walk", "create", "store", "launch",
               "check", "sleep", "sweep", "done"}
    /\ booted \in BOOLEAN
    /\ todo \in SUBSET Customers
    /\ files \in SUBSET Files
    /\ work \in Work \cup {NoWork}
    /\ fresh \in [Names -> Layer \cup {NoLayer}]
    /\ main \in {"up", "joining", "down"}
    /\ edits \in Nat
    /\ faults \in Nat
    /\ seen \in [Files -> SUBSET (Version \cup {NoFile})]
    /\ lost \in SUBSET Files
    /\ began \in Nat

Init ==
    /\ disk \in [Files -> [product : Products, mtime : {0}] \cup {NoFile}]
    /\ data = 0
    /\ now = 0
    /\ shutdown = FALSE
    /\ layers = EmptyMap
    /\ capTime = 0
    /\ pc = "boot"
    /\ booted = FALSE
    /\ todo = {}
    /\ files = {}
    /\ work = NoWork
    /\ fresh = EmptyMap
    /\ main = "up"
    /\ edits = 0
    /\ faults = 0
    /\ seen = [f \in Files |-> {disk[f]}]
    /\ lost = {}
    /\ began = 0

-----------------------------------------------------------------------------
(***************************************************************************)
(* The environment: product files, querydata, the clock, the reactor.      *)
(***************************************************************************)

Edit ==
    /\ edits < MaxEdits
    /\ edits' = edits + 1
    /\ UNCHANGED <<now, shutdown, layers, capTime, pc, booted, main, faults>>
    /\ UNCHANGED scan

PutFile(f, v) ==
    /\ Edit
    /\ disk' = [disk EXCEPT ![f] = v]
    /\ seen' = [seen EXCEPT ![f] = @ \cup {v}]
    /\ UNCHANGED data

WriteProduct(f, p) == PutFile(f, [product |-> p, mtime |-> now])

RemoveProduct(f) == disk[f] # NoFile /\ PutFile(f, NoFile)

NewData ==
    /\ Edit
    /\ data' = now
    /\ UNCHANGED <<disk, seen>>

Tick ==
    /\ now < MaxTime
    /\ now' = now + 1
    /\ UNCHANGED <<disk, data, edits, shutdown, layers, capTime, pc, booted, main, faults, seen>>
    /\ UNCHANGED scan

BeginShutdown ==
    /\ ~shutdown
    /\ shutdown' = TRUE
    /\ UNCHANGED <<layers, capTime, pc, booted, main, faults, seen>>
    /\ UNCHANGED environment /\ UNCHANGED scan

(* Config::shutdown cancels the task, waits for it and resets it. *)
CancelTask ==
    /\ shutdown
    /\ main = "up"
    /\ booted \/ pc = "done"
    /\ main' = "joining"
    /\ UNCHANGED <<shutdown, layers, capTime, pc, booted, faults, seen>>
    /\ UNCHANGED environment /\ UNCHANGED scan

JoinTask ==
    /\ main = "joining"
    /\ pc = "done"
    /\ main' = "down"
    /\ UNCHANGED <<shutdown, layers, capTime, pc, booted, faults, seen>>
    /\ UNCHANGED environment /\ UNCHANGED scan

-----------------------------------------------------------------------------
(***************************************************************************)
(* The scan.                                                               *)
(***************************************************************************)

Goto(l) ==
    /\ pc' = l
    /\ UNCHANGED <<shutdown, main>>
    /\ UNCHANGED environment

(* The statement after updateLayerMetaData() in its caller. *)
AfterScan == IF booted THEN "sweep" ELSE "launch"

BeginScan ==
    /\ todo' = Customers
    /\ fresh' = EmptyMap
    /\ lost' = {}
    /\ began' = now
    /\ UNCHANGED <<layers, capTime, booted, files, work, faults, seen>>
    /\ Goto("scan")

Finish ==
    /\ Goto("done")
    /\ UNCHANGED <<layers, capTime, booted, faults, seen>>
    /\ UNCHANGED scan

Boot ==
    /\ pc = "boot"
    /\ IF shutdown THEN Finish ELSE BeginScan

(* updateLayerMetaData returns or throws: its local variables are gone. *)
LeaveScan(l) ==
    /\ Goto(l)
    /\ todo' = {}
    /\ fresh' = EmptyMap
    /\ lost' = {}
    /\ began' = 0
    /\ UNCHANGED <<capTime, booted, files, work>>

EnterCustomer(c) ==
    /\ pc = "scan"
    /\ c \in todo
    /\ IF shutdown
       THEN LeaveScan(AfterScan) /\ UNCHANGED <<layers, faults, seen>>
       ELSE /\ todo' = todo \ {c}
            /\ files' = {f \in Files : CustomerOf[f] = c}
            /\ Goto("walk")
            /\ UNCHANGED <<layers, capTime, booted, work, fresh, faults, seen, lost, began>>

Fail == faults < MaxFaults /\ faults' = faults + 1

(* The directory of the customers can't be read: init fails, the loop goes on. *)
LoseScan ==
    /\ pc = "scan"
    /\ Fail
    /\ LeaveScan(IF booted THEN "check" ELSE "done")
    /\ UNCHANGED <<layers, seen>>

(* Faulty: the exception of one customer ends the scan of all of them. *)
LeaveCustomerAborting ==
    /\ pc = "walk"
    /\ \/ files = {} /\ Goto("scan") /\ UNCHANGED <<faults, lost>>
       \/ Fail /\ Goto("store") /\ lost' = lost \cup files
    /\ files' = {}
    /\ UNCHANGED <<layers, capTime, booted, todo, work, fresh, seen, began>>

(* Leaves the files not visited behind: at the end of the directory, when  *)
(* the reactor is shutting down, and when the directory iterator throws.   *)
LeaveCustomer ==
    /\ pc = "walk"
    /\ \/ files = {} /\ UNCHANGED <<faults, lost>>
       \/ files # {} /\ shutdown /\ UNCHANGED <<faults, lost>>
       \/ Fail /\ lost' = lost \cup files
    /\ files' = {}
    /\ Goto("scan")
    /\ UNCHANGED <<layers, capTime, booted, todo, work, fresh, seen, began>>

Visiting(f) ==
    /\ pc = "walk"
    /\ ~shutdown
    /\ f \in files
    /\ files' = files \ {f}
    /\ UNCHANGED <<layers, capTime, booted, todo, seen, began>>

SkipFile(f) ==
    /\ f \in Ignored \/ disk[f] = NoFile
    /\ Visiting(f)
    /\ Goto("walk")
    /\ UNCHANGED <<work, fresh, faults, lost>>

(* Faulty: a layer of exactly the interval's age is not expired. *)
ExpiredLate(l) == l.version.product.kind # "map" /\ now - l.built > Interval

(* Only MapLayer leaves metadataTimestamp unset. *)
Expired(l) == l.version.product.kind # "map" /\ now - l.built >= Interval

(* Faulty: layers of every kind may be kept. *)
MayKeepAny(l) == l.version.product.kind = "map" \/ ~Expired(l)

(* mustUpdateLayerMetaData() is TRUE for all kinds but PostGISLayer, whose *)
(* answer is the database's or, without a time dimension, FALSE: a layer   *)
(* of that kind may be kept, and any layer may be made anew.               *)
MayKeep(l) == ~Expired(l) /\ l.version.product.kind = "postgis"

Published(f) == layers[FullName[f]]

(* map::insert keeps what is there *)
Insert(map, ns, l) == [n \in Names |-> IF n \in ns /\ map[n] = NoLayer THEN l ELSE map[n]]

KeepLayer(f) ==
    /\ disk[f] # NoFile /\ f \notin Ignored
    /\ Published(f) # NoLayer
    /\ MayKeep(Published(f))
    /\ Visiting(f)
    /\ fresh' = Insert(fresh, {FullName[f]}, Published(f))
    /\ Goto("walk")
    /\ UNCHANGED <<work, faults, lost>>

(* Faulty: a file that vanished since the directory was read is made a layer. *)
ReadProductUnchecked(f) ==
    /\ f \notin Ignored
    /\ Visiting(f)
    /\ work' = [file |-> f, version |-> disk[f]]
    /\ Goto("create")
    /\ UNCHANGED <<fresh, faults, lost>>

ReadProduct(f) ==
    /\ disk[f] # NoFile /\ f \notin Ignored
    /\ Visiting(f)
    /\ work' = [file |-> f, version |-> disk[f]]
    /\ Goto("create")
    /\ UNCHANGED <<fresh, faults, lost>>

(* mustUpdateLayerMetaData() throws: the database does not answer. *)
DropFile(f) ==
    /\ disk[f] # NoFile /\ f \notin Ignored
    /\ Published(f) # NoLayer
    /\ MayKeep(Published(f))
    /\ Fail
    /\ Visiting(f)
    /\ lost' = lost \cup {f}
    /\ Goto("walk")
    /\ UNCHANGED <<work, fresh>>

(* Layer::modificationTime() of the layers just made.  The product file's  *)
(* time is taken after the file was read, so a later write shows.          *)
FileTime(f) == IF disk[f] = NoFile THEN 0 ELSE disk[f].mtime

ModificationTime(w) ==
    CASE w.version.product.kind = "map" -> 0
      [] w.version.product.kind = "postgis" -> FileTime(w.file)
      [] w.version.product.kind = "query" -> Latest(data, FileTime(w.file))

(* Faulty: layers are inserted under the name made of the file's path. *)
NamesByPath(w, made) == {FullName[w.file] : n \in made}

(* newlayer->getName(), which the JSON or the variant has given *)
NamesOf(w, made) == made

(* createLayers returns the layers whose metadata could be had; each one   *)
(* moves the capabilities time, and is inserted under its own name.        *)
CreateLayers ==
    /\ pc = "create"
    /\ \E made \in SUBSET work.version.product.names :
          /\ IF made = work.version.product.names
             THEN UNCHANGED <<faults, lost>>
             ELSE Fail /\ lost' = lost \cup {work.file}
          /\ capTime' = IF made = {} THEN capTime ELSE Latest(capTime, ModificationTime(work))
          /\ fresh' = Insert(fresh, NamesOf(work, made),
                             [file |-> work.file, version |-> work.version, built |-> now])
    /\ work' = NoWork
    /\ Goto("walk")
    /\ UNCHANGED <<layers, booted, todo, files, seen, began>>

EndScan ==
    /\ pc = "scan"
    /\ todo = {}
    /\ Goto("store")
    /\ UNCHANGED <<layers, capTime, booted, faults, seen>>
    /\ UNCHANGED scan

Store ==
    /\ pc = "store"
    /\ layers' = fresh
    /\ seen' = [f \in Files |-> {disk[f]}]
    /\ LeaveScan(AfterScan)
    /\ UNCHANGED faults

-----------------------------------------------------------------------------
(***************************************************************************)
(* Around the scans: init and capabilitiesUpdateLoop.                      *)
(***************************************************************************)

Launch ==
    /\ pc = "launch"
    /\ IF shutdown \/ UpdatesDisabled
       THEN Finish
       ELSE /\ booted' = TRUE
            /\ Goto("check")
            /\ UNCHANGED <<layers, capTime, faults, seen>>
            /\ UNCHANGED scan

(* Faulty: the loop does not look at the reactor. *)
CheckLoopForever ==
    /\ pc = "check"
    /\ Goto("sleep")
    /\ UNCHANGED <<layers, capTime, booted, faults, seen>>
    /\ UNCHANGED scan

CheckLoop ==
    /\ pc = "check"
    /\ IF shutdown
       THEN Finish
       ELSE /\ Goto("sleep")
            /\ UNCHANGED <<layers, capTime, booted, faults, seen>>
            /\ UNCHANGED scan

WakeUp == pc = "sleep" /\ BeginScan

(* cancel() interrupts the sleep; the catch (...) of the loop swallows it. *)
Interrupted ==
    /\ pc = "sleep"
    /\ main = "joining"
    /\ Goto("check")
    /\ UNCHANGED <<layers, capTime, booted, faults, seen>>
    /\ UNCHANGED scan

(* Faulty: the directory tree is not descended into. *)
LookedAtTop == {{}}

(* check_modification_time looks at every file under the root, and stops   *)
(* early when the reactor is shutting down.                                *)
LookedAt == IF shutdown THEN SUBSET Files ELSE {Files}

(* updateModificationTime *)
Sweep ==
    /\ pc = "sweep"
    /\ \E looked \in LookedAt :
          LET times == {capTime} \cup {FileTime(f) : f \in looked} IN
          /\ capTime' \in times
          /\ \A t \in times : t <= capTime'
    /\ Goto("check")
    /\ UNCHANGED <<layers, booted, faults, seen>>
    /\ UNCHANGED scan

(* Faulty: the exception leaves the loop. *)
LoseSweepAndLoop ==
    /\ pc = "sweep"
    /\ Fail
    /\ Goto("done")
    /\ UNCHANGED <<layers, capTime, booted, seen>>
    /\ UNCHANGED scan

(* A directory can't be read: what was found so far is lost with max_time, *)
(* and the catch (...) of the loop lets it go on.                          *)
LoseSweep ==
    /\ pc = "sweep"
    /\ Fail
    /\ Goto("check")
    /\ UNCHANGED <<layers, capTime, booted, seen>>
    /\ UNCHANGED scan

-----------------------------------------------------------------------------
UpdateThread ==
    \/ Boot \/ EndScan \/ Store \/ LoseScan
    \/ \E c \in Customers : EnterCustomer(c)
    \/ LeaveCustomer
    \/ \E f \in Files : SkipFile(f) \/ KeepLayer(f) \/ ReadProduct(f) \/ DropFile(f)
    \/ CreateLayers
    \/ Launch \/ CheckLoop \/ WakeUp \/ Interrupted \/ Sweep \/ LoseSweep

MainThread == CancelTask \/ JoinTask

Environment ==
    \/ \E f \in Files : \E p \in Products : WriteProduct(f, p)
    \/ \E f \in Files : RemoveProduct(f)
    \/ NewData \/ Tick \/ BeginShutdown

(* The plugin has been shut down and may stop. *)
Stopped == main = "down" /\ UNCHANGED vars

Next == UpdateThread \/ MainThread \/ Environment \/ Stopped

Spec == Init /\ [][Next]_vars

(* Both threads run; nothing makes the environment act. *)
FairSpec == Spec /\ WF_vars(UpdateThread) /\ WF_vars(MainThread)

-----------------------------------------------------------------------------
(***************************************************************************)
(* Properties.                                                             *)
(***************************************************************************)

(* A layer the scan collects was made in this scan, or it is the published *)
(* layer of that name and its metadata had not expired when the scan began *)
(* (updateLayerMetaDataForCustomerLayer: a proxy is reused only until      *)
(* metaDataUpdateInterval).  So a removed or edited product can outlive    *)
(* its file only by that interval.                                         *)
StalenessBound ==
    \A n \in Names : fresh[n] # NoLayer =>
        \/ fresh[n].built >= began
        \/ fresh[n] = layers[n] /\ fresh[n].built + Interval > began

(* The file has been there, the same, since the last publication. *)
Steady(f) == seen[f] = {disk[f]} /\ disk[f] # NoFile

Covered(f) ==
    \/ \A n \in disk[f].product.names : fresh[n] # NoLayer
    \/ /\ Published(f) # NoLayer
       /\ Published(f).version.product.kind = "postgis"
       /\ fresh[FullName[f]] # NoLayer

(* The map that is about to be stored, when no shutdown cut the scan       *)
(* short, has every layer of every product file that stayed the same since *)
(* the last publication and met no failure.  The one exception is a file   *)
(* under whose own name a PostGIS layer is published: when that layer is   *)
(* reused the file's other variants are not made, and they disappear.      *)
CompleteMap ==
    pc = "store" /\ ~shutdown =>
        \A f \in Files \ (Ignored \cup lost) : Steady(f) => Covered(f)

(* A published layer is found under a name its product defines, although   *)
(* the name a reused layer is inserted under is computed from the path of  *)
(* a file that need not be its own.                                        *)
OwnNames ==
    \A n \in Names : layers[n] # NoLayer => n \in layers[n].version.product.names

(* After a sweep no published layer whose product is still on disk is      *)
(* newer than the capabilities time, by which responses are cached, unless *)
(* the sweep failed or shutdown cut it short.                              *)
SweepCovers ==
    [][pc = "sweep" /\ pc' = "check" /\ ~shutdown /\ faults' = faults =>
          \A n \in Names :
             layers[n] # NoLayer /\ disk[layers[n].file] = layers[n].version =>
                 layers[n].version.mtime <= capTime']_vars

(* The registry implements the catalogue: requests see a published map     *)
(* change only by AtomicSharedPtr::store of a map made in one scan.  The   *)
(* scan, the thread, the capabilities time and the shutdown stay inside.   *)
Catalog == INSTANCE Catalogue WITH disk <- disk, layers <- layers, seen <- seen

ImplementsCatalogue == Catalog!Spec

(* Config::shutdown() returns: the update loop ends once the reactor is    *)
(* shutting down, although its catch (...) swallows the interruption that  *)
(* cancel() sends.                                                         *)
ShutdownCompletes == shutdown ~> main = "down"

(* A product file that stays as it is comes to be published, in spite of a *)
(* bounded number of failures and whatever happens to the other files:     *)
(* under each of its names there is its layer or another file's.           *)
Shown(f, v) ==
    \A n \in v.product.names :
        layers[n] # NoLayer /\ (layers[n].file = f => layers[n].version = v)

EditsArePublished ==
    \A f \in Files \ Ignored :
        \A v \in [product : Products, mtime : 0 .. MaxTime] :
            <>[](disk[f] = v /\ ~shutdown /\ booted) => <>[]Shown(f, v)

(* The capabilities time comes to cover a product file that stays as it    *)
(* is, though scans and sweeps may fail a bounded number of times and the  *)
(* scan of a map product does not move the time: documents made before the *)
(* edit are not taken for current ones any more.                           *)
EditsMoveTheTime ==
    \A f \in Files :
        \A v \in [product : Products, mtime : 0 .. MaxTime] :
            <>[](disk[f] = v /\ ~shutdown /\ booted) => <>[](v.mtime <= capTime)

=============================================================================
