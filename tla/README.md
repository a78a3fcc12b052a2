# A formal model of the SmartMet WMS plugin

TLA+ modules, TLC configurations and TLAPS proofs for the plugin in `src/`: a
server that draws weather maps and answers `/dali`, `/wms`, `/wmts` and `/tiles`
requests. Most of its 64 000 lines turn data into SVG. The modules are about the
rest: the state that outlives a request or is shared by the threads that answer
requests, the order in which it is read and written, and, for all of the drawing code,
what each function sets, hashes and reads: that decides whether a cached image is the
one that was asked for.

## The system

| Part | State | Operations | Who shares it |
|---|---|---|---|
| Layer registry, `wms/Config.cpp`, `ogc/*Layer.cpp` | `itsLayers` (an atomic pointer to the map from names to layers), `itsCapabilitiesModificationTime` | `init`, the loop of the `upd-wms-caps` thread (scan, sweep), `shutdown`; some fifteen lookups | one writing thread; every request thread of `/wms`, `/wmts` and `/tiles` reads |
| GetCapabilities cache, `wms/Handler.cpp` | `itsCapabilitiesCache`, keyed by parameters, headers and apikey | `wmsGetCapabilitiesQuery` | request threads; validity depends on the registry's capabilities time |
| Product answers and image cache, `Plugin.cpp`, `Product.cpp`, the `generateTile`s | `itsImageCache`, keyed by product or image hash | `daliQuery`, `wmsGenerateProduct`, `generateTile` (twice), `handleWmsException`, `formatResponse` | all request threads of all interfaces; querydata and files change meanwhile |
| State of a request, `State.cpp` | `itsQCache`, expiration and modification time, generated ids | `getModel`, `updateExpirationTime`, `makeQid`, ... | one request; tiles with dimensions make a second State |
| WMTS and Tiles handlers, `wmts/`, `tiles/` | `itsDimNamesCache` (WMTS) | dispatch, GetTile, documents | request threads, through a mutex |
| GetMap parameters, `wms/GetMap.cpp` | one request's | parse and validate | each check loads the registry anew |
| Resource files, `Plugin.cpp`, `StyleSheet.cpp`, `Markers.cpp`, ... | `itsFileCache`, `itsJsonCache`, `itsStyleSheetCache` | `getStyle`, `getColorMap`, `getFilterHash`, ... | request threads |
| Dimensions and hierarchy of layers, `ogc/` | immutable after a layer is made | valid and current times, the tree of names, what groups of layers declare | readers of the registry |
| Rendering layers, curves, labels, painters, encoders | one request's | `generate`, `hash_value` | nothing |
| Configuration, plugin entry | constant after start | constructor, `init`, `shutdown`, destructor | the server's main thread |

How they interact: `Plugin::requestHandler` runs in a thread of the server for each
request, makes a `State` and calls one handler. A handler reads the registry to check
names and to find the product file, makes a `Product` of its JSON, and then does what
`ProductCache` models. The update thread is the registry's only writer. The engines
(querydata, observations, geography) and the file caches live in other packages; they
appear as external changes.

What is hard, and where: the scan reads files that are being written, while requests
read its previous result (interleaving, partial failure); a product is hashed before
it is made and stored afterwards (stale state); a cache answers many kinds of requests
under one key space (protocol); failures at any step end in different ways depending
on the interface (partial failure); the thread that must stop is woken by an exception
that a `catch (...)` swallows (liveness). `PROJECT.json` lists each hazard at its line
with the property that would catch it, or why none does.

What makes each part correct:

- registry: readers see one whole map per scan, made of versions the product files had
  since the last one; nothing steady is lost; a reused layer is not too old; the
  capabilities time covers what is published; shutdown ends, edits get published;
- capabilities: an answer is the asker's own document, and not older than the TTL or
  than the version asked under;
- products: an answer is of the product asked and of the data hashed, whichever
  interface made it; what has no hash is not cached; failures are errors;
- hashes: the hash of a product names everything its image depends on;
- requests for layers: what a layer has all the time is answered, what it never had is
  not, and the time looked up was current at some moment, although each check reads
  another map; values in a path keep the meaning the capabilities gave them;
- layer hierarchy: a client that reads a document as WMS says, with inheritance, reads
  of each layer what the layer has.

## The modules

### LayerRegistry, Catalogue

`LayerRegistry` is `Config::init`, `capabilitiesUpdateLoop`, `updateLayerMetaData`,
`updateModificationTime` and `shutdown`, one action per step between which something
else may happen:

| Code | Action |
|---|---|
| `init`, its `isShuttingDown` checks, start of the task | `Boot`, `Launch` |
| `updateLayerMetaData`: load, loop over customers, `catch` | `BeginScan`, `EnterCustomer`, `LeaveCustomer`, `LoseScan`, `EndScan` |
| `updateLayerMetaDataForCustomerLayer` | `SkipFile`, `KeepLayer`, `ReadProduct`, `DropFile` |
| `LayerFactory::createLayers`, `update_capabilities_modification_time`, insertion | `CreateLayers` |
| `itsLayers.store` | `Store` |
| loop, sleep, interruption, `updateModificationTime` | `CheckLoop`, `WakeUp`, `Interrupted`, `Sweep`, `LoseSweep` |
| `shutdown`: `cancel`, `wait` | `CancelTask`, `JoinTask` |

The environment writes and removes product files, brings querydata, lets time pass and
asks for shutdown at any step. A product is the set of names it defines (none: it does
not parse; several: variants) and its kind: `map` layers have no metadata time,
`query` layers take theirs from the newest data, `postgis` layers may be kept. Reading
a file and making its layers are two steps: `createLayers` parses the file first and
asks its time afterwards. `seen`, `lost` and `began` are history variables.

A directory that cannot be read fails a scan (`LeaveCustomer`, `LoseScan`) and a sweep
(`LoseSweep`, `Config.cpp:90` and `1155`), and the loop goes on (`899`). What a failed sweep
had found is lost with it, so an edited `map` layer, which has no metadata time, may be
published and not covered by the capabilities time until a later sweep. `SweepCovers`
therefore speaks of sweeps that did not fail, and `EditsMoveTheTime` says that the time
comes to cover every file that stays as it is.

`Catalogue` is what the registry promises its readers: one atomic `Publish` whose
layers were made from versions seen since the last one, or kept where their kind
allows. `ImplementsCatalogue` says that `LayerRegistry` refines it (the state functions
are the same, the scan's steps stutter).

### CapabilitiesCache

`wmsGetCapabilitiesQuery` by several clients: `Ask` (key and version), `ReadClock`,
`Find`, `RenderDocument` or `RenderFails`, `Insert`, `Answer` (headers, ETag probe,
conditions). The registry is seen from outside: `Publish` changes the content,
`MoveVersion` the capabilities time, independently, since in `LayerRegistry` the time
moves during the scan as well as after it. Each client keeps its last document, so that
revalidation with `If-None-Match` can go on for ever. `shown` and `since` are history.

### ProductCache, ProductServer

One product request by any interface: `Ask`, `ComputeHash` (or `HashFailsInTile`),
`Revalidate`, `Find`, `Miss`, `Generate` (or `GenerateFailsInWms`), `Format`, and the
failures `RequestFails` and `ExceptionImage`. `front` tells the three ways through the
code apart: `dali` (`daliQuery`), `wms` (`wmsGenerateProduct`), `tile` (both
`generateTile`s). A hash is a record of what it was computed from, with two values
apart: `BadHash` (`Fmi::bad_hash`) and `FailedHash` (the initial 0). Querydata is pinned
by the request's State at hashing time; files are hashed by their modification time
and read again when the image is made.

`ProductServer` is what this promises the clients: a server that keeps no images, looks
at the data once for each request, and shows an image made for this very request, of
the querydata at that look and of files no older than then and no later than the answer
(`MadeFor`); it confirms a client's copy (304) only if that copy is such an image. In
the mapping of `ImplementsServer` the look is the moment of hashing (`DataHashed`), and
the steps of the cache, of generating and of evicting stutter (`Phase`). It says nothing
of products without a hash, which two of the findings are about, and takes an incomplete
image for an image, which is the third.

### ProductFields, PointLayerFields, GridLayerFields, MapLayerFields, ProductSettings

For each class of the product tree (33 layers and 51 kinds of objects in them) one
definition per function: `X_init` is the set of settings the function reads from JSON,
`X_hash_value` those it combines, `X_generate` those that it and the functions it calls
read, and the like for GeoTIFF, data tiles and vector tiles. Data count as settings:
`querydata` is the newest generation of the layer's producer, `x_file` the content of the
file that `x` names, `shapes`, `places` and `database` have no generation at all. The
parameter `source` tells where a layer has its data from, since what is hashed and read
differs. `ProductFields` has the product, its views and the objects, `PointLayerFields`
the layers of stations, symbols and numbers, `GridLayerFields` the contours and rasters,
`MapLayerFields` the maps, texts and databases.

`ProductSettings` composes them. A setting is a path from the product, and it is in the
hash when every class on the path hashes its field; a product has one layer of any class.

### ProductHash

Requests for a product come one after the other with other settings (`Change`), are
answered from the cache (`Find`) or drawn and kept (`Generate`), as in `ProductCache` but
with the content of the hash as parameters `Hashed` and `Read`, which `MCProductHash`
takes from `ProductSettings`. The settings that the code reads and does not hash are
listed in `MCProductHash`, by name, with the reason they are of (`UnhashedSettings`,
`UnhashedData`, `UnhashedFiles`, `Unversioned`), and an `ASSUME` says that none is listed
in vain. `WrongOnlyInGaps` says there are no others.

### LayerRequests

GetTile of WMTS and Tiles and GetMap of WMS, while the update thread publishes. A request
is the sequence of its calls to `WMS::Config`, `todo`, which `TileCalls` and `MapCalls`
make in the code's order; each step takes the head and loads the map that is current
then, twice where `isValidLayerImpl` is followed by `my_layers->at`:

| Code | Action |
|---|---|
| `isValidLayer`, `layerCustomer`, `json`, `wmsPreprocessJSON` | `isValidLayer`, `layerCustomer`, `json`, `init` |
| first load of the other lookups; a layer gone at the second | `isValidLayerImpl`, `at` |
| `isValidStyle`, `isValidCRS`, `isValidReferenceTime`, `isValidTime`, `isValidElevation` | `Check` |
| `getDefaultInterval`, `currentValue`; `isTemporal`; `mostCurrentTime` | `getDefaultInterval`, `LookAtTime`, `TakeCurrentTime` |
| `orderedDimensionNames`: lookup, collection outside the mutex, `try_emplace` | `FindDimNames`, `getLayer`, `StoreDimNames` |
| `updateLayerMetaData`, the clock | `Publish`, `Tick` |
| a client's GetCapabilities and requests | `GetCapabilities`, `Ask`, `AskByPath` |

Layers have runs (time steps of each reference time), levels and styles; observations are
valid until the clock. A value in a path is the name of what its client means by it, so
that `reply.given` shows which dimension it was taken for. The names come from two tests:
capabilities list any levels (`AdvertisedDimensions`, `Layer.cpp:2197`), while the handler
collects an elevation only if it `isOK` (`Layer.cpp:2049`). `dimsEver` has, of each version
the layer had, its `AdvertisedTimes` and whether its levels were `isOK`; `dimsEver`, `steady`,
`ever` and `current` are history. Left out: intervals that a request gives, coordinate systems
(always supported), `IntervalTimeDimension`'s own `mostCurrentTime`, and a TIME parameter
together with values in the path. The layers' current flag is always TRUE
(`TimeDimension.h:31`).

### LayerHierarchy

`add_layer_info`, `group_children` and `emit_group` as a walk over the tree of names:
`pending` holds the calls still to be made, each with what the code *holds* to be declared
above the node (`keys`, `crs`: `InheritedState`) and what *has been* declared there
(`declared`, `declaredCrs`: what a client inherits). `Leaf` and `Branch` are one call;
`GroupHeader` is the anonymous layer of a group. `ReadAsItIs` and its neighbours compare
what is read of a leaf with the layer itself.

The `flat` layout of the class is not in use: `Config::getCapabilities` lists flat
documents itself (`Config.cpp:1189`), each layer with all it has.

## The runs

| Run | Instance | Shows |
|---|---|---|
| `registry_scan` | two files of two customers that can define each other's names, two products, one edit, one failure, two clock values | `TypeOK`, `StalenessBound`, `CompleteMap`, `OwnNames`, `SweepCovers`, `ImplementsCatalogue` |
| `registry_live` | a file and its backup copy, a product that parses and one that does not, one edit, one failure | `ShutdownCompletes`, `EditsArePublished`, `EditsMoveTheTime`, under `FairSpec` |
| `capabilities_cache` | two clients, two apikeys, two contents, a cache of one entry, TTL 1, two versions | `TypeOK`, `BoundedStaleness`, `VersionFence`, `OwnDocument` |
| `product_images` | two clients, one image product by the WMS and as a tile, one new model, one touched file, one failure | `TypeOK`, `NeverStale`, `ImplementsServer` |
| `product_formats` | two clients; image, text, raw data and animation of products that share layers; one touched file | `OwnImage`, `ImplementsServer` |
| `product_hash` | every class of layer, source and output; two requests that differ in any one setting | `TypeOK`, `WrongOnlyInGaps` |
| `layer_requests` | two clients; a forecast that has one run with levels, two runs at level 0 alone, or is observed without levels, and a map without time; two publications or steps of the clock; four requests and tiles with dimensions in the path | `TypeOK`, `UndisturbedAnswered`, `AnswersWereAvailable`, `TimeWasCurrent`, `FixedDimensionsHonoured`, `NamesNeverReplaced` |
| `layer_hierarchy` | a namespace of three layers beside a layer, any of which may be missing, in each of six forms; both layouts, with a reference time and without | `TypeOK`, `ReadAsItIs`, `NoForeignProjection`, `ForeignOnlyByMajority`, `EachListedOnce` |
| `product_hash_failure` | two different tiles, two failures of hashing | violates `HashFailureDisablesCaching` |
| `product_observed` | raw data of observations by `/dali`, an image of them by `/wms` | violates `ObservationsNotCached` |
| `product_failures` | one image product, one failure | violates `FailuresAreErrors` |
| `product_hash_gaps` | as `product_hash` | violates `InlineStylesOverride` |

The bounds and why they are enough. `MaxTime`, `MaxVersion`, `MaxModel`, `MaxFile`:
every property compares an earlier value with a later one, so two values of each
suffice to be wrong, and the TTL and the metadata interval of 1 expire within them.
`MaxEdits` = 1: an edit may fall between any two steps of a scan, and any number of
scans follows. `MaxFaults` = 1: each property is about what one failure does to the
rest; two are needed only for two tiles to fail alike. Two clients: a hazard needs one
who stores and one who finds. One entry in the capabilities cache makes eviction
happen at once. `MaxChanged` = 1: a hash that tells requests apart in each single setting
tells them apart in any set of them, as the theorem shows for any bound. `MaxChanges` = 2:
one publication takes a layer away between two loads of the map and another brings it
back, or changes it again. In `layer_requests` a client that does not give dimensions in
the path changes nothing that others read, so the constraint `Alone` lets such a client
ask only while the other has not asked. `product_images` leaves out `/dali`, which for an
image does nothing that `/wms` does not do; `product_formats` has it for raw data. Three layers in a namespace make a majority and an
exception, and the layer beside it a second group. The proofs hold without any of these bounds. Clients are symmetric;
no liveness run uses symmetry. `layer_hierarchy` does not check for deadlock: a document
ends.

Fairness. `FairSpec` asks weak fairness of the update thread and of the thread that
calls `shutdown()`: both are threads of the process that the system schedules, and
each always either sleeps for a bounded time or has a next statement. The environment
has none: nobody need edit a file, fail or shut down. `EditsArePublished` and
`EditsMoveTheTime` assume that the number of failures is bounded, and that the loop was
started and is not shut down.

Four runs end in a violation; each holds a sentence of the repository against the code.

- *"non-fatal: hash failure disables caching"* (`wmts/Handler.cpp:739`,
  `tiles/Handler.cpp:1293`). After the swallowed exception `product_hash` is 0, and only
  `Fmi::bad_hash` disables caching: all tiles whose hash failed share one entry.
- *"Disable caching of observation layers"* (`NumberLayer.cpp:1058`). `daliQuery` inserts
  raw data under `bad_hash`, and all handlers look up without regard to it.
- *"If the request processing fails ... returns an HTTP error message"* (`README.md:79`).
  `wmsGenerateProduct` prints an exception of `generate` and goes on: status 200, with an
  `Expires` header, and stored in the cache under the product's hash.
- *"overrides the file-based CSS"*, of `defs.css` in the querystring
  (`docs/examples/dali.md:2059`). The style sheets are put in the image, but
  `Defs::hash_value` (`Defs.cpp:131`) leaves them out: the answer is the image with the
  styles of an earlier request.

What the models show beside:

- Beside the inline styles, some sixty pairs of a class and a setting, or data or a file,
  are read and not hashed (`MCProductHash`). Many are minor, such as a text that is looked
  up by `language`; others change the picture, such as `StreamLayer`'s `u_parameter`, the
  data of `HovmoellerLayer`, or the content of a template file.
- The functions of drawing also write: `Layer::addClipRect` and `TagLayer::generate`
  change attributes, and an `Intersection` keeps what it made for the first frame. A
  product is drawn once, so this is left out.
- A GetMap of several layers without TIME draws all of them at the current time of the
  last one, though a comment (`GetMap.cpp:523`) speaks of each layer.
- The names of dimensions that the WMTS handler keeps are "fixed by configuration"
  (`wmts/Handler.cpp:453`) only while the layer does not change: new data may bring
  reference times, and a layer that is missing at the first request has no names until
  the server restarts. `FixedDimensionsHonoured` has this as its condition: the layer is
  listed all the time, with the same times.
- Those names are said to come from "the very same source GetCapabilities used"
  (`wmts/Handler.cpp:607`), "in the same order GetCapabilities advertises them" (`451`), but
  capabilities list any levels and the names leave out those that are not `isOK`
  (`ElevationDimension.cpp:235`): a level 0 alone, or levels without a type. The expected
  capabilities (`test/output/wmts_getcapabilities.get:56-63`) have `{Elevation}`, with the
  single value 0, in the path of such a layer, and its tiles ignore that value. Should the
  layer have other levels later, its tiles still ignore what clients ask of them, since the
  names are kept for ever. As the elevation is the last of the path, no other value is
  taken for a wrong dimension; this is what `FixedDimensionsHonoured` shows.
- In a recursive document a layer without times or levels reads those of its group when
  most layers of a namespace have them (`ForeignOnlyByMajority` has the bound), since WMS
  has no way to declare none. A layer without intervals reads those of its group, which
  takes them from its first member that has any (`LayerHierarchy.cpp:435`): no property
  bounds for which layers that is.
- In `recursivetimes`, the layers of single origin times read no times of their own: the
  node above them passes on its `time_key` although it wrote the reference times only,
  which the comment in `emit_group` warns of. Keys compare the newest run even when the
  request asks for another one. `KindsRead` leaves the times out in these cases.
- A layer whose name is also a namespace of others is in no recursive document.

Every property of a passing run has a mutant in `PROJECT.json`: a definition changed as
a plausible bug would change it, which breaks that property. The mutated forms stand
before the definition they replace, marked *Faulty*.

## The proofs

All theorems hold for every value of the constants that the named assumptions allow.
The assumptions only say what a constant is (files belong to customers, bounds are
numbers, "nothing" is not a value, the directory a customer's name is taken from has one:
`CustomersAssumption`, `Config.cpp:1056`). Every invariant and action property that a run
checks is stated by a theorem.

| Module | Theorem | Of |
|---|---|---|
| `LayerRegistryProofs` | `TypeCorrect` | `TypeOK`, with `Working`: there is work exactly while layers are made |
| | `Freshness` | `StalenessBound` |
| | `Naming` | `OwnNames` |
| | `SweepCoverage` | `SweepCovers` |
| | `Completeness` | `CompleteMap` |
| | `Implementation` | `ImplementsCatalogue` |
| `CapabilitiesCacheProofs` | `CacheTypes`, `Staleness`, `Fence`, `Ownership` | the four invariants of its run |
| `ProductCacheProofs` | `ProductTypes`, `Ownership`, `Freshness` | `TypeOK`, `OwnImage`, `NeverStale` |
| | `Implementation` | `ImplementsServer` |
| `ProductHashProofs` | `TypeCorrect` | `TypeOK` |
| | `HashedSettingsHonoured` | what is hashed is never wrong, for any tables |
| | `AnswersOnlyWrongInGaps` | `WrongOnlyInGaps`, assuming `Covered` of the tables |
| `LayerRequestsProofs` | `Invariant`, `TimesWereCurrent`, `DimensionsHonoured`, `NamesStay` | `TimeWasCurrent`, `FixedDimensionsHonoured`, `NamesNeverReplaced` |
| `LayerRequestsAnswersProofs` | `AnswersInvariant`, `RequestsTyped`, `ImagesWereAvailable`, `UndisturbedRequests` | `TypeOK`, `AnswersWereAvailable`, `UndisturbedAnswered` |
| `LayerHierarchyProofs` | `Invariant`, `LayersReadAsTheyAre`, `ProjectionsAreOwn` | `ReadAsItIs`, `NoForeignProjection` |
| | `TreeInvariant`, `HierarchyTyped`, `ListedOnce` | `TypeOK`, `EachListedOnce` |
| | `OthersOnlyByMajority` | `ForeignOnlyByMajority` |
| `OperatorLemmas` | lemmas | least and greatest numbers, `FlattenSeq`, suffixes, finite images |

The arguments:

- *Registry.* `StalenessBound`, `OwnNames` and `CompleteMap` are not inductive. They need
  what a collected layer is at every step of the scan: of the work in progress, of a
  version in `seen`, or the published one. `Completeness` carries the statement for the
  files visited so far through the walk: a steady file that is neither ahead nor in work
  nor lost is covered already, and `Insert` never takes a layer away.
  The refinement adds to this (`HistoryCorrect`) that what is on disk, and what is being
  read, has been seen since the last publication.
- *Capabilities.* `IInv` says of each cache entry, of each thread's body and of each
  client's copy that its document was current at a moment not before the entry was built
  and not replaced before its version was reached (`HistoryOK`, `CacheOK`, `ThreadOK`).
  The order of the handler's reads, version, clock and then map, is what makes this
  inductive; the mutant that stamps late breaks it.
- *Products.* `IInv` says of every cache entry under a product hash, and of what every
  client holds under a tag, that the image is of the product and the querydata in that
  hash and of no older files (`Vouched`). It is inductive because the hash is taken
  before the image and the querydata stays pinned in between.
  For the refinement `MadeInv` adds what `Vouched` leaves open: an image under a product's
  hash is none of an exception, and of files that have been there already. An exception's
  image is kept and sent under its own hash only, which the mutant `ExceptionImageTagged`
  breaks: a client could then be told with a 304 to go on showing it.
- *Hashes.* `IInv` says that two images of one hash agree in what is hashed, for all that
  is kept, however many settings have changed in between. That the code's tables leave
  out the listed gaps only (`Covered`) is a finite fact of `ProductSettings`, which the
  run decides: a reader that is not covered would be wrong after two requests.
- *Requests for layers.* `Inv` carries through the calls that the names a thread has
  collected, and the names stored, are those the handler collects of some version the
  layer had (`Collected`), or that the layer was missing at some moment (`Known`), and that
  the time taken is among `current`. The lemma `SameTimes` shows that the names of times it
  collects are those the capabilities list, and `TakenRight` that two lists which begin
  with the same times and may or may not end in an elevation give every value its meaning,
  but for an elevation that is passed over. `Effect` says once what any call may do, so that each action needs only
  to be shown to be one.
- *Answers to them.* That an image was available, and that an undisturbed request gets
  one, rest on the whole sequence of calls, so `AnswersInv` numbers them: `todo` is what
  is left of `CallsOf(request)` (`ProgressInv`), what a call that did not refuse has shown
  its layer to have is in `ever` (`EverInv`, `Shows`), and what the later calls need has
  been found by earlier ones (`SettledInv`, `FoundOut`). `MapCallsType` and
  `TileCallsType` say of the sequences themselves, for any number of layers, that
  everything an image must have is asked for before the last call (`Covers`). `StepKind`
  then leaves four kinds of step: none visible, giving up, the image, and going on to a
  later call. Giving up is the interesting one: it happens only while a layer lacks what
  is asked for, or with no customer, and a steady request has seen neither.
- *Hierarchy.* `ReadAsItIs` is not inductive: a leaf that leaves something out relies on
  what was declared at any height. `Honest` says that whatever the code holds to be
  declared is declared, with the same values; `Shared`, that the projections declared so
  far are those of every leaf below. `GroupHeader` keeps both because a key is passed on
  only when something was written for it, and projections only when all leaves have them.
- *Listing once.* `TreeInv`: the leaves of the tree are divided among the nodes pending
  and the layers listed. A branch divides its own leaves by the next part of their names
  (`SublayersPartition`) and a group by its keys (`GroupsPartition`); a layer that is
  also a namespace is no leaf, the one exception.
- *What is read of others.* `ForeignInv`: what is declared above a leaf the leaf has, or
  most layers of one of its namespaces have it (`Foreseen`). A namespace declares what is
  most common among its layers, and `MostCommonIs` shows that when this is something, more
  layers have it than have nothing; a group declares only what its key says of all members.

The library's induction theorems cannot be used with the provers at hand, so what needs
induction over data, such as what `FlattenSeq` concatenates, is proved by the least
counterexample (`LeastNatural`, itself from well-foundedness).

## Only model-checked, assumed, or not modelled

Only model-checked: liveness (`ShutdownCompletes`, `EditsArePublished`, `EditsMoveTheTime`),
which rests on fairness, and the tables of `ProductSettings`: that they are `Covered`, the hypothesis of
`AnswersOnlyWrongInGaps`, is what the run `product_hash` decides. The four violated
properties are refuted by TLC.

Assumed of code outside `src/`: `Fmi::Cache` and the image cache are atomic and insert
by replacing or keeping; an `AtomicSharedPtr` is atomic; `Spine::JsonCache` gives the
file's current content; file modification times count seconds, so that a file written
twice in one second looks the same; hashes do not collide; `Fmi::bad_hash` is not 0 and
survives `hash_combine`.

Left out on purpose: the text of answers, the Last-Modified and Expires headers, the
race on `itsCapabilitiesModificationTime` as such (the caches are checked under any
order of its values), legend dimensions, and the drawing itself, which is numeric and
keeps no state. A scan that shutdown cuts short may store a partial map; `CompleteMap`
excludes it, as no request is to be answered then.

Not modelled, and why:

- the arithmetic of tile matrices, curves (`BezierFit`, `BezierCache`), label placement,
  smoothing and colour painting: floating point, and recursion over data;
- the parsing of requests, bounding boxes and JSON, and the encoders: conversions without
  state, which the modules of fields abstract to the settings they handle;
- the style sheet cache, colour map times and temporary files of animations: maps and
  names with too small a key, of which a model could only restate the key (see the hazards);
- GetLegendGraphic and GetFeatureInfo: they run the same checks on the registry and the
  same generation as GetMap;
- how `add_sublayers` (`LayerHierarchy.cpp:65`) builds the tree of names, marking layers as
  processed while it walks them: in `LayerHierarchy` the tree is the set of the names'
  prefixes, so that `EachListedOnce` speaks of what is grouped and emitted, and not of a
  layer that is lost before;
- the order of construction, shutdown and destruction, which the server decides.

## The plan

Done, in this order: the registry, the capabilities cache and product answers; the
hashes of all classes; requests for layers over a registry that changes; the layer
hierarchy; the registry as an implementation of `Catalogue`, and product answers as one of
`ProductServer`.

Worth doing next, by importance:

1. the composition of `LayerRegistry` with `CapabilitiesCache`, whose `Publish` and
   `MoveVersion` become the registry's steps, and of `LayerRequests` with `Catalogue`;
2. products of several layers in `ProductSettings`, with settings that layers share;
3. `State`'s expiration time and the second State of tiles with dimensions.
