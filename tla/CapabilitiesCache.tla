------------------------- MODULE CapabilitiesCache -------------------------
(***************************************************************************)
(* The server-side cache of GetCapabilities responses:                     *)
(* Handler::wmsGetCapabilitiesQuery, run by many request threads at once   *)
(* while the layer registry publishes new maps and moves the capabilities  *)
(* time.  The cache's own operations are atomic (Fmi::Cache locks); the    *)
(* steps of the handler between them are not.                              *)
(*                                                                         *)
(* The registry is seen from outside: `content' is what rendering the      *)
(* published layers gives now, `version' is the capabilities time.  They   *)
(* move independently, as they do in LayerRegistry, where the time may run *)
(* ahead of the map or lag behind it.                                      *)
(***************************************************************************)
EXTENDS Integers, FiniteSets

CONSTANTS
    Clients,     \* each keeps the last document it got and sends one request at a time
    Requests,    \* what they ask: listed (parameters and headers) and apikey
    Contents,    \* what the published layers may look like
    Ttl,         \* kCapabilitiesCacheTtlSeconds
    MaxEntries,  \* kCapabilitiesCacheMaxEntries
    MaxTime,     \* bound on the clock
    MaxVersion,  \* bound on the capabilities time
    Nothing      \* no document, no entry

ASSUME NumbersAssumption ==
    /\ Ttl \in Nat \ {0}
    /\ MaxEntries \in Nat \ {0}
    /\ MaxTime \in Nat
    /\ MaxVersion \in Nat

(* Faulty: the apikey, which is not a URL parameter, is forgotten. *)
KeyWithoutApikey(r) == <<r.listed>>

(* computeCapabilitiesCacheKey, without the collisions of its hash *)
Key(r) == <<r.listed, r.apikey>>

(* GetCapabilities::response: the layers the apikey may see, with the      *)
(* apikey and the host in their URLs.  Its ETag is its hash.               *)
Render(c, r) == [content |-> c, listed |-> r.listed, apikey |-> r.apikey]

Documents == {Render(c, r) : c \in Contents, r \in Requests}

Keys == {Key(r) : r \in Requests}

Entry == [body : Documents, version : Nat, built : Nat]

ASSUME NothingAssumption == Nothing \notin Documents /\ Nothing \notin Entry

(* How a client asks: for the document, for its ETag alone                 *)
(* (X-Request-ETag), or on a condition on the document it has.             *)
Headers == {"none", "X-Request-ETag", "If-None-Match", "If-Match"}

VARIABLES
    content,  \* the layers published now, as rendered
    version,  \* Config::getCapabilitiesModificationTime()
    now,      \* the clock, in seconds
    cache,    \* itsCapabilitiesCache
    pc,       \* where the thread of each client's request is
    request,  \* theRequest
    current,  \* current_version
    asked,    \* `now' of the handler
    body,     \* body
    status,   \* status of the response
    copy,     \* the document the client has
    shown,    \* history: contents and the times they were current at
    since     \* history: versions, and contents current since each was reached

registry == <<content, version, now, shown, since>>
vars == <<content, version, now, cache, pc, request, current, asked,
          body, status, copy, shown, since>>

TypeOK ==
    /\ content \in Contents
    /\ version \in Nat
    /\ now \in Nat
    /\ cache \in [Keys -> Entry \cup {Nothing}]
    /\ pc \in [Clients -> {"idle", "clock", "find", "render", "insert", "answer", "done"}]
    /\ request \in [Clients -> Requests]
    /\ current \in [Clients -> Nat]
    /\ asked \in [Clients -> Nat]
    /\ body \in [Clients -> Documents \cup {Nothing}]
    /\ status \in [Clients -> {"none", "200", "204", "304", "412", "error"}]
    /\ copy \in [Clients -> Documents \cup {Nothing}]
    /\ shown \subseteq Contents \X Nat
    /\ since \subseteq Nat \X Contents

Init ==
    /\ content \in Contents
    /\ version = 0
    /\ now = 0
    /\ cache = [k \in Keys |-> Nothing]
    /\ pc = [c \in Clients |-> "idle"]
    /\ request \in [Clients -> Requests]
    /\ current = [c \in Clients |-> 0]
    /\ asked = [c \in Clients |-> 0]
    /\ body = [c \in Clients |-> Nothing]
    /\ status = [c \in Clients |-> "none"]
    /\ copy = [c \in Clients |-> Nothing]
    /\ shown = {<<content, 0>>}
    /\ since = {<<0, content>>}

-----------------------------------------------------------------------------
(***************************************************************************)
(* The layer registry and the clock.                                       *)
(***************************************************************************)

Outside == UNCHANGED <<cache, pc, request, current, asked, body, status, copy>>

(* Config::updateLayerMetaData stores a map; the apikeys' rights or the    *)
(* template may change the document as well.                               *)
Publish(c) ==
    /\ content' = c
    /\ shown' = shown \cup {<<c, now>>}
    /\ since' = since \cup {<<v, c>> : v \in 0 .. version}
    /\ UNCHANGED <<version, now>>
    /\ Outside

(* The scan or the sweep moves the capabilities time. *)
MoveVersion ==
    /\ version < MaxVersion
    /\ version' = version + 1
    /\ since' = since \cup {<<version + 1, content>>}
    /\ UNCHANGED <<content, now, shown>>
    /\ Outside

Tick ==
    /\ now < MaxTime
    /\ now' = now + 1
    /\ shown' = shown \cup {<<content, now + 1>>}
    /\ UNCHANGED <<content, version, since>>
    /\ Outside

-----------------------------------------------------------------------------
(***************************************************************************)
(* One request.                                                            *)
(***************************************************************************)

Goto(c, l) == pc' = [pc EXCEPT ![c] = l]

(* The handler has the key and reads the capabilities time. *)
Ask(c) ==
    /\ pc[c] \in {"idle", "done"}
    /\ \E r \in Requests : request' = [request EXCEPT ![c] = r]
    /\ current' = [current EXCEPT ![c] = version]
    /\ asked' = [asked EXCEPT ![c] = 0]
    /\ status' = [status EXCEPT ![c] = "none"]
    /\ Goto(c, "clock")
    /\ UNCHANGED <<cache, body, copy>>
    /\ UNCHANGED registry

ReadClock(c) ==
    /\ pc[c] = "clock"
    /\ asked' = [asked EXCEPT ![c] = now]
    /\ Goto(c, "find")
    /\ UNCHANGED <<cache, request, current, body, status, copy>>
    /\ UNCHANGED registry

(* Faulty: an entry as old as the TTL is still fresh. *)
FreshLonger(e, c) == e.version = current[c] /\ asked[c] - e.built <= Ttl

Fresh(e, c) == e.version = current[c] /\ asked[c] - e.built < Ttl

Find(c) ==
    /\ pc[c] = "find"
    /\ LET e == cache[Key(request[c])] IN
          IF e # Nothing /\ Fresh(e, c)
          THEN body' = [body EXCEPT ![c] = e.body] /\ Goto(c, "answer")
          ELSE UNCHANGED body /\ Goto(c, "render")
    /\ UNCHANGED <<cache, request, current, asked, status, copy>>
    /\ UNCHANGED registry

(* GetCapabilities::response loads the published map once. *)
RenderDocument(c) ==
    /\ pc[c] = "render"
    /\ body' = [body EXCEPT ![c] = Render(content, request[c])]
    /\ Goto(c, "insert")
    /\ UNCHANGED <<cache, request, current, asked, status, copy>>
    /\ UNCHANGED registry

(* Faulty: the exception is swallowed and the handler goes on. *)
RenderFailsSwallowed(c) ==
    /\ pc[c] = "render"
    /\ Goto(c, "insert")
    /\ UNCHANGED <<cache, request, current, asked, body, status, copy>>
    /\ UNCHANGED registry

(* An invalid layout, or the template processor, throws: a WMS exception. *)
RenderFails(c) ==
    /\ pc[c] = "render"
    /\ status' = [status EXCEPT ![c] = "error"]
    /\ Goto(c, "done")
    /\ UNCHANGED <<cache, request, current, asked, body, copy>>
    /\ UNCHANGED registry

(* Faulty: the entry is stamped with the version of the time of insertion. *)
NewEntryStampedLate(c) == [body |-> body[c], version |-> version, built |-> asked[c]]

NewEntry(c) == [body |-> body[c], version |-> current[c], built |-> asked[c]]

(* Fmi::Cache::insert replaces the entry of that key, or makes room. *)
Inserted(k, e) ==
    LET full == Cardinality({j \in Keys : cache[j] # Nothing}) >= MaxEntries IN
    IF cache[k] # Nothing \/ ~full
    THEN {[cache EXCEPT ![k] = e]}
    ELSE {[cache EXCEPT ![k] = e, ![j] = Nothing] : j \in {j \in Keys : cache[j] # Nothing}}

Insert(c) ==
    /\ pc[c] = "insert"
    /\ cache' \in Inserted(Key(request[c]), NewEntry(c))
    /\ Goto(c, "answer")
    /\ UNCHANGED <<request, current, asked, body, status, copy>>
    /\ UNCHANGED registry

(* The probe is answered before the conditions are looked at. *)
Status(c, h) ==
    CASE h = "X-Request-ETag" -> "204"
      [] h = "If-None-Match" /\ copy[c] = body[c] -> "304"
      [] h = "If-Match" /\ copy[c] # body[c] -> "412"
      [] OTHER -> "200"

(* Only a response of status 200 has the document.  The headers of the     *)
(* request are not looked at before; conditions name the client's copy.    *)
Answer(c) ==
    /\ pc[c] = "answer"
    /\ \E h \in Headers :
          /\ h \in {"If-None-Match", "If-Match"} => copy[c] # Nothing
          /\ status' = [status EXCEPT ![c] = Status(c, h)]
          /\ copy' = [copy EXCEPT ![c] = IF Status(c, h) = "200" THEN body[c] ELSE @]
    /\ body' = [body EXCEPT ![c] = Nothing]
    /\ Goto(c, "done")
    /\ UNCHANGED <<cache, request, current, asked>>
    /\ UNCHANGED registry

Next ==
    \/ \E c \in Contents : Publish(c)
    \/ MoveVersion
    \/ Tick
    \/ \E c \in Clients :
          Ask(c) \/ ReadClock(c) \/ Find(c) \/ RenderDocument(c) \/ RenderFails(c)
              \/ Insert(c) \/ Answer(c)

Spec == Init /\ [][Next]_vars

-----------------------------------------------------------------------------
(***************************************************************************)
(* Properties.                                                             *)
(***************************************************************************)

(* The document was what rendering gave for some content that was current  *)
(* less than Ttl before time t, or later.                                  *)
ShownSince(d, t) == \E s \in shown : d.content = s[1] /\ s[2] + Ttl > t

Told(c) == pc[c] = "done" /\ status[c] \in {"200", "304"}

(* A client told 200 or 304 has a document that was current less than Ttl  *)
(* before it asked: the TTL bounds staleness however threads interleave,   *)
(* late insertions of older renderings and revalidations included          *)
(* (the comment on kCapabilitiesCacheTtlSeconds).                          *)
BoundedStaleness == \A c \in Clients : Told(c) => ShownSince(copy[c], asked[c])

(* Once the capabilities time has reached a value, a client that asks      *)
(* under that time, or a later one, gets no content replaced before: the   *)
(* time is read before the map, so that a document made of an older map    *)
(* is never stored under a newer time.                                     *)
VersionFence ==
    \A c \in Clients : Told(c) => <<current[c], copy[c].content>> \in since

(* A client gets the document its own request renders to: the layers its   *)
(* own apikey may see, with its own apikey in their URLs, though another   *)
(* client's thread rendered it.                                            *)
OwnDocument ==
    \A c \in Clients : Told(c) => copy[c] = Render(copy[c].content, request[c])

=============================================================================
