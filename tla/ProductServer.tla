--------------------------- MODULE ProductServer ---------------------------
(***************************************************************************)
(* What ProductCache promises its clients: a server that keeps no images.  *)
(* It looks at the data once for each request, and an answer is an image   *)
(* made for this very request, of the querydata at that look and of the    *)
(* files as they were then or later.  A client is told to go on with its   *)
(* copy (304) only if that is such an image too.                           *)
(*                                                                         *)
(* Nothing is said of requests whose product has no hash: observations,    *)
(* and tiles whose hash failed, may be answered with any image.            *)
(***************************************************************************)
EXTENDS Integers

CONSTANTS Clients, Products, Requests, Nothing

Image == [product : Products, model : Nat, file : Nat,
          state : {"complete", "incomplete", "exception"}]

VARIABLES
    model,    \* the newest querydata
    file,     \* the newest modification time of the files
    phase,    \* how far the server is with each client's request
    request,  \* that request
    look,     \* the data when it looked, if the product has a hash
    status,   \* status of the last response
    copy      \* the body the client has

vars == <<model, file, phase, request, look, status, copy>>

Init ==
    /\ model \in Nat /\ file \in Nat
    /\ phase = [c \in Clients |-> "idle"]
    /\ request = [c \in Clients |-> Nothing]
    /\ look = [c \in Clients |-> Nothing]
    /\ status = [c \in Clients |-> "none"]
    /\ copy = [c \in Clients |-> Nothing]

NewData ==
    /\ model' \in Nat /\ model <= model'
    /\ file' \in Nat /\ file <= file'
    /\ UNCHANGED <<phase, request, look, status, copy>>

(* The client keeps its copy only for the same request. *)
Ask(c) ==
    /\ phase[c] \in {"idle", "done"}
    /\ phase' = [phase EXCEPT ![c] = "asked"]
    /\ request'[c] \in Requests
    /\ request' = [request EXCEPT ![c] = request'[c]]
    /\ copy' = [copy EXCEPT ![c] = IF request'[c] = request[c] THEN @ ELSE Nothing]
    /\ look' = [look EXCEPT ![c] = Nothing]
    /\ status' = [status EXCEPT ![c] = "none"]
    /\ UNCHANGED <<model, file>>

MayLackHash(r) == r.product.observed \/ r.front = "tile"

Look(c) ==
    /\ phase[c] = "asked"
    /\ phase' = [phase EXCEPT ![c] = "looked"]
    /\ \/ look' = [look EXCEPT ![c] = [model |-> model, file |-> file]]
       \/ MayLackHash(request[c]) /\ look' = look
    /\ UNCHANGED <<model, file, request, status, copy>>

(* An image that the server could have made for this request *)
MadeFor(c, i) ==
    /\ i.product = request[c].product
    /\ i.state # "exception"
    /\ i.model = look[c].model
    /\ look[c].file <= i.file /\ i.file <= file

Answer(c, s) ==
    /\ phase' = [phase EXCEPT ![c] = "done"]
    /\ status' = [status EXCEPT ![c] = s]
    /\ UNCHANGED <<model, file, request, look>>

Show(c) ==
    /\ phase[c] = "looked"
    /\ copy'[c] \in Image
    /\ look[c] # Nothing => MadeFor(c, copy'[c])
    /\ copy' = [copy EXCEPT ![c] = copy'[c]]
    /\ Answer(c, "200")

(* The request failed, and its client has asked for an image that says so. *)
ShowException(c) ==
    /\ phase[c] \in {"asked", "looked"}
    /\ request[c].front = "wms"
    /\ copy'[c] \in Image
    /\ copy'[c].product = request[c].product /\ copy'[c].state = "exception"
    /\ copy' = [copy EXCEPT ![c] = copy'[c]]
    /\ Answer(c, "200")

Confirm(c) ==
    /\ phase[c] = "looked"
    /\ copy[c] \in Image
    /\ look[c] # Nothing => MadeFor(c, copy[c])
    /\ Answer(c, "304")
    /\ UNCHANGED copy

(* Only a tag is asked for, a condition fails, or the request does. *)
Refuse(c) ==
    /\ phase[c] \in {"asked", "looked"}
    /\ \E s \in {"204", "412", "error"} : Answer(c, s)
    /\ UNCHANGED copy

Next ==
    \/ NewData
    \/ \E c \in Clients :
          Ask(c) \/ Look(c) \/ Show(c) \/ ShowException(c) \/ Confirm(c) \/ Refuse(c)

Spec == Init /\ [][Next]_vars

=============================================================================
