---------------------------- MODULE StorageProofs ----------------------------
(***************************************************************************)
(* Proofs about local storage: the files of one object and the bytes it is *)
(* charged for (StorageObjects), and one multipart upload                  *)
(* (MultipartUploads), for any number of requests, sizes, parts, writes    *)
(* and crashes.                                                            *)
(***************************************************************************)
EXTENDS MCStorage, SequenceTheorems, TLAPS

(* The time a leaf may take. *)
USE SMTT(30)

-----------------------------------------------------------------------------
(* The object.  A request that no other has met is the only one being      *)
(* served; what it has written so far is in the files.                     *)

Served(c) == request[c].pc # "idle"

UnracedAlone ==
    \A c, d \in Clients : Served(c) /\ ~request[c].raced /\ Served(d) => d = c

UnmixedUnraced == ~mixed => \A c \in Clients : Served(c) => ~request[c].raced

BodyWritten ==
    \A c \in Clients : ~request[c].raced =>
        /\ request[c].pc \in {"meta", "metadata", "composite", "compositedata"} => file = request[c].body
        /\ request[c].pc = "removemeta" => file = Object!NoFile

\* The steps between which the two files may differ.
Apart == {"data", "meta", "metadata", "compositedata", "removemeta"}

AgreeBetween ==
    ~mixed /\ (\A c \in Clients : request[c].pc \notin Apart) => file = meta /\ file # Object!Torn

FilesInv == Object!TypeOK /\ UnracedAlone /\ UnmixedUnraced /\ BodyWritten /\ AgreeBetween

\* While the counter is right, a request knows what was charged before it,
\* and has been let pass if it writes.
Metered == ~unmetered => ~mixed /\ \A c \in Clients : Served(c) => request[c].route = "sdk"

Charging == {"data", "meta", "metadata", "record", "removemeta", "uncharge"}
Informed == Charging \cup {"limit", "truncate", "removedata"}
Admitted == {"truncate", "data", "meta", "metadata", "record"}

RequestMetered(c) ==
    LET r == request[c]
    IN  /\ r.pc \in Informed => r.previous = used
        /\ r.pc \in Admitted => r.body.size <= Limit
        /\ r.pc = "record" => file = r.body
        /\ r.pc = "uncharge" => file = Object!NoFile

UsageBetween ==
    ~unmetered =>
        /\ used \in Nat /\ used <= Limit
        /\ (\A c \in Clients : request[c].pc \notin Charging) => used = file.size
        /\ \A c \in Clients : RequestMetered(c)

ObjectInv == FilesInv /\ Metered /\ UsageBetween

-----------------------------------------------------------------------------
(* How a step changes the request it serves.                               *)
ObjectSteps == {"idle", "head", "limit", "record", "headdelete", "uncharge"} \cup Object!Writing

Requests ==
    [pc : ObjectSteps, route : {"sdk", "presigned", "host", "complete"},
     body : Object!Bodies \cup {Object!NoFile}, previous : Object!SizeBounds, raced : BOOLEAN]

\* The request of c becomes new, the others stay.
Becomes(c, new) == request' = [request EXCEPT ![c] = new]

LEMMA ObjectTypes ==
    Object!TypeOK <=>
        /\ file \in Object!Files /\ meta \in Object!Files /\ used \in Int
        /\ request \in [Clients -> Requests]
        /\ writes \in 0 .. MaxWrites /\ mixed \in BOOLEAN /\ unmetered \in BOOLEAN
        /\ crashes \in 0 .. MaxFaults
  BY Zenon DEF Object!TypeOK, Requests, ObjectSteps

\* A body is no torn file, and neither is a missing one.
LEMMA BodyIsWhole ==
    /\ Object!NoFile # Object!Torn /\ Object!NoFile.size = 0
    /\ \A b \in Object!Bodies : b # Object!Torn /\ b # Object!NoFile /\ b.size \in Nat
  <1>1. /\ Object!NoFile.write = 0 /\ Object!NoFile.size = 0
        /\ Object!Torn.write = -1 /\ Object!Torn.size = 0
    BY Zenon DEF Object!NoFile, Object!Torn
  <1>2. \A b \in Object!Bodies : b.write \in 1 .. MaxWrites /\ b.size \in Sizes
    BY Zenon DEF Object!Bodies
  <1>3. 0 # -1 /\ \A w \in 1 .. MaxWrites : w # 0 /\ w # -1
    BY StorageAssumption
  <1>4. \A b \in Object!Bodies : b.size \in Nat
    BY <1>2, StorageAssumption, Zenon
  <1> QED
    BY <1>1, <1>2, <1>3, <1>4, Zenon

LEMMA IdleRequest == Object!Idle \in Requests /\ Object!Idle.pc = "idle"
  BY Zenon DEF Object!Idle, Requests, ObjectSteps, Object!SizeBounds, Object!NoFile

LEMMA FinishMoves ==
    ASSUME Object!TypeOK, NEW c \in Clients, Object!Finish(c)
    PROVE  \E new \in Requests : new.pc = "idle" /\ Becomes(c, new)
  BY IdleRequest, Zenon DEF Object!Finish, Becomes

LEMMA GotoMoves ==
    ASSUME Object!TypeOK, NEW c \in Clients, NEW pc \in ObjectSteps, Object!Goto(c, pc)
    PROVE  \E new \in Requests :
              /\ Becomes(c, new)
              /\ new.pc = pc /\ new.route = request[c].route /\ new.body = request[c].body
              /\ new.previous = request[c].previous /\ new.raced = request[c].raced
  <1>1. PICK new : new = [request[c] EXCEPT !.pc = pc]
    BY Zenon
  <1>2. request[c] \in Requests
    BY ObjectTypes, Zenon
  <1>3. /\ new \in Requests
        /\ new.pc = pc /\ new.route = request[c].route /\ new.body = request[c].body
        /\ new.previous = request[c].previous /\ new.raced = request[c].raced
    BY <1>1, <1>2, Zenon DEF Requests
  <1>4. Becomes(c, new)
    BY <1>1, Zenon DEF Object!Goto, Becomes
  <1> QED
    BY <1>3, <1>4, Zenon

\* Requests that are served together race.
LEMMA OthersIdle ==
    ASSUME ObjectInv, NEW c \in Clients, Served(c), ~request[c].raced \/ ~mixed \/ ~unmetered
    PROVE  ~request[c].raced /\ \A d \in Clients \ {c} : request[d].pc = "idle"
  <1>1. ~request[c].raced
    BY Zenon DEF ObjectInv, FilesInv, UnmixedUnraced, Metered
  <1> QED
    BY <1>1, Zenon DEF ObjectInv, FilesInv, UnracedAlone, Served

\* A step of one request keeps the invariant of the files, if it does its part.
LEMMA StepKeepsFiles ==
    ASSUME ObjectInv, Object!TypeOK', NEW c \in Clients, Served(c), NEW new \in Requests,
           Becomes(c, new),
           new.pc # "idle" => new.raced = request[c].raced,
           mixed' = mixed \/ mixed' = (mixed /\ request[c].raced),
           ~request[c].raced =>
               /\ new.pc \in {"meta", "metadata", "composite", "compositedata"} => file' = new.body
               /\ new.pc = "removemeta" => file' = Object!NoFile
               /\ ~mixed' /\ new.pc \notin Apart => file' = meta' /\ file' # Object!Torn
    PROVE  FilesInv'
  <1>1. request'[c] = new /\ \A d \in Clients \ {c} : request'[d] = request[d]
    BY ObjectTypes, Zenon DEF ObjectInv, FilesInv, Becomes
  <1>2. ~mixed' => ~request[c].raced
    BY Zenon DEF ObjectInv, FilesInv, UnmixedUnraced
  <1>3. ~request[c].raced => \A d \in Clients \ {c} : request[d].pc = "idle"
    BY OthersIdle, Zenon
  <1>4. UnracedAlone'
    <2> SUFFICES ASSUME NEW x \in Clients, NEW y \in Clients, Served(x)', ~request'[x].raced, Served(y)'
                 PROVE  y = x
      BY Zenon DEF UnracedAlone
    <2>1. CASE x = c
      BY <1>1, <1>3, <2>1, Zenon DEF Served
    <2>2. CASE x # c
      BY <1>1, <2>2, Zenon DEF UnracedAlone, Served, ObjectInv, FilesInv
    <2> QED
      BY <2>1, <2>2, Zenon
  <1>5. UnmixedUnraced'
    BY <1>1, <1>2, <1>3, Zenon DEF UnmixedUnraced, Served
  <1>6. BodyWritten'
    <2> SUFFICES ASSUME NEW d \in Clients, ~request'[d].raced
                 PROVE  /\ request'[d].pc \in {"meta", "metadata", "composite", "compositedata"} =>
                              file' = request'[d].body
                        /\ request'[d].pc = "removemeta" => file' = Object!NoFile
      BY Zenon DEF BodyWritten
    <2>1. CASE d = c
      BY <1>1, <2>1, Zenon
    <2>2. CASE d # c
      BY <1>1, <2>2, Zenon DEF UnracedAlone, Served, ObjectInv, FilesInv
    <2> QED
      BY <2>1, <2>2, Zenon
  <1>7. AgreeBetween'
    BY <1>1, <1>2, Zenon DEF AgreeBetween
  <1> QED
    BY <1>4, <1>5, <1>6, <1>7, Zenon DEF FilesInv

\* It keeps the invariant of the counter, if it does its part.
LEMMA StepKeepsUsage ==
    ASSUME ObjectInv, NEW c \in Clients, Served(c), NEW new \in Requests,
           Becomes(c, new),
           new.pc # "idle" => new.route = request[c].route,
           ~mixed => ~mixed', ~unmetered' => ~unmetered,
           ~unmetered' =>
               /\ used' \in Nat /\ used' <= Limit
               /\ new.pc \notin Charging => used' = file'.size
               /\ new.pc \in Informed => new.previous = used'
               /\ new.pc \in Admitted => new.body.size <= Limit
               /\ new.pc = "record" => file' = new.body
               /\ new.pc = "uncharge" => file' = Object!NoFile
    PROVE  Metered' /\ UsageBetween'
  <1>1. request'[c] = new /\ \A d \in Clients \ {c} : request'[d] = request[d]
    BY ObjectTypes, Zenon DEF ObjectInv, FilesInv, Becomes
  <1>2. ~unmetered' => \A d \in Clients \ {c} : request'[d].pc = "idle"
    BY <1>1, OthersIdle, Zenon
  <1>3. Metered'
    BY <1>1, <1>2, Zenon DEF ObjectInv, Metered, Served
  <1>4. ASSUME ~unmetered', NEW d \in Clients PROVE RequestMetered(d)'
    <2>1. CASE d = c
      BY <1>1, <1>4, <2>1, Zenon DEF RequestMetered
    <2>2. CASE d # c
      <3>1. request'[d].pc = "idle"
        BY <1>2, <1>4, <2>2, Zenon
      <3> QED
        BY <3>1, Zenon DEF RequestMetered, Informed, Charging, Admitted
    <2> QED
      BY <2>1, <2>2, Zenon
  <1>5. UsageBetween'
    BY <1>1, <1>4, Zenon DEF UsageBetween
  <1> QED
    BY <1>3, <1>5, Zenon

LEMMA StepTypes ==
    ASSUME ObjectInv, NEW c \in Clients, NEW new \in Requests,
           Becomes(c, new),
           file' \in Object!Files, meta' \in Object!Files, used' \in Int, writes' = writes,
           mixed' \in BOOLEAN, unmetered' \in BOOLEAN, crashes' \in 0 .. MaxFaults
    PROVE  Object!TypeOK'
  <1>1. request' \in [Clients -> Requests] /\ writes \in 0 .. MaxWrites
    BY ObjectTypes, Zenon DEF ObjectInv, FilesInv, Becomes
  <1> QED
    BY <1>1, Zenon DEF Object!TypeOK, Requests, ObjectSteps

\* What is known of the object when a request is served.
LEMMA AgreeAt ==
    ASSUME ObjectInv, NEW c \in Clients, Served(c), ~mixed, request[c].pc \notin Apart
    PROVE  file = meta /\ file # Object!Torn
  <1>1. \A d \in Clients : request[d].pc \notin Apart
    BY OthersIdle, Zenon DEF Apart
  <1> QED
    BY <1>1, Zenon DEF ObjectInv, FilesInv, AgreeBetween

LEMMA ChargedAt ==
    ASSUME ObjectInv, NEW c \in Clients, Served(c), ~unmetered
    PROVE  /\ ~mixed /\ ~request[c].raced /\ request[c].route = "sdk"
           /\ used \in Nat /\ used <= Limit /\ RequestMetered(c)
           /\ request[c].pc \notin Charging => used = file.size
  <1>1. request[c].pc \notin Charging => \A d \in Clients : request[d].pc \notin Charging
    BY OthersIdle, Zenon DEF Charging
  <1>2. ~mixed /\ request[c].route = "sdk" /\ ~request[c].raced
    BY OthersIdle, Zenon DEF ObjectInv, Metered
  <1> QED
    BY <1>1, <1>2, Zenon DEF ObjectInv, UsageBetween

LEMMA RequestTypes ==
    ASSUME ObjectInv, NEW c \in Clients
    PROVE  /\ request[c] \in Requests
           /\ request[c].body \in Object!Bodies \cup {Object!NoFile} /\ request[c].raced \in BOOLEAN
           /\ request[c].previous \in Object!SizeBounds /\ request[c].pc \in ObjectSteps
           /\ request[c].body \in Object!Files /\ request[c].body # Object!Torn
           /\ request[c].body.size \in Nat /\ request[c].previous \in Nat
           /\ file \in Object!Files /\ meta \in Object!Files /\ used \in Int
           /\ mixed \in BOOLEAN /\ unmetered \in BOOLEAN /\ crashes \in 0 .. MaxFaults
           /\ writes \in 0 .. MaxWrites
           /\ Object!Torn \in Object!Files /\ Object!NoFile \in Object!Files
  <1>1. /\ request[c] \in Requests /\ file \in Object!Files /\ meta \in Object!Files /\ used \in Int
        /\ mixed \in BOOLEAN /\ unmetered \in BOOLEAN /\ crashes \in 0 .. MaxFaults
        /\ writes \in 0 .. MaxWrites
    BY ObjectTypes, Zenon DEF ObjectInv, FilesInv
  <1>2. /\ request[c].body \in Object!Bodies \cup {Object!NoFile} /\ request[c].raced \in BOOLEAN
        /\ request[c].previous \in Object!SizeBounds /\ request[c].pc \in ObjectSteps
    BY <1>1, Zenon DEF Requests
  <1>3. /\ request[c].body \in Object!Files /\ request[c].body # Object!Torn
        /\ Object!Torn \in Object!Files /\ Object!NoFile \in Object!Files
    BY <1>2, BodyIsWhole, Zenon DEF Object!Files
  <1>4. 0 \in Nat /\ Sizes \subseteq Nat
    BY StorageAssumption, Zenon
  <1>5. request[c].body.size \in Nat
    BY <1>2, <1>4, BodyIsWhole, Zenon
  <1>6. request[c].previous \in Nat
    BY <1>2, <1>4, BodyIsWhole, Zenon DEF Object!SizeBounds
  <1> QED
    BY <1>1, <1>2, <1>3, <1>5, <1>6, Zenon

-----------------------------------------------------------------------------
(* The steps of a put.                                                     *)
Inform(c, pc, p) == request' = [request EXCEPT ![c].pc = pc, ![c].previous = p]

LEMMA InformedMoves ==
    ASSUME ObjectInv, NEW c \in Clients, NEW pc \in ObjectSteps, NEW p \in Object!SizeBounds,
           Inform(c, pc, p)
    PROVE  \E new \in Requests :
              /\ Becomes(c, new)
              /\ new.pc = pc /\ new.route = request[c].route /\ new.body = request[c].body
              /\ new.previous = p /\ new.raced = request[c].raced
  <1>1. request[c] \in Requests /\ request \in [Clients -> Requests]
    BY RequestTypes, ObjectTypes, Zenon DEF ObjectInv, FilesInv
  <1> DEFINE moved == [request EXCEPT ![c].pc = pc]
  <1>2. PICK old1 : old1 = [request[c] EXCEPT !.pc = pc]
    BY Zenon
  <1>3. moved = [request EXCEPT ![c] = old1] /\ moved[c] = old1
    BY <1>1, <1>2, Zenon
  <1>4. request' = [moved EXCEPT ![c] = [moved[c] EXCEPT !.previous = p]]
    BY Zenon DEF Inform
  <1> HIDE DEF moved
  <1>5. PICK new : new = [old1 EXCEPT !.previous = p]
    BY Zenon
  <1>6. /\ old1 \in Requests /\ old1.pc = pc /\ old1.route = request[c].route
        /\ old1.body = request[c].body /\ old1.raced = request[c].raced
    BY <1>1, <1>2, Zenon DEF Requests
  <1>7. /\ new \in Requests /\ new.pc = pc /\ new.route = request[c].route
        /\ new.body = request[c].body /\ new.raced = request[c].raced /\ new.previous = p
    BY <1>5, <1>6, Zenon DEF Requests
  <1>8. request' = [moved EXCEPT ![c] = new]
    BY <1>3, <1>4, <1>5, Zenon
  <1>9. Becomes(c, new)
    BY <1>3, <1>8, Zenon DEF Becomes
  <1> QED
    BY <1>7, <1>9, Zenon

LEMMA HeadPreviousKeeps ==
    ASSUME ObjectInv, NEW c \in Clients, Object!HeadPrevious(c)
    PROVE  ObjectInv'
  <1>1. /\ Served(c) /\ request[c].pc = "head"
        /\ UNCHANGED <<file, meta, used, writes, mixed, unmetered, crashes>>
    BY Zenon DEF Object!HeadPrevious, Object!At, Served
  <1>2. PICK p : p = IF Object!Readable THEN meta.size ELSE 0
    BY Zenon
  <1>3. p \in Object!SizeBounds
    BY <1>2, RequestTypes, BodyIsWhole, Zenon
    DEF Object!Readable, Object!Files, Object!SizeBounds, Object!Bodies
  <1>4. /\ "limit" \in ObjectSteps /\ "limit" \notin Apart \cup Charging \cup Admitted
        /\ "head" \notin Apart \cup Charging
    BY Zenon DEF ObjectSteps, Apart, Charging, Admitted
  <1>5. Inform(c, "limit", p)
    BY <1>2, Zenon DEF Object!HeadPrevious, Inform
  <1>6. PICK new \in Requests :
              /\ Becomes(c, new)
              /\ new.pc = "limit" /\ new.route = request[c].route /\ new.body = request[c].body
              /\ new.previous = p /\ new.raced = request[c].raced
    BY <1>3, <1>4, <1>5, InformedMoves
  <1>7. ~mixed => file = meta /\ file # Object!Torn
    BY <1>1, <1>4, AgreeAt, Zenon
  <1>8. ~unmetered => used \in Nat /\ used <= Limit /\ used = file.size /\ ~mixed
    BY <1>1, <1>4, ChargedAt, Zenon
  <1>9. ~unmetered => p = used
    BY <1>2, <1>7, <1>8, BodyIsWhole, Zenon DEF Object!Readable, Object!Exists
  <1>10. Object!TypeOK'
    BY <1>1, <1>6, StepTypes, RequestTypes, Zenon
  <1>11. FilesInv'
    BY <1>1, <1>4, <1>6, <1>7, <1>10, StepKeepsFiles, Zenon
  <1>12. Metered' /\ UsageBetween'
    BY <1>1, <1>4, <1>6, <1>8, <1>9, StepKeepsUsage, Zenon
  <1> QED
    BY <1>11, <1>12, Zenon DEF ObjectInv

\* A step of one request keeps the whole invariant, if it does its part.
LEMMA StepKeeps ==
    ASSUME ObjectInv, NEW c \in Clients, Served(c), NEW new \in Requests, Becomes(c, new),
           file' \in Object!Files, meta' \in Object!Files, used' \in Int, writes' = writes,
           crashes' \in 0 .. MaxFaults, unmetered' \in BOOLEAN,
           mixed' = mixed \/ mixed' = (mixed /\ request[c].raced),
           ~unmetered' => ~unmetered,
           new.pc # "idle" => new.raced = request[c].raced /\ new.route = request[c].route,
           ~request[c].raced =>
               /\ new.pc \in {"meta", "metadata", "composite", "compositedata"} => file' = new.body
               /\ new.pc = "removemeta" => file' = Object!NoFile
               /\ ~mixed' /\ new.pc \notin Apart => file' = meta' /\ file' # Object!Torn,
           ~unmetered' =>
               /\ used' \in Nat /\ used' <= Limit
               /\ new.pc \notin Charging => used' = file'.size
               /\ new.pc \in Informed => new.previous = used'
               /\ new.pc \in Admitted => new.body.size <= Limit
               /\ new.pc = "record" => file' = new.body
               /\ new.pc = "uncharge" => file' = Object!NoFile
    PROVE  ObjectInv'
  <1>1. mixed \in BOOLEAN /\ mixed' \in BOOLEAN
    BY RequestTypes, Zenon
  <1>2. Object!TypeOK'
    BY <1>1, StepTypes, Zenon
  <1>3. FilesInv'
    BY <1>2, StepKeepsFiles, Zenon
  <1>4. ~mixed => ~mixed'
    BY Zenon
  <1>5. Metered' /\ UsageBetween'
    BY <1>4, StepKeepsUsage, Zenon
  <1> QED
    BY <1>3, <1>5, Zenon DEF ObjectInv

\* What is known at a step where the counter is right.
LEMMA MeteredAt ==
    ASSUME ObjectInv, NEW c \in Clients, Served(c), ~unmetered
    PROVE  /\ used \in Nat /\ used <= Limit
           /\ request[c].pc \in Informed => request[c].previous = used
           /\ request[c].pc \in Admitted => request[c].body.size <= Limit
           /\ request[c].pc = "record" => file = request[c].body
           /\ request[c].pc = "uncharge" => file = Object!NoFile
           /\ request[c].pc \notin Charging => used = file.size
           /\ request[c].route = "sdk" /\ ~request[c].raced /\ ~mixed
  BY ChargedAt, Zenon DEF RequestMetered

LEMMA CheckLimitKeeps ==
    ASSUME ObjectInv, NEW c \in Clients, Object!CheckLimit(c)
    PROVE  ObjectInv'
  <1>1. /\ Served(c) /\ request[c].pc = "limit" /\ Object!TypeOK
        /\ file' = file /\ meta' = meta /\ used' = used /\ writes' = writes /\ mixed' = mixed
        /\ unmetered' = unmetered /\ crashes' = crashes
    BY Zenon DEF Object!CheckLimit, Object!At, Served, ObjectInv, FilesInv
  <1>2. /\ "truncate" \in ObjectSteps /\ "truncate" \notin Apart \cup Charging
        /\ "limit" \notin Apart \cup Charging /\ "limit" \in Informed
        /\ "idle" \notin Apart \cup Charging \cup Informed \cup Admitted
    BY Zenon DEF ObjectSteps, Object!Writing, Apart, Charging, Admitted, Informed
  <1>3. ~mixed => file = meta /\ file # Object!Torn
    BY <1>1, <1>2, AgreeAt, Zenon
  <1>4. ~unmetered => used \in Nat /\ used <= Limit /\ used = file.size /\ request[c].previous = used
    BY <1>1, <1>2, MeteredAt, Zenon
  <1>5. CASE Object!WithinLimit(request[c].body.size - request[c].previous)
    <2>1. Object!Goto(c, "truncate")
      BY <1>5, Zenon DEF Object!CheckLimit
    <2>2. PICK new \in Requests :
              /\ Becomes(c, new)
              /\ new.pc = "truncate" /\ new.route = request[c].route /\ new.body = request[c].body
              /\ new.previous = request[c].previous /\ new.raced = request[c].raced
      BY <1>1, <1>2, <2>1, GotoMoves, Zenon
    <2>3. request[c].body.size \in Nat /\ request[c].previous \in Nat
      BY RequestTypes, Zenon
    <2>4. PICK b, p : b = request[c].body.size /\ p = request[c].previous
      BY Zenon
    <2>5. ~unmetered => b <= Limit
      BY <1>4, <1>5, <2>3, <2>4, StorageAssumption DEF Object!WithinLimit
    <2> QED
      BY <1>1, <1>2, <1>3, <1>4, <2>2, <2>4, <2>5, StepKeeps, RequestTypes, Zenon
  <1>6. CASE ~Object!WithinLimit(request[c].body.size - request[c].previous)
    <2>1. PICK new \in Requests : new.pc = "idle" /\ Becomes(c, new)
      BY <1>1, <1>6, FinishMoves, Zenon DEF Object!CheckLimit
    <2> QED
      BY <1>1, <1>2, <1>3, <1>4, <2>1, StepKeeps, RequestTypes, Zenon
  <1> QED
    BY <1>5, <1>6, Zenon

LEMMA TruncateDataKeeps ==
    ASSUME ObjectInv, NEW c \in Clients, Object!TruncateData(c)
    PROVE  ObjectInv'
  <1>1. /\ Served(c) /\ request[c].pc = "truncate" /\ Object!TypeOK
        /\ file' = Object!Torn /\ meta' = meta /\ used' = used /\ writes' = writes /\ mixed' = mixed
        /\ unmetered' = unmetered /\ crashes' = crashes /\ Object!Goto(c, "data")
    BY Zenon DEF Object!TruncateData, Object!At, Served, ObjectInv, FilesInv
  <1>2. /\ "data" \in ObjectSteps /\ "data" \in Apart \cap Charging \cap Informed \cap Admitted
        /\ "truncate" \in Informed \cap Admitted
        /\ "data" \notin {"meta", "metadata", "composite", "compositedata"}
    BY Zenon DEF ObjectSteps, Object!Writing, Apart, Charging, Admitted, Informed
  <1>3. ~unmetered => /\ used \in Nat /\ used <= Limit /\ request[c].previous = used
                      /\ request[c].body.size <= Limit
    BY <1>1, <1>2, MeteredAt, Zenon
  <1>4. PICK new \in Requests :
              /\ Becomes(c, new)
              /\ new.pc = "data" /\ new.route = request[c].route /\ new.body = request[c].body
              /\ new.previous = request[c].previous /\ new.raced = request[c].raced
    BY <1>1, <1>2, GotoMoves, Zenon
  <1> QED
    BY <1>1, <1>2, <1>3, <1>4, StepKeeps, RequestTypes, Zenon

\* What lands in a file is a file; unraced, it is the body.
LEMMA LandedIsFile ==
    ASSUME ObjectInv, NEW c \in Clients, NEW f \in Object!Files, NEW g \in Object!Landed(c, f)
    PROVE  g \in Object!Files /\ (~request[c].raced => g = request[c].body)
  BY RequestTypes, Zenon DEF Object!Landed

LEMMA WriteDataKeeps ==
    ASSUME ObjectInv, NEW c \in Clients, Object!WriteData(c)
    PROVE  ObjectInv'
  <1>1. /\ Served(c) /\ request[c].pc = "data" /\ Object!TypeOK
        /\ meta' = meta /\ used' = used /\ writes' = writes /\ mixed' = mixed
        /\ unmetered' = unmetered /\ crashes' = crashes /\ Object!Goto(c, "meta")
        /\ file' \in Object!Landed(c, file)
    BY Zenon DEF Object!WriteData, Object!At, Served, ObjectInv, FilesInv
  <1>2. /\ "meta" \in ObjectSteps /\ "meta" \in Apart \cap Charging \cap Informed \cap Admitted
        /\ "data" \in Informed \cap Admitted
    BY Zenon DEF ObjectSteps, Object!Writing, Apart, Charging, Admitted, Informed
  <1>3. ~unmetered => /\ used \in Nat /\ used <= Limit /\ request[c].previous = used
                      /\ request[c].body.size <= Limit
    BY <1>1, <1>2, MeteredAt, Zenon
  <1>4. PICK new \in Requests :
              /\ Becomes(c, new)
              /\ new.pc = "meta" /\ new.route = request[c].route /\ new.body = request[c].body
              /\ new.previous = request[c].previous /\ new.raced = request[c].raced
    BY <1>1, <1>2, GotoMoves, Zenon
  <1>5. file' \in Object!Files /\ (~request[c].raced => file' = request[c].body)
    BY <1>1, RequestTypes, LandedIsFile, Zenon
  <1> QED
    BY <1>1, <1>2, <1>3, <1>4, <1>5, StepKeeps, RequestTypes, Zenon

LEMMA TruncateMetaKeeps ==
    ASSUME ObjectInv, NEW c \in Clients, Object!TruncateMeta(c)
    PROVE  ObjectInv'
  <1>1. /\ Served(c) /\ request[c].pc = "meta" /\ Object!TypeOK /\ BodyWritten
        /\ file' = file /\ meta' = Object!Torn /\ used' = used /\ writes' = writes /\ mixed' = mixed
        /\ unmetered' = unmetered /\ crashes' = crashes /\ Object!Goto(c, "metadata")
    BY Zenon DEF Object!TruncateMeta, Object!At, Served, ObjectInv, FilesInv
  <1>2. /\ "metadata" \in ObjectSteps /\ "metadata" \in Apart \cap Charging \cap Informed \cap Admitted
        /\ "meta" \in Informed \cap Admitted
    BY Zenon DEF ObjectSteps, Object!Writing, Apart, Charging, Admitted, Informed
  <1>3. ~unmetered => /\ used \in Nat /\ used <= Limit /\ request[c].previous = used
                      /\ request[c].body.size <= Limit
    BY <1>1, <1>2, MeteredAt, Zenon
  <1>4. PICK new \in Requests :
              /\ Becomes(c, new)
              /\ new.pc = "metadata" /\ new.route = request[c].route /\ new.body = request[c].body
              /\ new.previous = request[c].previous /\ new.raced = request[c].raced
    BY <1>1, <1>2, GotoMoves, Zenon
  <1>5. ~request[c].raced => file = request[c].body
    BY <1>1, Zenon DEF BodyWritten
  <1> QED
    BY <1>1, <1>2, <1>3, <1>4, <1>5, StepKeeps, RequestTypes, Zenon

LEMMA WriteMetaKeeps ==
    ASSUME ObjectInv, NEW c \in Clients, Object!WriteMeta(c)
    PROVE  ObjectInv'
  <1>1. /\ Served(c) /\ request[c].pc = "metadata" /\ Object!TypeOK /\ BodyWritten
        /\ file' = file /\ used' = used /\ writes' = writes /\ mixed' = (mixed /\ request[c].raced)
        /\ unmetered' = unmetered /\ crashes' = crashes
        /\ meta' \in Object!Landed(c, meta)
    BY Zenon DEF Object!WriteMeta, Object!Settle, Object!At, Served, ObjectInv, FilesInv
  <1>2. /\ "record" \in ObjectSteps /\ "record" \in Charging \cap Informed \cap Admitted
        /\ "record" \notin {"meta", "metadata", "composite", "compositedata"}
        /\ "composite" \in ObjectSteps /\ "metadata" \in Informed \cap Admitted
    BY Zenon DEF ObjectSteps, Object!Writing, Apart, Charging, Admitted, Informed
  <1>3. ~unmetered => /\ used \in Nat /\ used <= Limit /\ request[c].previous = used
                      /\ request[c].body.size <= Limit /\ request[c].route = "sdk" /\ ~request[c].raced
    BY <1>1, <1>2, MeteredAt, Zenon
  <1>4. meta' \in Object!Files /\ (~request[c].raced => meta' = request[c].body)
    BY <1>1, RequestTypes, LandedIsFile, Zenon
  <1>5. ~request[c].raced => file = request[c].body /\ file # Object!Torn
    BY <1>1, RequestTypes, Zenon DEF BodyWritten
  <1>6. CASE request[c].route = "sdk"
    <2>1. Object!Goto(c, "record")
      BY <1>6, Zenon DEF Object!WriteMeta
    <2>2. PICK new \in Requests :
              /\ Becomes(c, new)
              /\ new.pc = "record" /\ new.route = request[c].route /\ new.body = request[c].body
              /\ new.previous = request[c].previous /\ new.raced = request[c].raced
      BY <1>1, <1>2, <2>1, GotoMoves, Zenon
    <2> QED
      BY <1>1, <1>2, <1>3, <1>4, <1>5, <2>2, StepKeeps, RequestTypes, Zenon
  <1>7. CASE request[c].route = "complete"
    <2>1. Object!Goto(c, "composite") /\ unmetered
      BY <1>3, <1>7, Zenon DEF Object!WriteMeta
    <2>2. PICK new \in Requests :
              /\ Becomes(c, new)
              /\ new.pc = "composite" /\ new.route = request[c].route /\ new.body = request[c].body
              /\ new.previous = request[c].previous /\ new.raced = request[c].raced
      BY <1>1, <1>2, <2>1, GotoMoves, Zenon
    <2> QED
      BY <1>1, <1>4, <1>5, <2>1, <2>2, StepKeeps, RequestTypes, Zenon
  <1>8. CASE request[c].route \notin {"sdk", "complete"}
    <2>1. Object!Finish(c) /\ unmetered
      BY <1>3, <1>8, Zenon DEF Object!WriteMeta
    <2>2. PICK new \in Requests : new.pc = "idle" /\ Becomes(c, new)
      BY <1>1, <2>1, FinishMoves, Zenon
    <2> QED
      BY <1>1, <1>4, <1>5, <2>1, <2>2, StepKeeps, RequestTypes, Zenon
  <1> QED
    BY <1>6, <1>7, <1>8, Zenon

LEMMA TruncateCompositeKeeps ==
    ASSUME ObjectInv, NEW c \in Clients, Object!TruncateComposite(c)
    PROVE  ObjectInv'
  <1>1. /\ Served(c) /\ request[c].pc = "composite" /\ Object!TypeOK /\ BodyWritten
        /\ file' = file /\ meta' = Object!Torn /\ used' = used /\ writes' = writes /\ mixed' = mixed
        /\ unmetered' = unmetered /\ crashes' = crashes /\ Object!Goto(c, "compositedata")
    BY Zenon DEF Object!TruncateComposite, Object!At, Served, ObjectInv, FilesInv
  <1>2. /\ "compositedata" \in ObjectSteps /\ "compositedata" \in Apart
        /\ "compositedata" \notin Informed \cup Admitted /\ "composite" \notin Charging
    BY Zenon DEF ObjectSteps, Object!Writing, Apart, Charging, Admitted, Informed
  <1>3. ~unmetered => used \in Nat /\ used <= Limit /\ used = file.size
    BY <1>1, <1>2, MeteredAt, Zenon
  <1>4. PICK new \in Requests :
              /\ Becomes(c, new)
              /\ new.pc = "compositedata" /\ new.route = request[c].route /\ new.body = request[c].body
              /\ new.previous = request[c].previous /\ new.raced = request[c].raced
    BY <1>1, <1>2, GotoMoves, Zenon
  <1>5. ~request[c].raced => file = request[c].body
    BY <1>1, Zenon DEF BodyWritten
  <1> QED
    BY <1>1, <1>2, <1>3, <1>4, <1>5, StepKeeps, RequestTypes, Zenon

LEMMA WriteCompositeKeeps ==
    ASSUME ObjectInv, NEW c \in Clients, Object!WriteComposite(c)
    PROVE  ObjectInv'
  <1>1. /\ Served(c) /\ request[c].pc = "compositedata" /\ Object!TypeOK /\ BodyWritten
        /\ file' = file /\ used' = used /\ writes' = writes /\ mixed' = mixed
        /\ unmetered' = unmetered /\ crashes' = crashes
        /\ meta' \in Object!Landed(c, meta) /\ Object!Finish(c)
    BY Zenon DEF Object!WriteComposite, Object!At, Served, ObjectInv, FilesInv
  <1>2. "idle" \notin Informed \cup Admitted /\ "compositedata" \notin Charging
    BY Zenon DEF Charging, Admitted, Informed
  <1>3. ~unmetered => used \in Nat /\ used <= Limit /\ used = file.size
    BY <1>1, <1>2, MeteredAt, Zenon
  <1>4. meta' \in Object!Files /\ (~request[c].raced => meta' = request[c].body)
    BY <1>1, RequestTypes, LandedIsFile, Zenon
  <1>5. ~request[c].raced => file = request[c].body /\ file # Object!Torn
    BY <1>1, RequestTypes, Zenon DEF BodyWritten
  <1>6. PICK new \in Requests : new.pc = "idle" /\ Becomes(c, new)
    BY <1>1, FinishMoves, Zenon
  <1> QED
    BY <1>1, <1>2, <1>3, <1>4, <1>5, <1>6, StepKeeps, RequestTypes, Zenon

LEMMA RecordPutKeeps ==
    ASSUME ObjectInv, NEW c \in Clients, Object!RecordPut(c)
    PROVE  ObjectInv'
  <1>1. /\ Served(c) /\ request[c].pc = "record" /\ Object!TypeOK
        /\ file' = file /\ meta' = meta /\ writes' = writes /\ mixed' = mixed /\ Object!Finish(c)
    BY Zenon DEF Object!RecordPut, Object!At, Served, ObjectInv, FilesInv
  <1>2. /\ "idle" \notin Informed \cup Admitted /\ "record" \in Informed \cap Admitted
        /\ "record" \notin Apart
    BY Zenon DEF Apart, Charging, Admitted, Informed
  <1>3. ~unmetered => /\ used \in Nat /\ used <= Limit /\ request[c].previous = used
                      /\ request[c].body.size <= Limit /\ file = request[c].body
    BY <1>1, <1>2, MeteredAt, Zenon
  <1>4. ~mixed => file = meta /\ file # Object!Torn
    BY <1>1, <1>2, AgreeAt, Zenon
  <1>5. PICK new \in Requests : new.pc = "idle" /\ Becomes(c, new)
    BY <1>1, FinishMoves, Zenon
  <1>6. PICK b, p : b = request[c].body.size /\ p = request[c].previous
    BY Zenon
  <1>7. b \in Nat /\ p \in Nat /\ used \in Int
    BY <1>6, RequestTypes, Zenon
  <1>8. CASE used' = used + Object!Delta(c) /\ UNCHANGED <<unmetered, crashes>>
    <2>1. used' = used + (b - p) /\ unmetered' = unmetered /\ crashes' = crashes
      BY <1>6, <1>8, Zenon DEF Object!Delta
    <2>2. used' \in Int /\ (p = used => used' = b)
      BY <1>7, <2>1
    <2>3. ~unmetered => used' \in Nat /\ used' <= Limit /\ used' = file.size
      BY <1>3, <1>6, <1>7, <2>2, Zenon
    <2> QED
      BY <1>1, <1>2, <1>4, <1>5, <2>1, <2>2, <2>3, StepKeeps, RequestTypes, Zenon
  <1>9. CASE Object!Fault /\ unmetered' = TRUE /\ UNCHANGED used
    <2>1. crashes' \in 0 .. MaxFaults
      BY <1>9, RequestTypes, MultipartAssumption DEF Object!Fault
    <2> QED
      BY <1>1, <1>4, <1>5, <1>9, <2>1, StepKeeps, RequestTypes, Zenon
  <1> QED
    BY <1>8, <1>9, Zenon DEF Object!RecordPut

-----------------------------------------------------------------------------
(* The steps of a delete.                                                  *)
LEMMA HeadDeleteKeeps ==
    ASSUME ObjectInv, NEW c \in Clients, Object!HeadDelete(c)
    PROVE  ObjectInv'
  <1>1. /\ Served(c) /\ request[c].pc = "headdelete" /\ Object!TypeOK
        /\ file' = file /\ meta' = meta /\ used' = used /\ writes' = writes /\ mixed' = mixed
        /\ unmetered' = unmetered /\ crashes' = crashes
    BY Zenon DEF Object!HeadDelete, Object!At, Served, ObjectInv, FilesInv
  <1>2. /\ "removedata" \in ObjectSteps /\ "removedata" \notin Apart \cup Charging \cup Admitted
        /\ "headdelete" \notin Apart \cup Charging
        /\ "idle" \notin Apart \cup Charging \cup Informed \cup Admitted
    BY Zenon DEF ObjectSteps, Object!Writing, Apart, Charging, Admitted, Informed
  <1>3. ~mixed => file = meta /\ file # Object!Torn
    BY <1>1, <1>2, AgreeAt, Zenon
  <1>4. ~unmetered => used \in Nat /\ used <= Limit /\ used = file.size /\ ~mixed
    BY <1>1, <1>2, MeteredAt, Zenon
  <1>5. CASE Object!Readable
    <2>1. meta.size \in Object!SizeBounds
      BY <1>5, RequestTypes, Zenon DEF Object!Readable, Object!Files, Object!SizeBounds, Object!Bodies
    <2>2. Inform(c, "removedata", meta.size)
      BY <1>5, Zenon DEF Object!HeadDelete, Inform
    <2>3. PICK p : p = meta.size
      BY Zenon
    <2>4. p \in Object!SizeBounds /\ Inform(c, "removedata", p)
      BY <2>1, <2>2, <2>3, Zenon
    <2>5. PICK new \in Requests :
              /\ Becomes(c, new)
              /\ new.pc = "removedata" /\ new.route = request[c].route /\ new.body = request[c].body
              /\ new.previous = p /\ new.raced = request[c].raced
      BY <1>2, <2>4, InformedMoves
    <2>6. ~unmetered => p = used
      BY <1>3, <1>4, <2>3, Zenon
    <2> QED
      BY <1>1, <1>2, <1>3, <1>4, <2>5, <2>6, StepKeeps, RequestTypes, Zenon
  <1>6. CASE ~Object!Readable
    <2>1. PICK new \in Requests : new.pc = "idle" /\ Becomes(c, new)
      BY <1>1, <1>6, FinishMoves, Zenon DEF Object!HeadDelete
    <2> QED
      BY <1>1, <1>2, <1>3, <1>4, <2>1, StepKeeps, RequestTypes, Zenon
  <1> QED
    BY <1>5, <1>6, Zenon

LEMMA RemoveDataKeeps ==
    ASSUME ObjectInv, NEW c \in Clients, Object!RemoveData(c)
    PROVE  ObjectInv'
  <1>1. /\ Served(c) /\ request[c].pc = "removedata" /\ Object!TypeOK
        /\ meta' = meta /\ used' = used /\ writes' = writes /\ mixed' = mixed
        /\ unmetered' = unmetered /\ crashes' = crashes
    BY Zenon DEF Object!RemoveData, Object!At, Served, ObjectInv, FilesInv
  <1>2. /\ "removemeta" \in ObjectSteps /\ "removemeta" \in Apart \cap Charging
        /\ "removemeta" \notin Admitted
        /\ "removedata" \notin Apart \cup Charging /\ "removedata" \in Informed
        /\ "idle" \notin Apart \cup Charging \cup Informed \cup Admitted
    BY Zenon DEF ObjectSteps, Object!Writing, Apart, Charging, Admitted, Informed
  <1>3. ~mixed => file = meta /\ file # Object!Torn
    BY <1>1, <1>2, AgreeAt, Zenon
  <1>4. ~unmetered => used \in Nat /\ used <= Limit /\ used = file.size /\ request[c].previous = used
    BY <1>1, <1>2, MeteredAt, Zenon
  <1>5. CASE Object!Exists
    <2>1. file' = Object!NoFile /\ Object!Goto(c, "removemeta")
      BY <1>5, Zenon DEF Object!RemoveData
    <2>2. PICK new \in Requests :
              /\ Becomes(c, new)
              /\ new.pc = "removemeta" /\ new.route = request[c].route /\ new.body = request[c].body
              /\ new.previous = request[c].previous /\ new.raced = request[c].raced
      BY <1>1, <1>2, <2>1, GotoMoves, Zenon
    <2> QED
      BY <1>1, <1>2, <1>4, <2>1, <2>2, StepKeeps, RequestTypes, Zenon
  <1>6. CASE ~Object!Exists
    <2>1. file' = file /\ Object!Finish(c)
      BY <1>6, Zenon DEF Object!RemoveData
    <2>2. PICK new \in Requests : new.pc = "idle" /\ Becomes(c, new)
      BY <1>1, <2>1, FinishMoves, Zenon
    <2> QED
      BY <1>1, <1>2, <1>3, <1>4, <2>1, <2>2, StepKeeps, RequestTypes, Zenon
  <1> QED
    BY <1>5, <1>6, Zenon

LEMMA RemoveMetaKeeps ==
    ASSUME ObjectInv, NEW c \in Clients, Object!RemoveMeta(c)
    PROVE  ObjectInv'
  <1>1. /\ Served(c) /\ request[c].pc = "removemeta" /\ Object!TypeOK /\ BodyWritten
        /\ file' = file /\ meta' = Object!NoFile /\ used' = used /\ writes' = writes
        /\ mixed' = (mixed /\ request[c].raced) /\ unmetered' = unmetered /\ crashes' = crashes
    BY Zenon DEF Object!RemoveMeta, Object!Settle, Object!At, Served, ObjectInv, FilesInv
  <1>2. /\ "uncharge" \in ObjectSteps /\ "uncharge" \in Charging /\ "uncharge" \notin Admitted
        /\ "uncharge" \notin {"meta", "metadata", "composite", "compositedata"}
        /\ "removemeta" \in Informed
    BY Zenon DEF ObjectSteps, Charging, Admitted, Informed
  <1>3. ~request[c].raced => file = Object!NoFile /\ file # Object!Torn
    BY <1>1, BodyIsWhole, Zenon DEF BodyWritten
  <1>4. ~unmetered => /\ used \in Nat /\ used <= Limit /\ request[c].previous = used
                      /\ request[c].route = "sdk" /\ ~request[c].raced
    BY <1>1, <1>2, MeteredAt, Zenon
  <1>5. CASE request[c].route = "sdk"
    <2>1. Object!Goto(c, "uncharge")
      BY <1>5, Zenon DEF Object!RemoveMeta
    <2>2. PICK new \in Requests :
              /\ Becomes(c, new)
              /\ new.pc = "uncharge" /\ new.route = request[c].route /\ new.body = request[c].body
              /\ new.previous = request[c].previous /\ new.raced = request[c].raced
      BY <1>1, <1>2, <2>1, GotoMoves, Zenon
    <2> QED
      BY <1>1, <1>2, <1>3, <1>4, <2>2, StepKeeps, RequestTypes, Zenon
  <1>6. CASE request[c].route # "sdk"
    <2>1. PICK new \in Requests : new.pc = "idle" /\ Becomes(c, new)
      BY <1>1, <1>6, FinishMoves, Zenon DEF Object!RemoveMeta
    <2> QED
      BY <1>1, <1>3, <1>4, <1>6, <2>1, StepKeeps, RequestTypes, Zenon
  <1> QED
    BY <1>5, <1>6, Zenon

LEMMA RecordDeleteKeeps ==
    ASSUME ObjectInv, NEW c \in Clients, Object!RecordDelete(c)
    PROVE  ObjectInv'
  <1>1. /\ Served(c) /\ request[c].pc = "uncharge" /\ Object!TypeOK
        /\ file' = file /\ meta' = meta /\ writes' = writes /\ mixed' = mixed /\ Object!Finish(c)
    BY Zenon DEF Object!RecordDelete, Object!At, Served, ObjectInv, FilesInv
  <1>2. /\ "idle" \notin Informed \cup Admitted /\ "uncharge" \in Informed
        /\ "uncharge" \notin Apart
    BY Zenon DEF Apart, Charging, Admitted, Informed
  <1>3. ~unmetered => request[c].previous = used /\ file = Object!NoFile
    BY <1>1, <1>2, MeteredAt, Zenon
  <1>4. ~mixed => file = meta /\ file # Object!Torn
    BY <1>1, <1>2, AgreeAt, Zenon
  <1>5. PICK new \in Requests : new.pc = "idle" /\ Becomes(c, new)
    BY <1>1, FinishMoves, Zenon
  <1>6. PICK p : p = request[c].previous
    BY Zenon
  <1>7. p \in Nat /\ used \in Int
    BY <1>6, RequestTypes, Zenon
  <1>8. CASE used' = used - request[c].previous /\ UNCHANGED <<unmetered, crashes>>
    <2>1. used' = used - p /\ unmetered' = unmetered /\ crashes' = crashes
      BY <1>6, <1>8, Zenon
    <2>2. used' \in Int /\ (p = used => used' = 0) /\ 0 \in Nat /\ 0 <= Limit
      BY <1>7, <2>1, StorageAssumption
    <2>3. ~unmetered => used' \in Nat /\ used' <= Limit /\ used' = file.size
      BY <1>3, <1>6, <2>2, BodyIsWhole, Zenon
    <2> QED
      BY <1>1, <1>2, <1>4, <1>5, <2>1, <2>2, <2>3, StepKeeps, RequestTypes, Zenon
  <1>9. CASE Object!Fault /\ unmetered' = TRUE /\ UNCHANGED used
    <2>1. crashes' \in 0 .. MaxFaults
      BY <1>9, RequestTypes, MultipartAssumption DEF Object!Fault
    <2> QED
      BY <1>1, <1>4, <1>5, <1>9, <2>1, StepKeeps, RequestTypes, Zenon
  <1> QED
    BY <1>8, <1>9, Zenon DEF Object!RecordDelete

-----------------------------------------------------------------------------
(* A request begins, alone or among others; the server stops.              *)
LEMMA BeginKeeps ==
    ASSUME ObjectInv, NEW c \in Clients, NEW rq \in Requests, Object!Begin(c, rq),
           rq.pc \in {"head", "truncate", "headdelete", "removedata"},
           rq.pc \in {"truncate", "removedata"} => rq.route # "sdk",
           unmetered' = (unmetered \/ rq.route # "sdk" \/ Object!Overlap(c)),
           UNCHANGED <<file, meta, used, crashes>>
    PROVE  ObjectInv'
  <1>1. PICK new : new = [rq EXCEPT !.raced = Object!Overlap(c)]
    BY Zenon
  <1>2. Object!Overlap(c) \in BOOLEAN
    BY Zenon DEF Object!Overlap
  <1>3. /\ new \in Requests /\ new.pc = rq.pc /\ new.route = rq.route
        /\ new.raced = Object!Overlap(c)
    BY <1>1, <1>2, Zenon DEF Requests
  <1>4. /\ request[c].pc = "idle" /\ writes < MaxWrites /\ writes' = writes + 1
        /\ mixed' = (mixed \/ Object!Overlap(c))
        /\ request' = [d \in Clients |->
              IF d = c THEN new
              ELSE IF request[d].pc = "idle" THEN Object!Idle ELSE [request[d] EXCEPT !.raced = TRUE]]
    BY <1>1, Zenon DEF Object!Begin, Object!At
  <1>5. \A d \in Clients : request[d] \in Requests
    BY RequestTypes, Zenon
  <1>6. ASSUME NEW d \in Clients, d # c, request[d].pc # "idle"
        PROVE  request'[d] \in Requests /\ request'[d].raced
    <2>1. PICK was : was = request[d]
      BY Zenon
    <2>2. was \in Requests
      BY <1>5, <2>1, Zenon
    <2>3. PICK r : r = [was EXCEPT !.raced = TRUE]
      BY Zenon
    <2>4. r \in Requests /\ r.raced = TRUE
      BY <2>2, <2>3, Zenon DEF Requests
    <2> QED
      BY <1>4, <1>6, <2>1, <2>3, <2>4, Zenon
  <1>7. ASSUME NEW d \in Clients, d # c, request[d].pc = "idle"
        PROVE  request'[d] \in Requests /\ request'[d].pc = "idle"
    BY <1>4, <1>7, IdleRequest, Zenon
  <1>8. request'[c] = new /\ request' \in [Clients -> Requests]
    BY <1>3, <1>4, <1>6, <1>7, Zenon
  <1>9. ~Object!Overlap(c) => \A d \in Clients : request[d].pc = "idle"
    BY <1>4, Zenon DEF Object!Overlap, Object!At
  <1>10. new.pc # "idle" /\ new.pc \notin Apart \cup Charging \cup {"composite", "record", "uncharge"}
    BY <1>3, Zenon DEF Apart, Charging
  <1>11. Object!TypeOK'
    <2>1. writes' \in 0 .. MaxWrites
      BY <1>4, RequestTypes, StorageAssumption
    <2> QED
      BY <1>2, <1>4, <1>8, <2>1, RequestTypes, Zenon DEF Object!TypeOK, Requests, ObjectSteps
  <1>12. UnracedAlone'
    BY <1>3, <1>6, <1>7, <1>8, <1>9, Zenon DEF UnracedAlone, Served
  <1>13. UnmixedUnraced'
    BY <1>3, <1>4, <1>7, <1>8, <1>9, Zenon DEF UnmixedUnraced, Served
  <1>14. BodyWritten'
    <2> SUFFICES ASSUME NEW d \in Clients, ~request'[d].raced
                 PROVE  request'[d].pc \notin {"meta", "metadata", "composite", "compositedata", "removemeta"}
      BY Zenon DEF BodyWritten
    <2>1. request'[d].pc = new.pc \/ request'[d].pc = "idle"
      BY <1>6, <1>7, <1>8, Zenon
    <2> QED
      BY <1>10, <2>1, Zenon DEF Apart
  <1>15. AgreeBetween'
    <2>1. "idle" \notin Apart
      BY Zenon DEF Apart
    <2> QED
      BY <1>4, <1>9, <2>1, Zenon DEF ObjectInv, FilesInv, AgreeBetween
  <1>16. ~unmetered' => /\ ~unmetered /\ ~mixed' /\ rq.route = "sdk" /\ ~Object!Overlap(c)
                        /\ new.pc \notin {"truncate", "removedata"}
                        /\ \A d \in Clients \ {c} : request'[d].pc = "idle"
    BY <1>3, <1>4, <1>7, <1>9, Zenon DEF ObjectInv, Metered
  <1>17. Metered'
    BY <1>3, <1>8, <1>16, Zenon DEF Metered, Served
  <1>18. ASSUME ~unmetered', NEW d \in Clients PROVE RequestMetered(d)'
    <2>1. request'[d].pc = new.pc \/ request'[d].pc = "idle"
      BY <1>8, <1>16, <1>18, Zenon
    <2>2. request'[d].pc \in {"head", "headdelete", "idle"}
      BY <1>3, <1>16, <1>18, <2>1, Zenon
    <2>3. request'[d].pc \notin Informed \cup Admitted \cup {"record", "uncharge"}
      BY <2>2, Zenon DEF Informed, Admitted, Charging
    <2> QED
      BY <2>3, Zenon DEF RequestMetered
  <1>19. UsageBetween'
    <2>1. "idle" \notin Charging
      BY Zenon DEF Charging
    <2> QED
      BY <1>9, <1>16, <1>18, <2>1, Zenon DEF UsageBetween, ObjectInv
  <1> QED
    BY <1>11, <1>12, <1>13, <1>14, <1>15, <1>17, <1>19, Zenon DEF ObjectInv, FilesInv

LEMMA BeginPutKeeps ==
    ASSUME ObjectInv, NEW c \in Clients, NEW route \in Routes, NEW size \in Sizes,
           Object!BeginPut(c, route, size)
    PROVE  ObjectInv'
  <1>1. PICK pc : pc = IF route = "sdk" THEN "head" ELSE "truncate"
    BY Zenon
  <1>2. PICK body : body = [write |-> writes + 1, size |-> size]
    BY Zenon
  <1>3. PICK rq : rq = [Object!Idle EXCEPT !.pc = pc, !.route = route, !.body = body]
    BY Zenon
  <1>4. /\ Object!Begin(c, rq) /\ UNCHANGED <<file, meta, used, crashes>>
        /\ unmetered' = (unmetered \/ route # "sdk" \/ Object!Overlap(c))
    BY <1>1, <1>2, <1>3, Zenon DEF Object!BeginPut
  <1>5. body \in Object!Bodies
    <2>1. writes + 1 \in 1 .. MaxWrites
      BY <1>4, RequestTypes, StorageAssumption DEF Object!Begin
    <2> QED
      BY <1>2, <2>1, Zenon DEF Object!Bodies
  <1>6. pc \in ObjectSteps /\ route \in {"sdk", "presigned", "host", "complete"}
    BY <1>1, StorageAssumption, Zenon DEF ObjectSteps, Object!Writing
  <1>7. rq \in Requests /\ rq.pc = pc /\ rq.route = route
    <2>1. rq = [pc |-> pc, route |-> route, body |-> body, previous |-> 0, raced |-> FALSE]
      BY <1>3, Zenon DEF Object!Idle
    <2>2. 0 \in Object!SizeBounds
      BY BodyIsWhole, Zenon DEF Object!SizeBounds
    <2> QED
      BY <1>5, <1>6, <2>1, <2>2, Zenon DEF Requests
  <1>8. /\ rq.pc \in {"head", "truncate", "headdelete", "removedata"}
        /\ rq.pc \in {"truncate", "removedata"} => rq.route # "sdk"
    BY <1>1, <1>7, Zenon
  <1> QED
    BY <1>4, <1>7, <1>8, BeginKeeps, Zenon

LEMMA BeginDeleteKeeps ==
    ASSUME ObjectInv, NEW c \in Clients, NEW route \in Routes, Object!BeginDelete(c, route)
    PROVE  ObjectInv'
  <1>1. PICK pc : pc = IF route = "sdk" THEN "headdelete" ELSE "removedata"
    BY Zenon
  <1>2. PICK rq : rq = [Object!Idle EXCEPT !.pc = pc, !.route = route]
    BY Zenon
  <1>3. /\ Object!Begin(c, rq) /\ UNCHANGED <<file, meta, used, crashes>>
        /\ unmetered' = (unmetered \/ route # "sdk" \/ Object!Overlap(c))
    BY <1>1, <1>2, Zenon DEF Object!BeginDelete
  <1>4. pc \in ObjectSteps /\ route \in {"sdk", "presigned", "host", "complete"}
    BY <1>1, StorageAssumption, Zenon DEF ObjectSteps, Object!Writing
  <1>5. rq \in Requests /\ rq.pc = pc /\ rq.route = route
    <2>1. rq = [pc |-> pc, route |-> route, body |-> Object!NoFile, previous |-> 0, raced |-> FALSE]
      BY <1>2, Zenon DEF Object!Idle
    <2>2. 0 \in Object!SizeBounds
      BY BodyIsWhole, Zenon DEF Object!SizeBounds
    <2> QED
      BY <1>4, <2>1, <2>2, Zenon DEF Requests
  <1>6. /\ rq.pc \in {"head", "truncate", "headdelete", "removedata"}
        /\ rq.pc \in {"truncate", "removedata"} => rq.route # "sdk"
    BY <1>1, <1>5, Zenon
  <1> QED
    BY <1>3, <1>5, <1>6, BeginKeeps, Zenon

LEMMA CrashKeeps ==
    ASSUME ObjectInv, Object!Crash
    PROVE  ObjectInv'
  <1>1. /\ Object!Fault /\ unmetered' = TRUE /\ request' = [c \in Clients |-> Object!Idle]
        /\ mixed' = (mixed \/ \E c \in Clients : request[c].pc \in Object!Writing)
        /\ file' = file /\ meta' = meta /\ used' = used /\ writes' = writes
    BY Zenon DEF Object!Crash
  <1>2. \A c \in Clients : request'[c].pc = "idle"
    BY <1>1, IdleRequest, Zenon
  <1>3. Object!TypeOK'
    <2>1. /\ file \in Object!Files /\ meta \in Object!Files /\ used \in Int
          /\ writes \in 0 .. MaxWrites /\ mixed \in BOOLEAN /\ crashes \in 0 .. MaxFaults
      BY ObjectTypes, Zenon DEF ObjectInv, FilesInv
    <2>2. crashes' \in 0 .. MaxFaults
      BY <1>1, <2>1, MultipartAssumption DEF Object!Fault
    <2>3. mixed' \in BOOLEAN /\ request' \in [Clients -> Requests]
      BY <1>1, <2>1, IdleRequest, Zenon
    <2> QED
      BY <1>1, <2>1, <2>2, <2>3, Zenon DEF Object!TypeOK, Requests, ObjectSteps
  <1>4. UnracedAlone' /\ UnmixedUnraced'
    BY <1>2, Zenon DEF UnracedAlone, UnmixedUnraced, Served
  <1>5. BodyWritten'
    <2>1. \A c \in Clients : request'[c].pc \notin {"meta", "metadata", "composite", "compositedata", "removemeta"}
      BY <1>2, Zenon
    <2> QED
      BY <2>1, Zenon DEF BodyWritten
  <1>6. AgreeBetween'
    <2>1. Apart \subseteq Object!Writing
      BY Zenon DEF Apart, Object!Writing
    <2> QED
      BY <1>1, <2>1, Zenon DEF AgreeBetween, ObjectInv, FilesInv
  <1> QED
    BY <1>1, <1>3, <1>4, <1>5, <1>6, Zenon DEF ObjectInv, FilesInv, Metered, UsageBetween

LEMMA ObjectStarts ==
    ASSUME Object!Init
    PROVE  ObjectInv
  <1>1. \A c \in Clients : request[c] = Object!Idle /\ request[c].pc = "idle"
    BY IdleRequest, Zenon DEF Object!Init
  <1>2. Object!TypeOK
    <2>1. 0 \in 0 .. MaxWrites /\ 0 \in 0 .. MaxFaults /\ 0 \in Int
      BY StorageAssumption, MultipartAssumption
    <2>2. request \in [Clients -> Requests]
      BY IdleRequest, Zenon DEF Object!Init
    <2> QED
      BY <2>1, <2>2, ObjectTypes, Zenon DEF Object!Init, Object!Files
  <1>3. file = meta /\ file # Object!Torn /\ used = file.size /\ used \in Nat /\ used <= Limit
    <2>1. file = Object!NoFile /\ meta = Object!NoFile /\ used = 0
      BY Zenon DEF Object!Init
    <2>2. 0 \in Nat /\ 0 <= Limit
      BY StorageAssumption
    <2> QED
      BY <2>1, <2>2, BodyIsWhole, Zenon
  <1>4. "idle" \notin {"meta", "metadata", "composite", "compositedata", "removemeta", "record", "uncharge"}
            \cup Informed \cup Admitted
    BY Zenon DEF Informed, Charging, Admitted
  <1>5. UnracedAlone /\ UnmixedUnraced /\ AgreeBetween
    BY <1>1, <1>3, Zenon DEF UnracedAlone, UnmixedUnraced, AgreeBetween, Served
  <1>6. BodyWritten
    BY <1>1, <1>4, Zenon DEF BodyWritten
  <1>7. Metered
    BY <1>1, Zenon DEF Metered, Served, Object!Init
  <1>8. UsageBetween
    BY <1>1, <1>3, <1>4, Zenon DEF UsageBetween, RequestMetered
  <1> QED
    BY <1>2, <1>5, <1>6, <1>7, <1>8, Zenon DEF ObjectInv, FilesInv

LEMMA ObjectUnchanged ==
    ASSUME ObjectInv, UNCHANGED objectVars
    PROVE  ObjectInv'
  BY Zenon DEF objectVars, ObjectInv, FilesInv, Object!TypeOK, UnracedAlone, UnmixedUnraced,
        BodyWritten, AgreeBetween, Metered, UsageBetween, RequestMetered, Served

(* The invariant of the object: a put or a delete that no other request    *)
(* meets keeps the data file, the metadata file and the usage counter in   *)
(* step (put_object_with_metadata, delete_object, record_usage).           *)
THEOREM ObjectInvariance == StorageSpec => []ObjectInv
  <1>1. StorageInit => ObjectInv
    BY ObjectStarts, Zenon DEF StorageInit
  <1>2. ObjectInv /\ [StorageNext]_storageVars => ObjectInv'
    <2> SUFFICES ASSUME ObjectInv, [StorageNext]_storageVars
                 PROVE  ObjectInv'
      BY Zenon
    <2>1. CASE Object!Next
      <3>1. ASSUME NEW c \in Clients, NEW route \in Routes, NEW size \in Sizes,
                   Object!BeginPut(c, route, size)
            PROVE  ObjectInv'
        BY <3>1, BeginPutKeeps, Zenon
      <3>2. ASSUME NEW c \in Clients, NEW route \in Routes, Object!BeginDelete(c, route)
            PROVE  ObjectInv'
        BY <3>2, BeginDeleteKeeps, Zenon
      <3>3. ASSUME NEW c \in Clients,
                   \/ Object!HeadPrevious(c) \/ Object!CheckLimit(c)
                   \/ Object!TruncateData(c) \/ Object!WriteData(c)
                   \/ Object!TruncateMeta(c) \/ Object!WriteMeta(c)
                   \/ Object!TruncateComposite(c) \/ Object!WriteComposite(c) \/ Object!RecordPut(c)
            PROVE  ObjectInv'
        BY <3>3, HeadPreviousKeeps, CheckLimitKeeps, TruncateDataKeeps, WriteDataKeeps,
           TruncateMetaKeeps, WriteMetaKeeps, TruncateCompositeKeeps, WriteCompositeKeeps,
           RecordPutKeeps, Zenon
      <3>4. ASSUME NEW c \in Clients,
                   \/ Object!HeadDelete(c) \/ Object!RemoveData(c)
                   \/ Object!RemoveMeta(c) \/ Object!RecordDelete(c)
            PROVE  ObjectInv'
        BY <3>4, HeadDeleteKeeps, RemoveDataKeeps, RemoveMetaKeeps, RecordDeleteKeeps, Zenon
      <3>5. CASE Object!Crash
        BY <3>5, CrashKeeps, Zenon
      <3> QED
        BY <2>1, <3>1, <3>2, <3>3, <3>4, <3>5, Zenon DEF Object!Next
    <2>2. CASE UNCHANGED objectVars
      BY <2>2, ObjectUnchanged, Zenon
    <2> QED
      BY <2>1, <2>2, Zenon DEF StorageNext, ObjectStep, UploadStep, storageVars
  <1> QED
    BY <1>1, <1>2, PTL DEF StorageSpec

(* Whatever races, failed statements and crashes came before, once a put   *)
(* or a delete of an object has run to its end undisturbed, the metadata   *)
(* file describes the data file, or both are gone.                         *)
THEOREM FilesAgreement == StorageSpec => []FilesAgree
  <1>1. ObjectInv => FilesAgree
    <2>1. "idle" \notin Apart
      BY Zenon DEF Apart
    <2> QED
      BY <2>1, Zenon DEF ObjectInv, FilesInv, AgreeBetween, FilesAgree, Object!FilesAgree,
            Object!Quiet, Object!At
  <1> QED
    BY <1>1, ObjectInvariance, PTL

(* While only the SDK route writes, one request at a time and none cut     *)
(* short, record_usage keeps the counter at exactly the stored bytes, and  *)
(* the check before the write keeps those within the workspace's limit.    *)
THEOREM UsageIsExact == StorageSpec => []UsageExact
  <1>1. ObjectInv => UsageExact
    <2>1. "idle" \notin Charging
      BY Zenon DEF Charging
    <2> QED
      BY <2>1, Zenon DEF ObjectInv, UsageBetween, UsageExact, Object!UsageExact,
            Object!StoredSize, Object!Quiet, Object!At
  <1> QED
    BY <1>1, ObjectInvariance, PTL

-----------------------------------------------------------------------------
(* The upload.  While it is undisturbed, part uploads meet neither a       *)
(* completion nor a removal, so a part's two files agree unless its upload *)
(* is on the way, and a completion finds what its request names or finds   *)
(* it gone.                                                                *)
Creating == {"mkroot", "manifest", "fillmanifest"}
Filling == {"fill", "openmeta", "fillmeta"}
Is(c, S) == client[c].pc \in S

UploadSteps == {"idle"} \cup Creating \cup PutSteps \cup EndSteps

Services ==
    [pc : UploadSteps, part : Parts \cup {0}, body : Files, list : Seq(Entries), got : Seq(Files)]

UploadTypes ==
    /\ root \in BOOLEAN /\ data \in [Parts -> Files] /\ etag \in [Parts -> Files]
    /\ client \in [Clients -> Services] /\ cleaner \in {"asleep", "remove", "rmdir"}
    /\ puts \in Nat

NoParts == \A n \in Parts : data[n] = None /\ etag[n] = None

\* Nobody knows the upload before it is created.
CreatorAlone ==
    \A c \in Clients : Is(c, Creating) =>
        /\ \A d \in Clients \ {c} : client[d].pc = "idle"
        /\ cleaner = "asleep" /\ ~old /\ okays = 0 /\ NoParts
        /\ client[c].pc = "mkroot" => manifest = "none" /\ ~root
        /\ client[c].pc = "manifest" => manifest = "none" /\ root
        /\ client[c].pc = "fillmanifest" => manifest = "torn" /\ root

PutterAlone(c) ==
    /\ client[c].part \in Parts /\ client[c].body \in Etags
    /\ cleaner = "asleep" /\ \A d \in Clients : ~Is(d, EndSteps)
    /\ \A d \in Clients \ {c} : Is(d, PutSteps) => client[d].part # client[c].part
    /\ client[c].pc # "putread" => manifest = "ok"

PuttersAlone == \A c \in Clients : Is(c, PutSteps) => PutterAlone(c)

FilesOf(r) ==
    /\ r.pc = "fill" => data[r.part] = Torn
    /\ r.pc = "openmeta" => data[r.part] = r.body
    /\ r.pc = "fillmeta" => data[r.part] = r.body /\ etag[r.part] = Torn

PartsWhole ==
    /\ \A n \in Parts : (\A c \in Clients : Is(c, Filling) => client[c].part # n)
                        => data[n] = etag[n] /\ data[n] # Torn
    /\ \A c \in Clients : FilesOf(client[c])

\* The removal of the files is followed by that of the directory.
Rmdir == cleaner = "rmdir" \/ \E c \in Clients : client[c].pc = "rmdir"

Directory ==
    Created => /\ manifest \in {"none", "ok"}
               /\ manifest = "ok" => root /\ ~Rmdir
               /\ manifest = "none" => NoParts /\ (root => Rmdir)

\* What a completion has read so far.
InOrder(list, k) == \A i, j \in 1 .. k : i < j => list[i].part < list[j].part

ReadSoFar(r) ==
    /\ r.pc = "endread" => r.got = <<>> /\ r.list # <<>>
    /\ r.pc \in {"etag", "data", "store"} => \A i \in 1 .. Len(r.got) : r.got[i] = r.list[i].etag
    /\ r.pc \in {"etag", "data"} => Len(r.got) < Len(r.list)
    /\ r.pc \in {"etag", "store"} => InOrder(r.list, Len(r.got))
    /\ r.pc = "data" => InOrder(r.list, Len(r.got) + 1)
    /\ r.pc = "store" => Len(r.got) = Len(r.list)

Named(r) == r.list[Len(r.got) + 1]

StillNamed(r) ==
    r.pc = "data" => Named(r).part \in Parts /\ data[Named(r).part] \in {None, Named(r).etag}

Readers == \A c \in Clients : ReadSoFar(client[c]) /\ StillNamed(client[c])

Completed == okays \in {0, 1} /\ (okays = 1 => ~root /\ manifest = "none" /\ Created)

Undisturbed ==
    UploadTypes /\ CreatorAlone /\ PuttersAlone /\ PartsWhole /\ Directory /\ Readers /\ Completed

UploadInv == ~disturbed => Undisturbed

-----------------------------------------------------------------------------
(* How a step changes the request it serves.                               *)
Turns(c, new) == client' = [client EXCEPT ![c] = new]

LEMMA StepKinds ==
    /\ \A s \in PutSteps : s \notin EndSteps \cup Creating \cup {"idle", "rmdir"}
    /\ \A s \in EndSteps : s \notin PutSteps \cup Creating \cup Filling \cup {"idle"}
    /\ \A s \in Creating : s \notin PutSteps \cup EndSteps \cup Filling \cup {"idle"}
    /\ \A s \in Filling : s \in PutSteps /\ s # "putread"
    /\ "fill" \in Filling /\ "openmeta" \in Filling /\ "fillmeta" \in Filling
    /\ \A s \in {"endread", "etag", "data", "store", "rmdir"} : s \in EndSteps
    /\ "idle" \notin Creating \cup PutSteps \cup EndSteps
  BY Zenon DEF PutSteps, EndSteps, Creating, Filling

LEMMA IdleService == Idle \in Services /\ Idle.pc = "idle"
  <1>1. \A S : <<>> \in Seq(S)
    OBVIOUS
  <1>2. None \in Files /\ "idle" \in UploadSteps
    BY Zenon DEF Files, UploadSteps
  <1>3. Idle = [pc |-> "idle", part |-> 0, body |-> None, list |-> <<>>, got |-> <<>>]
    BY Zenon DEF Idle
  <1> QED
    BY <1>1, <1>2, <1>3, Zenon DEF Services

LEMMA TurnsOne ==
    ASSUME UploadTypes, NEW c \in Clients, NEW new \in Services, Turns(c, new)
    PROVE  /\ client' \in [Clients -> Services] /\ client'[c] = new
           /\ \A d \in Clients \ {c} : client'[d] = client[d]
  BY Zenon DEF UploadTypes, Turns

LEMMA FinishTurns ==
    ASSUME NEW c \in Clients, Finish(c)
    PROVE  \E new \in Services : new.pc = "idle" /\ Turns(c, new)
  BY IdleService, Zenon DEF Finish, Turns

LEMMA GotoTurns ==
    ASSUME UploadTypes, NEW c \in Clients, NEW pc \in UploadSteps, Goto(c, pc)
    PROVE  \E new \in Services :
              /\ Turns(c, new) /\ new.pc = pc /\ new.part = client[c].part
              /\ new.body = client[c].body /\ new.list = client[c].list /\ new.got = client[c].got
  <1>1. PICK new : new = [client[c] EXCEPT !.pc = pc]
    BY Zenon
  <1>2. client[c] \in Services
    BY Zenon DEF UploadTypes
  <1>3. /\ new \in Services /\ new.pc = pc /\ new.part = client[c].part
        /\ new.body = client[c].body /\ new.list = client[c].list /\ new.got = client[c].got
    BY <1>1, <1>2, Zenon DEF Services
  <1>4. Turns(c, new)
    BY <1>1, Zenon DEF Goto, Turns
  <1> QED
    BY <1>3, <1>4, Zenon

\* A request that is served, or that begins once the upload is known, is no
\* creation's: the upload is created.
LEMMA NoCreator ==
    ASSUME Undisturbed, NEW c \in Clients, client[c].pc # "idle", ~Is(c, Creating)
    PROVE  Created
  <1>1. \A d \in Clients : ~Is(d, Creating)
    BY Zenon DEF Undisturbed, CreatorAlone
  <1> QED
    BY <1>1, Zenon DEF Created, Is, Creating

\* A step of one request keeps what is known of the part uploads and of the
\* completions, if it does its part.
LEMMA StepKeepsPutters ==
    ASSUME Undisturbed, NEW c \in Clients, NEW new \in Services, Turns(c, new),
           cleaner' = cleaner, manifest' = manifest,
           new.pc \in PutSteps =>
               /\ new.part \in Parts /\ new.body \in Etags
               /\ cleaner = "asleep" /\ \A d \in Clients \ {c} : ~Is(d, EndSteps)
               /\ \A d \in Clients \ {c} : Is(d, PutSteps) => client[d].part # new.part
               /\ new.pc # "putread" => manifest = "ok",
           new.pc \in EndSteps => \A d \in Clients \ {c} : ~Is(d, PutSteps)
    PROVE  PuttersAlone'
  <1>1. client'[c] = new /\ \A d \in Clients \ {c} : client'[d] = client[d]
    BY TurnsOne, Zenon DEF Undisturbed
  <1>2. \A s \in PutSteps : s \notin EndSteps
    BY StepKinds, Zenon
  <1> SUFFICES ASSUME NEW d \in Clients, client'[d].pc \in PutSteps
               PROVE  PutterAlone(d)'
    BY Zenon DEF PuttersAlone, Is
  <1>3. CASE d = c
    BY <1>1, <1>2, <1>3, Zenon DEF PutterAlone, Is
  <1>4. CASE d # c
    <2>1. PutterAlone(d) /\ new.pc \notin EndSteps
      BY <1>1, <1>4, Zenon DEF Undisturbed, PuttersAlone, Is
    <2> QED
      BY <1>1, <1>4, <2>1, Zenon DEF PutterAlone, Is
  <1> QED
    BY <1>3, <1>4, Zenon

LEMMA StepKeepsReaders ==
    ASSUME Undisturbed, NEW c \in Clients, NEW new \in Services, Turns(c, new),
           ReadSoFar(new), StillNamed(new)',
           \/ \A n \in Parts : data'[n] \in {data[n], None}
           \/ \A d \in Clients \ {c} : ~Is(d, EndSteps)
    PROVE  Readers'
  <1>1. client'[c] = new /\ \A d \in Clients \ {c} : client'[d] = client[d]
    BY TurnsOne, Zenon DEF Undisturbed
  <1>2. "data" \in EndSteps
    BY StepKinds, Zenon
  <1> SUFFICES ASSUME NEW d \in Clients
               PROVE  ReadSoFar(client'[d]) /\ StillNamed(client[d])'
    BY Zenon DEF Readers, ReadSoFar
  <1>3. CASE d = c
    <2>1. StillNamed(client[d])'
      BY <1>1, <1>3, Zenon DEF StillNamed, Named
    <2> QED
      BY <1>1, <1>3, <2>1, Zenon
  <1>4. CASE d # c
    <2>1. ReadSoFar(client[d]) /\ StillNamed(client[d]) /\ client'[d] = client[d]
      BY <1>1, <1>4, Zenon DEF Undisturbed, Readers
    <2>2. StillNamed(client[d])'
      BY <1>2, <1>4, <2>1, Zenon DEF StillNamed, Named, Is
    <2> QED
      BY <2>1, <2>2, Zenon
  <1> QED
    BY <1>3, <1>4, Zenon

\* The upload stays created, and creation is over.
LEMMA StaysCreated ==
    ASSUME UploadTypes, Created, NEW c \in Clients, NEW new \in Services, Turns(c, new),
           new.pc \notin Creating
    PROVE  Created' /\ CreatorAlone'
  <1>1. \A d \in Clients : client'[d].pc \notin Creating
    BY TurnsOne, Zenon DEF Created, Creating
  <1> QED
    BY <1>1, Zenon DEF Created, CreatorAlone, Is, Creating

\* A step that leaves the files as they are.
LEMMA FilesStay ==
    ASSUME Undisturbed, Created, NEW c \in Clients, NEW new \in Services, Turns(c, new),
           UNCHANGED <<root, manifest, data, etag, cleaner, okays>>, puts' \in Nat,
           client[c].pc \notin Filling \cup {"rmdir"},
           new.pc \notin Creating \cup Filling \cup {"rmdir"},
           new.pc \in PutSteps =>
               /\ new.part \in Parts /\ new.body \in Etags
               /\ cleaner = "asleep" /\ \A d \in Clients \ {c} : ~Is(d, EndSteps)
               /\ \A d \in Clients \ {c} : Is(d, PutSteps) => client[d].part # new.part
               /\ new.pc # "putread" => manifest = "ok",
           new.pc \in EndSteps => \A d \in Clients \ {c} : ~Is(d, PutSteps),
           ReadSoFar(new), StillNamed(new)
    PROVE  Undisturbed'
  <1>1. /\ client' \in [Clients -> Services] /\ client'[c] = new
        /\ \A d \in Clients \ {c} : client'[d] = client[d]
    BY TurnsOne, Zenon DEF Undisturbed
  <1>2. UploadTypes'
    BY <1>1, Zenon DEF Undisturbed, UploadTypes
  <1>3. Created' /\ CreatorAlone'
    BY StaysCreated, Zenon DEF Undisturbed
  <1>4. PuttersAlone'
    BY StepKeepsPutters, Zenon
  <1>5. Readers'
    <2>1. StillNamed(new)'
      BY Zenon DEF StillNamed, Named
    <2>2. \A n \in Parts : data'[n] \in {data[n], None}
      BY Zenon
    <2> QED
      BY <2>1, <2>2, StepKeepsReaders, Zenon
  <1>6. PartsWhole'
    <2>1. \A d \in Clients : Is(d, Filling)' <=> Is(d, Filling)
      BY <1>1, Zenon DEF Is
    <2>2. \A d \in Clients \ {c} : client'[d].part = client[d].part
      BY <1>1, Zenon
    <2>3. ~Is(c, Filling) /\ ~Is(c, Filling)'
      BY <1>1, Zenon DEF Is
    <2>4. \A n \in Parts : (\A d \in Clients : Is(d, Filling)' => client'[d].part # n)
                        => data'[n] = etag'[n] /\ data'[n] # Torn
      BY <2>1, <2>2, <2>3, Zenon DEF Undisturbed, PartsWhole
    <2>5. ASSUME NEW d \in Clients PROVE FilesOf(client[d])'
      <3>1. CASE d = c
        BY <1>1, <2>3, <3>1, StepKinds, Zenon DEF FilesOf, Is
      <3>2. CASE d # c
        <4>1. FilesOf(client[d]) /\ client'[d] = client[d] /\ data' = data /\ etag' = etag
          BY <1>1, <3>2, Zenon DEF Undisturbed, PartsWhole
        <4> QED
          BY <4>1, Zenon DEF FilesOf
      <3> QED
        BY <3>1, <3>2, Zenon
    <2> QED
      BY <2>4, <2>5, Zenon DEF PartsWhole
  <1>7. Directory'
    <2>1. Rmdir' <=> Rmdir
      BY <1>1, Zenon DEF Rmdir
    <2> QED
      BY <2>1, Zenon DEF Directory, Undisturbed, NoParts
  <1>8. Completed'
    BY <1>3, Zenon DEF Completed, Undisturbed
  <1> QED
    BY <1>2, <1>3, <1>4, <1>5, <1>6, <1>7, <1>8, Zenon DEF Undisturbed

\* Answered requests leave nothing to keep.
LEMMA FilesStayDone ==
    ASSUME Undisturbed, NEW c \in Clients, client[c].pc # "idle", ~Is(c, Creating), Finish(c),
           UNCHANGED <<root, manifest, data, etag, cleaner, okays, puts>>,
           client[c].pc \notin Filling \cup {"rmdir"}
    PROVE  Undisturbed'
  <1>1. PICK new \in Services : new.pc = "idle" /\ Turns(c, new)
    BY FinishTurns, Zenon
  <1>2. Created
    BY NoCreator, Zenon
  <1>3. "idle" \notin Creating \cup Filling \cup {"rmdir"} \cup PutSteps \cup EndSteps
    BY StepKinds, Zenon
  <1>4. ReadSoFar(new) /\ StillNamed(new)
    BY <1>1, Zenon DEF ReadSoFar, StillNamed
  <1>5. puts' \in Nat
    BY Zenon DEF Undisturbed, UploadTypes
  <1> QED
    BY <1>1, <1>2, <1>3, <1>4, <1>5, FilesStay, Zenon

-----------------------------------------------------------------------------
(* The steps that read, or begin.                                          *)
LEMMA BeginUploadKeeps ==
    ASSUME Undisturbed, ~disturbed', NEW c \in Clients, NEW n \in Parts, BeginPut(c, n)
    PROVE  Undisturbed'
  <1>1. /\ client[c].pc = "idle" /\ Created /\ puts < MaxPuts /\ puts' = puts + 1
        /\ UNCHANGED <<root, manifest, data, etag, cleaner, okays>>
        /\ ~Putting(n) /\ ~Ending /\ ~Removing
    BY Zenon DEF BeginPut, At
  <1>2. PICK new : new = [Idle EXCEPT !.pc = "putread", !.part = n, !.body = puts + 1]
    BY Zenon
  <1>3. Turns(c, new)
    BY <1>2, Zenon DEF BeginPut, Turns
  <1>4. puts + 1 \in Etags /\ puts' \in Nat
    BY <1>1, MultipartAssumption DEF Undisturbed, UploadTypes, Etags
  <1>5. new = [pc |-> "putread", part |-> n, body |-> puts + 1, list |-> <<>>, got |-> <<>>]
    BY <1>2, Zenon DEF Idle
  <1>6. /\ "putread" \in UploadSteps /\ "putread" \in PutSteps
        /\ "putread" \notin Creating \cup Filling \cup EndSteps \cup {"rmdir"}
        /\ "idle" \notin Filling \cup {"rmdir"}
    BY Zenon DEF UploadSteps, PutSteps, Creating, Filling, EndSteps
  <1>7. /\ new \in Services /\ new.pc = "putread" /\ new.part = n /\ new.body = puts + 1
    <2>1. \A S : <<>> \in Seq(S)
      OBVIOUS
    <2> QED
      BY <1>4, <1>5, <1>6, <2>1, Zenon DEF Services, Files
  <1>8. cleaner = "asleep" /\ \A d \in Clients \ {c} : ~Is(d, EndSteps)
    BY <1>1, Zenon DEF Undisturbed, UploadTypes, Removing, Ending, Is
  <1>9. \A d \in Clients \ {c} : Is(d, PutSteps) => client[d].part # n
    BY <1>1, Zenon DEF Putting, Is
  <1>10. ReadSoFar(new) /\ StillNamed(new)
    BY <1>7, Zenon DEF ReadSoFar, StillNamed
  <1> QED
    BY <1>1, <1>3, <1>4, <1>6, <1>7, <1>8, <1>9, <1>10, FilesStay, Zenon

\* A client's list is a sequence of entries.
LEMMA ListsAreSeqs == Lists \subseteq Seq(Entries)
  <1>1. 1 \in Nat /\ 2 \in Nat
    BY Zenon
  <1>2. <<>> \in Seq(Entries)
    OBVIOUS
  <1> QED
    BY <1>1, <1>2, SeqDef, Zenon DEF Lists

LEMMA BeginEndKeeps ==
    ASSUME Undisturbed, ~disturbed', NEW c \in Clients, NEW list \in Lists, BeginEnd(c, list)
    PROVE  Undisturbed'
  <1>1. /\ client[c].pc = "idle" /\ Created /\ puts' = puts
        /\ UNCHANGED <<root, manifest, data, etag, cleaner, okays>>
        /\ \A n \in Parts : ~Putting(n)
    BY Zenon DEF BeginEnd, At
  <1>2. PICK pc : pc = IF list = <<>> THEN "abortread" ELSE "endread"
    BY Zenon
  <1>3. PICK new : new = [Idle EXCEPT !.pc = pc, !.list = list]
    BY Zenon
  <1>4. Turns(c, new)
    BY <1>2, <1>3, Zenon DEF BeginEnd, Turns
  <1>5. new = [pc |-> pc, part |-> 0, body |-> None, list |-> list, got |-> <<>>]
    BY <1>3, Zenon DEF Idle
  <1>6. /\ pc \in UploadSteps /\ pc \in EndSteps
        /\ pc \notin Creating \cup Filling \cup PutSteps \cup {"rmdir", "etag", "data", "store"}
        /\ "idle" \notin Filling \cup {"rmdir"}
        /\ pc = "endread" => list # <<>>
    BY <1>2, Zenon DEF UploadSteps, PutSteps, Creating, Filling, EndSteps
  <1>7. new \in Services /\ new.pc = pc /\ new.list = list /\ new.got = <<>>
    <2>1. \A S : <<>> \in Seq(S)
      OBVIOUS
    <2> QED
      BY <1>5, <1>6, <2>1, ListsAreSeqs, Zenon DEF Services, Files
  <1>8. \A d \in Clients \ {c} : ~Is(d, PutSteps)
    BY <1>1, Zenon DEF Putting, Is, Undisturbed, PuttersAlone, PutterAlone
  <1>9. ReadSoFar(new) /\ StillNamed(new)
    BY <1>6, <1>7, Zenon DEF ReadSoFar, StillNamed
  <1>10. puts' \in Nat
    BY <1>1, Zenon DEF Undisturbed, UploadTypes
  <1> QED
    BY <1>1, <1>4, <1>6, <1>7, <1>8, <1>9, <1>10, FilesStay, Zenon

LEMMA PutReadKeeps ==
    ASSUME Undisturbed, NEW c \in Clients, PutRead(c)
    PROVE  Undisturbed'
  <1>1. /\ client[c].pc = "putread" /\ GotoIf(c, manifest = "ok", "mkdir")
        /\ UNCHANGED <<root, manifest, data, etag, cleaner, okays, puts>>
    BY Zenon DEF PutRead, At, counters
  <1>2. /\ "mkdir" \in UploadSteps /\ "mkdir" \in PutSteps /\ "putread" \in PutSteps
        /\ "mkdir" \notin Creating \cup Filling \cup EndSteps \cup {"rmdir"}
        /\ "putread" \notin Creating \cup Filling \cup {"rmdir", "idle"}
    BY Zenon DEF UploadSteps, PutSteps, Creating, Filling, EndSteps
  <1>3. Created /\ PutterAlone(c) /\ UploadTypes /\ puts' \in Nat
    BY <1>1, <1>2, NoCreator, Zenon DEF Undisturbed, PuttersAlone, Is, UploadTypes
  <1>4. CASE manifest = "ok"
    <2>1. PICK new \in Services :
              /\ Turns(c, new) /\ new.pc = "mkdir" /\ new.part = client[c].part
              /\ new.body = client[c].body /\ new.list = client[c].list /\ new.got = client[c].got
      BY <1>1, <1>2, <1>3, <1>4, GotoTurns DEF GotoIf
    <2>2. ReadSoFar(new) /\ StillNamed(new)
      BY <2>1, Zenon DEF ReadSoFar, StillNamed
    <2>3. /\ new.part \in Parts /\ new.body \in Etags
          /\ cleaner = "asleep" /\ \A d \in Clients \ {c} : ~Is(d, EndSteps)
          /\ \A d \in Clients \ {c} : Is(d, PutSteps) => client[d].part # new.part
      BY <1>3, <2>1, Zenon DEF PutterAlone
    <2> QED
      BY <1>1, <1>2, <1>3, <1>4, <2>1, <2>2, <2>3, FilesStay, Zenon
  <1>5. CASE manifest # "ok"
    BY <1>1, <1>2, <1>5, FilesStayDone, Zenon DEF GotoIf, Is
  <1> QED
    BY <1>4, <1>5, Zenon

LEMMA MakePartsDirKeeps ==
    ASSUME Undisturbed, NEW c \in Clients, MakePartsDir(c)
    PROVE  Undisturbed'
  <1>1. /\ client[c].pc = "mkdir" /\ Goto(c, "open") /\ root' = TRUE
        /\ UNCHANGED <<manifest, data, etag, cleaner, okays, puts>>
    BY Zenon DEF MakePartsDir, At, counters
  <1>2. /\ "open" \in UploadSteps /\ "open" \in PutSteps /\ "mkdir" \in PutSteps
        /\ "open" \notin Creating \cup Filling \cup EndSteps \cup {"rmdir"}
        /\ "mkdir" \notin Creating \cup Filling \cup {"rmdir", "idle", "putread"}
    BY Zenon DEF UploadSteps, PutSteps, Creating, Filling, EndSteps
  <1>3. Created /\ PutterAlone(c) /\ UploadTypes /\ puts' \in Nat
    BY <1>1, <1>2, NoCreator, Zenon DEF Undisturbed, PuttersAlone, Is, UploadTypes
  <1>4. manifest = "ok"
    BY <1>1, <1>2, <1>3, Zenon DEF PutterAlone
  <1>5. root' = root
    BY <1>1, <1>3, <1>4, Zenon DEF Undisturbed, Directory, UploadTypes
  <1>6. PICK new \in Services :
              /\ Turns(c, new) /\ new.pc = "open" /\ new.part = client[c].part
              /\ new.body = client[c].body /\ new.list = client[c].list /\ new.got = client[c].got
    BY <1>1, <1>2, <1>3, GotoTurns
  <1>7. ReadSoFar(new) /\ StillNamed(new)
    BY <1>6, Zenon DEF ReadSoFar, StillNamed
  <1>8. /\ new.part \in Parts /\ new.body \in Etags
        /\ cleaner = "asleep" /\ \A d \in Clients \ {c} : ~Is(d, EndSteps)
        /\ \A d \in Clients \ {c} : Is(d, PutSteps) => client[d].part # new.part
    BY <1>3, <1>6, Zenon DEF PutterAlone
  <1> QED
    BY <1>1, <1>2, <1>3, <1>4, <1>5, <1>6, <1>7, <1>8, FilesStay, Zenon

\* Nobody uploads a part while a completion or an abort is served, and so
\* every part is whole.
LEMMA EnderAlone ==
    ASSUME Undisturbed, NEW c \in Clients, Is(c, EndSteps)
    PROVE  /\ Created /\ UploadTypes /\ \A d \in Clients : ~Is(d, PutSteps)
           /\ \A n \in Parts : data[n] = etag[n]
  <1>1. Created /\ UploadTypes
    BY NoCreator, StepKinds, Zenon DEF Is, Undisturbed
  <1>2. \A d \in Clients : ~Is(d, PutSteps)
    BY Zenon DEF Undisturbed, PuttersAlone, PutterAlone
  <1>3. \A d \in Clients : ~Is(d, Filling)
    BY <1>2, StepKinds, Zenon DEF Is
  <1> QED
    BY <1>1, <1>2, <1>3, Zenon DEF Undisturbed, PartsWhole

\* A completion or an abort that goes on, leaving the files as they are.
LEMMA EnderGoes ==
    ASSUME Undisturbed, NEW c \in Clients, Is(c, EndSteps), client[c].pc # "rmdir",
           NEW new \in Services, Turns(c, new), new.pc \in EndSteps, new.pc # "rmdir",
           UNCHANGED <<root, manifest, data, etag, cleaner, okays, puts>>,
           ReadSoFar(new), StillNamed(new)
    PROVE  Undisturbed'
  <1>1. /\ client[c].pc \notin Filling \cup {"rmdir"}
        /\ new.pc \notin Creating \cup Filling \cup PutSteps \cup {"rmdir"}
    BY StepKinds, Zenon DEF Is
  <1>2. puts' \in Nat
    BY Zenon DEF Undisturbed, UploadTypes
  <1>3. Created /\ \A d \in Clients : ~Is(d, PutSteps)
    BY EnderAlone, Zenon
  <1> QED
    BY <1>1, <1>2, <1>3, FilesStay, Zenon

LEMMA EndReadKeeps ==
    ASSUME Undisturbed, NEW c \in Clients, EndRead(c)
    PROVE  Undisturbed'
  <1>1. /\ client[c].pc = "endread" /\ GotoIf(c, manifest = "ok", "etag")
        /\ UNCHANGED <<root, manifest, data, etag, cleaner, okays, puts>>
    BY Zenon DEF EndRead, At, counters
  <1>2. /\ "etag" \in UploadSteps /\ "etag" \in EndSteps /\ "endread" \in EndSteps
        /\ "endread" \notin Creating \cup Filling \cup {"rmdir", "idle"}
    BY DEF UploadSteps, Creating, Filling, EndSteps
  <1>3. UploadTypes /\ client[c].list \in Seq(Entries) /\ client[c].got = <<>> /\ client[c].list # <<>>
    BY <1>1, Zenon DEF Undisturbed, UploadTypes, Services, Readers, ReadSoFar
  <1>4. CASE manifest = "ok"
    <2>1. PICK new \in Services :
              /\ Turns(c, new) /\ new.pc = "etag" /\ new.part = client[c].part
              /\ new.body = client[c].body /\ new.list = client[c].list /\ new.got = client[c].got
      BY <1>1, <1>2, <1>3, <1>4, GotoTurns, Zenon DEF GotoIf
    <2>2. ReadSoFar(new)
      <3>1. PICK list, got : list = new.list /\ got = new.got
        BY Zenon
      <3>2. Len(got) = 0 /\ Len(got) < Len(list)
        BY <1>3, <2>1, <3>1
      <3>3. InOrder(list, 0) /\ \A i \in 1 .. 0 : got[i] = list[i].etag
        BY DEF InOrder
      <3>4. /\ new.pc \notin {"endread", "data", "store"} /\ Len(new.got) = 0
            /\ Len(new.got) < Len(new.list) /\ InOrder(new.list, 0)
            /\ \A i \in 1 .. 0 : new.got[i] = new.list[i].etag
        BY <2>1, <3>1, <3>2, <3>3, Zenon
      <3> QED
        BY <3>4, Zenon DEF ReadSoFar
    <2>3. StillNamed(new)
      BY <2>1, Zenon DEF StillNamed
    <2> QED
      BY <1>1, <1>2, <2>1, <2>2, <2>3, EnderGoes, Zenon DEF Is
  <1>5. CASE manifest # "ok"
    BY <1>1, <1>2, <1>5, FilesStayDone, Zenon DEF GotoIf, Is
  <1> QED
    BY <1>4, <1>5, Zenon

\* One more part in ascending order.
LEMMA OneMoreInOrder ==
    ASSUME NEW list \in Seq(Entries), NEW k \in Nat, k < Len(list), InOrder(list, k),
           k + 1 = 1 \/ list[k + 1].part > list[k].part
    PROVE  InOrder(list, k + 1)
  <1>1. \A i \in 1 .. Len(list) : list[i] \in Entries
    OBVIOUS
  <1>2. \A i \in 1 .. Len(list) : list[i].part \in Nat
    BY <1>1, MultipartAssumption, Zenon DEF Entries
  <1>3. Len(list) \in Nat
    OBVIOUS
  <1> SUFFICES ASSUME NEW i \in 1 .. k + 1, NEW j \in 1 .. k + 1, i < j
               PROVE  list[i].part < list[j].part
    BY Zenon DEF InOrder
  <1>4. CASE j <= k
    <2>1. i \in 1 .. k /\ j \in 1 .. k
      BY <1>4
    <2> QED
      BY <2>1, Zenon DEF InOrder
  <1>5. CASE j = k + 1
    <2>1. k \in 1 .. Len(list) /\ j \in 1 .. Len(list) /\ i \in 1 .. Len(list) /\ k + 1 # 1 /\ i \in 1 .. k
      BY <1>3, <1>5
    <2>2. list[k].part < list[j].part
      BY <1>2, <1>5, <2>1, Zenon
    <2>3. i = k \/ list[i].part < list[k].part
      BY <2>1 DEF InOrder
    <2>4. PICK a, b, d : a = list[i].part /\ b = list[k].part /\ d = list[j].part
      BY Zenon
    <2>5. a \in Nat /\ b \in Nat /\ d \in Nat
      BY <1>2, <2>1, <2>4, Zenon
    <2>6. a < d
      BY <2>2, <2>3, <2>4, <2>5
    <2> QED
      BY <2>4, <2>6, Zenon
  <1> QED
    BY <1>4, <1>5

LEMMA ReadPartMetaKeeps ==
    ASSUME Undisturbed, NEW c \in Clients, ReadPartMeta(c)
    PROVE  Undisturbed'
  <1>1. /\ client[c].pc = "etag"
        /\ GotoIf(c, Ascending(c) /\ EtagMatches(c) /\ LargeEnough(c), "data")
        /\ UNCHANGED <<root, manifest, data, etag, cleaner, okays, puts>>
    BY Zenon DEF ReadPartMeta, At, counters
  <1>2. /\ "data" \in UploadSteps /\ "data" \in EndSteps /\ "etag" \in EndSteps
        /\ "etag" \notin Creating \cup Filling \cup {"rmdir", "idle"}
    BY DEF UploadSteps, Creating, Filling, EndSteps
  <1>3. UploadTypes /\ client[c] \in Services /\ ReadSoFar(client[c])
    BY <1>1, Zenon DEF Undisturbed, UploadTypes, Readers
  <1>4. CASE Ascending(c) /\ EtagMatches(c) /\ LargeEnough(c)
    <2>1. PICK new \in Services :
              /\ Turns(c, new) /\ new.pc = "data" /\ new.part = client[c].part
              /\ new.body = client[c].body /\ new.list = client[c].list /\ new.got = client[c].got
      BY <1>1, <1>2, <1>3, <1>4, GotoTurns DEF GotoIf
    <2>2. PICK list, k : list = client[c].list /\ k = Len(client[c].got)
      BY Zenon
    <2>3. client[c].got \in Seq(Files) /\ list \in Seq(Entries)
      BY <1>3, <2>2, Zenon DEF Services
    <2>4. k \in Nat /\ k < Len(list) /\ InOrder(list, k)
      <3>1. Len(client[c].got) \in Nat
        BY <2>3
      <3> QED
        BY <1>1, <1>3, <2>2, <3>1, Zenon DEF ReadSoFar
    <2>5. /\ k + 1 = 1 \/ list[k + 1].part > list[k].part
          /\ etag[list[k + 1].part] = list[k + 1].etag
      <3>1. Position(c) = k + 1 /\ Entry(c) = list[k + 1]
        BY <2>2, Zenon DEF Position, Entry
      <3>2. Position(c) = 1 \/ Entry(c).part > list[Position(c) - 1].part
        BY <1>4, <2>2, Zenon DEF Ascending
      <3>3. etag[Entry(c).part] = Entry(c).etag
        BY <1>4, Zenon DEF EtagMatches
      <3>4. Position(c) - 1 = k
        BY <2>4, <3>1
      <3> QED
        BY <3>1, <3>2, <3>3, <3>4, Zenon
    <2>6. k + 1 \in 1 .. Len(list)
      BY <2>3, <2>4
    <2>7. InOrder(list, k + 1)
      BY <2>3, <2>4, <2>5, <2>6, OneMoreInOrder, Zenon
    <2>8. list[k + 1].part \in Parts
      <3>1. list[k + 1] \in Entries
        BY <2>3, <2>6
      <3> QED
        BY <3>1, Zenon DEF Entries
    <2>9. data[list[k + 1].part] = list[k + 1].etag
      BY <1>1, <1>2, <2>5, <2>8, EnderAlone, Zenon DEF Is
    <2>10. ReadSoFar(new)
      <3>1. \A i \in 1 .. Len(client[c].got) : client[c].got[i] = client[c].list[i].etag
        BY <1>1, <1>3, Zenon DEF ReadSoFar
      <3>2. new.pc \notin {"endread", "etag", "store"}
        BY <2>1, Zenon
      <3> QED
        BY <2>1, <2>2, <2>4, <2>7, <3>1, <3>2, Zenon DEF ReadSoFar
    <2>11. StillNamed(new)
      BY <2>1, <2>2, <2>8, <2>9, Zenon DEF StillNamed, Named
    <2> QED
      BY <1>1, <1>2, <2>1, <2>10, <2>11, EnderGoes, Zenon DEF Is
  <1>5. CASE ~(Ascending(c) /\ EtagMatches(c) /\ LargeEnough(c))
    <2>1. Finish(c)
      BY <1>1, <1>5, Zenon DEF GotoIf
    <2> QED
      BY <1>1, <1>2, <2>1, FilesStayDone, Zenon DEF Is
  <1> QED
    BY <1>4, <1>5, Zenon

\* What a completion has read is one part longer.
LEMMA ReadTurns ==
    ASSUME UploadTypes, NEW c \in Clients, NEW pc \in UploadSteps, NEW v \in Files,
           client' = [client EXCEPT ![c].got = Append(@, v), ![c].pc = pc]
    PROVE  \E new \in Services :
              /\ Turns(c, new) /\ new.pc = pc /\ new.list = client[c].list
              /\ new.got = Append(client[c].got, v)
  <1>1. client[c] \in Services /\ client \in [Clients -> Services]
    BY Zenon DEF UploadTypes
  <1> DEFINE moved == [client EXCEPT ![c].got = Append(@, v)]
  <1>2. PICK read : read = Append(client[c].got, v)
    BY Zenon
  <1>3. read \in Seq(Files)
    <2>1. client[c].got \in Seq(Files)
      BY <1>1, Zenon DEF Services
    <2> QED
      BY <1>2, <2>1
  <1>4. PICK mid : mid = [client[c] EXCEPT !.got = read]
    BY Zenon
  <1>5. moved = [client EXCEPT ![c] = mid] /\ moved[c] = mid
    BY <1>1, <1>2, <1>4, Zenon
  <1>6. client' = [moved EXCEPT ![c] = [moved[c] EXCEPT !.pc = pc]]
    BY Zenon
  <1> HIDE DEF moved
  <1>7. PICK new : new = [mid EXCEPT !.pc = pc]
    BY Zenon
  <1>8. mid \in Services /\ mid.list = client[c].list /\ mid.got = read
    BY <1>1, <1>3, <1>4, Zenon DEF Services
  <1>9. new \in Services /\ new.pc = pc /\ new.list = client[c].list /\ new.got = read
    BY <1>7, <1>8, Zenon DEF Services
  <1>10. client' = [moved EXCEPT ![c] = new]
    BY <1>5, <1>6, <1>7, Zenon
  <1>11. Turns(c, new)
    BY <1>5, <1>10, Zenon DEF Turns
  <1> QED
    BY <1>2, <1>9, <1>11, Zenon

LEMMA ReadPartDataKeeps ==
    ASSUME Undisturbed, NEW c \in Clients, ReadPartData(c)
    PROVE  Undisturbed'
  <1>1. /\ client[c].pc = "data"
        /\ UNCHANGED <<root, manifest, data, etag, cleaner, okays, puts>>
    BY Zenon DEF ReadPartData, At, counters
  <1>2. /\ "data" \in EndSteps /\ "store" \in UploadSteps \cap EndSteps /\ "etag" \in UploadSteps \cap EndSteps
        /\ "data" \notin Creating \cup Filling \cup {"rmdir", "idle"}
    BY Zenon DEF UploadSteps, Creating, Filling, EndSteps
  <1>3. UploadTypes /\ client[c] \in Services /\ ReadSoFar(client[c]) /\ StillNamed(client[c])
    BY <1>1, Zenon DEF Undisturbed, UploadTypes, Readers
  <1>4. PICK list, got, e : list = client[c].list /\ got = client[c].got /\ e = list[Len(got) + 1]
    BY Zenon
  <1>5. list \in Seq(Entries) /\ got \in Seq(Files) /\ Entry(c) = e /\ Position(c) = Len(got) + 1
    BY <1>3, <1>4, Zenon DEF Services, Entry, Position
  <1>6. /\ Len(got) < Len(list) /\ InOrder(list, Len(got) + 1)
        /\ \A i \in 1 .. Len(got) : got[i] = list[i].etag
        /\ e.part \in Parts /\ data[e.part] \in {None, e.etag}
    BY <1>1, <1>3, <1>4, Zenon DEF ReadSoFar, StillNamed, Named
  <1>7. CASE data[e.part] # None
    <2>1. PICK pc : pc = IF Position(c) = Len(client[c].list) THEN "store" ELSE "etag"
      BY Zenon
    <2>2. PICK v : v = data[e.part]
      BY Zenon
    <2>3. v \in Files /\ v = e.etag
      BY <1>3, <1>6, <1>7, <2>2, Zenon DEF UploadTypes
    <2>4. client' = [client EXCEPT ![c].got = Append(@, v), ![c].pc = pc]
      BY <1>5, <1>7, <2>1, <2>2, Zenon DEF ReadPartData
    <2>5. pc \in UploadSteps /\ pc \in EndSteps /\ pc # "rmdir" /\ pc \notin {"endread", "data"}
      BY <1>2, <2>1, Zenon
    <2>6. PICK new \in Services :
              /\ Turns(c, new) /\ new.pc = pc /\ new.list = list /\ new.got = Append(got, v)
      BY <1>3, <1>4, <2>3, <2>4, <2>5, ReadTurns, Zenon
    <2>7. PICK more : more = Append(got, v)
      BY Zenon
    <2>8. /\ Len(more) = Len(got) + 1 /\ more[Len(got) + 1] = v /\ \A i \in 1 .. Len(got) : more[i] = got[i]
          /\ Len(got) \in Nat /\ Len(list) \in Nat
      BY <1>5, <2>3, <2>7
    <2>9. \A i \in 1 .. Len(got) + 1 : i \in 1 .. Len(got) \/ i = Len(got) + 1
      BY <2>8
    <2>10. \A i \in 1 .. Len(more) : more[i] = list[i].etag
      BY <1>4, <1>6, <2>3, <2>8, <2>9, Zenon
    <2>11. /\ pc = "etag" => Len(more) < Len(list)
           /\ pc = "store" => Len(more) = Len(list)
      <3>1. /\ pc = "etag" => Len(got) + 1 # Len(list)
            /\ pc = "store" => Len(got) + 1 = Len(list)
        BY <1>4, <1>5, <2>1, Zenon
      <3> QED
        BY <1>6, <2>8, <3>1
    <2>12. ReadSoFar(new)
      BY <1>6, <2>5, <2>6, <2>7, <2>8, <2>10, <2>11, Zenon DEF ReadSoFar
    <2>13. StillNamed(new)
      BY <2>5, <2>6, Zenon DEF StillNamed
    <2> QED
      BY <1>1, <1>2, <2>5, <2>6, <2>12, <2>13, EnderGoes, Zenon DEF Is
  <1>8. CASE data[e.part] = None
    <2>1. Finish(c)
      BY <1>5, <1>8, Zenon DEF ReadPartData
    <2> QED
      BY <1>1, <1>2, <2>1, FilesStayDone, Zenon DEF Is
  <1> QED
    BY <1>7, <1>8, Zenon

LEMMA StoreObjectKeeps ==
    ASSUME Undisturbed, NEW c \in Clients, StoreObject(c)
    PROVE  Undisturbed'
  <1>1. /\ client[c].pc = "store" /\ Goto(c, "abortread") /\ UploadTypes
        /\ UNCHANGED <<root, manifest, data, etag, cleaner, okays, puts>>
    BY Zenon DEF StoreObject, At, counters, Undisturbed
  <1>2. "abortread" \in UploadSteps /\ "abortread" \in EndSteps /\ "store" \in EndSteps
    BY Zenon DEF UploadSteps, EndSteps
  <1>3. PICK new \in Services :
              /\ Turns(c, new) /\ new.pc = "abortread" /\ new.part = client[c].part
              /\ new.body = client[c].body /\ new.list = client[c].list /\ new.got = client[c].got
    BY <1>1, <1>2, GotoTurns, Zenon
  <1>4. ReadSoFar(new) /\ StillNamed(new) /\ new.pc # "rmdir" /\ client[c].pc # "rmdir"
    BY <1>1, <1>3, Zenon DEF ReadSoFar, StillNamed
  <1> QED
    BY <1>1, <1>2, <1>3, <1>4, EnderGoes, Zenon DEF Is

LEMMA AbortReadKeeps ==
    ASSUME Undisturbed, NEW c \in Clients, AbortRead(c)
    PROVE  Undisturbed'
  <1>1. /\ client[c].pc = "abortread" /\ GotoIf(c, manifest = "ok", "remove") /\ UploadTypes
        /\ UNCHANGED <<root, manifest, data, etag, cleaner, okays, puts>>
    BY Zenon DEF AbortRead, At, counters, Undisturbed
  <1>2. /\ "remove" \in UploadSteps /\ "remove" \in EndSteps /\ "abortread" \in EndSteps
        /\ "abortread" \notin Creating \cup Filling \cup {"rmdir", "idle"}
    BY Zenon DEF UploadSteps, EndSteps, Creating, Filling
  <1>3. CASE manifest = "ok"
    <2>1. PICK new \in Services :
              /\ Turns(c, new) /\ new.pc = "remove" /\ new.part = client[c].part
              /\ new.body = client[c].body /\ new.list = client[c].list /\ new.got = client[c].got
      BY <1>1, <1>2, <1>3, GotoTurns, Zenon DEF GotoIf
    <2>2. ReadSoFar(new) /\ StillNamed(new) /\ new.pc # "rmdir" /\ client[c].pc # "rmdir"
      BY <1>1, <2>1, Zenon DEF ReadSoFar, StillNamed
    <2> QED
      BY <1>1, <1>2, <2>1, <2>2, EnderGoes, Zenon DEF Is
  <1>4. CASE manifest # "ok"
    BY <1>1, <1>2, <1>4, FilesStayDone, Zenon DEF GotoIf, Is
  <1> QED
    BY <1>3, <1>4, Zenon

-----------------------------------------------------------------------------
(* The steps that write a part.                                            *)
LEMMA PutterWrites ==
    ASSUME Undisturbed, NEW c \in Clients, Is(c, PutSteps), client[c].pc # "putread",
           NEW new \in Services, Turns(c, new),
           UNCHANGED <<root, manifest, cleaner, okays, puts>>,
           data' \in [Parts -> Files], etag' \in [Parts -> Files],
           \A n \in Parts \ {client[c].part} : data'[n] = data[n] /\ etag'[n] = etag[n],
           new.pc \in Filling \cup {"idle"},
           new.pc \in Filling =>
               new.part = client[c].part /\ new.body = client[c].body /\ FilesOf(new)',
           new.pc = "idle" =>
               data'[client[c].part] = etag'[client[c].part] /\ data'[client[c].part] # Torn
    PROVE  Undisturbed'
  <1>1. /\ client' \in [Clients -> Services] /\ client'[c] = new
        /\ \A d \in Clients \ {c} : client'[d] = client[d]
    BY TurnsOne, Zenon DEF Undisturbed
  <1>2. /\ new.pc \notin Creating \cup EndSteps /\ new.pc # "rmdir" /\ client[c].pc # "rmdir"
        /\ new.pc \notin {"endread", "etag", "data", "store"}
        /\ new.pc \in PutSteps => new.pc \in Filling
    BY StepKinds, Zenon DEF Is
  <1>3. PutterAlone(c) /\ Created /\ UploadTypes
    BY NoCreator, StepKinds, Zenon DEF Undisturbed, PuttersAlone, Is
  <1>4. UploadTypes'
    BY <1>1, <1>3, Zenon DEF UploadTypes
  <1>5. Created' /\ CreatorAlone'
    BY <1>2, <1>3, StaysCreated, Zenon
  <1>6. PuttersAlone'
    BY <1>2, <1>3, StepKeepsPutters, Zenon DEF PutterAlone
  <1>7. Readers'
    <2>1. ReadSoFar(new) /\ StillNamed(new)'
      BY <1>2, Zenon DEF ReadSoFar, StillNamed
    <2> QED
      BY <1>3, <2>1, StepKeepsReaders, Zenon DEF PutterAlone
  <1>8. PartsWhole'
    <2>1. ASSUME NEW n \in Parts, \A d \in Clients : Is(d, Filling)' => client'[d].part # n
          PROVE  data'[n] = etag'[n] /\ data'[n] # Torn
      <3>1. CASE n = client[c].part
        <4>1. new.pc = "idle"
          BY <1>1, <2>1, <3>1, Zenon DEF Is
        <4> QED
          BY <3>1, <4>1, Zenon
      <3>2. CASE n # client[c].part
        <4>1. \A d \in Clients : Is(d, Filling) => client[d].part # n
          BY <1>1, <2>1, <3>2, Zenon DEF Is
        <4>2. data[n] = etag[n] /\ data[n] # Torn
          BY <4>1, Zenon DEF Undisturbed, PartsWhole
        <4> QED
          BY <3>2, <4>2, Zenon
      <3> QED
        BY <3>1, <3>2
    <2>2. ASSUME NEW d \in Clients PROVE FilesOf(client[d])'
      <3>1. CASE d = c
        BY <1>1, <3>1, StepKinds, Zenon DEF FilesOf
      <3>2. CASE d # c
        <4>1. FilesOf(client[d]) /\ client'[d] = client[d]
          BY <1>1, <3>2, Zenon DEF Undisturbed, PartsWhole
        <4>2. CASE client[d].pc \in Filling
          <5>1. client[d].part \in Parts \ {client[c].part}
            BY <1>3, <3>2, <4>2, StepKinds, Zenon DEF Undisturbed, PuttersAlone, PutterAlone, Is
          <5>2. data'[client[d].part] = data[client[d].part] /\ etag'[client[d].part] = etag[client[d].part]
            BY <5>1, Zenon
          <5> QED
            BY <4>1, <5>2, Zenon DEF FilesOf
        <4>3. CASE client[d].pc \notin Filling
          <5>1. client'[d].pc \notin {"fill", "openmeta", "fillmeta"}
            BY <4>1, <4>3, Zenon DEF Filling
          <5> QED
            BY <5>1, Zenon DEF FilesOf
        <4> QED
          BY <4>2, <4>3, Zenon
      <3> QED
        BY <3>1, <3>2
    <2> QED
      BY <2>1, <2>2, Zenon DEF PartsWhole
  <1>9. Directory'
    <2>1. Rmdir' <=> Rmdir
      BY <1>1, <1>2, Zenon DEF Rmdir
    <2>2. manifest = "ok"
      BY <1>3, Zenon DEF PutterAlone
    <2> QED
      BY <1>3, <2>1, <2>2, Zenon DEF Directory, Undisturbed
  <1>10. Completed'
    BY <1>5, Zenon DEF Completed, Undisturbed
  <1> QED
    BY <1>4, <1>5, <1>6, <1>7, <1>8, <1>9, <1>10, Zenon DEF Undisturbed

\* What is known of a part upload past its first step.
LEMMA PutterReady ==
    ASSUME Undisturbed, NEW c \in Clients, client[c].pc \in {"open", "fill", "openmeta", "fillmeta"}
    PROVE  /\ Is(c, PutSteps) /\ client[c].pc # "putread" /\ UploadTypes /\ root
           /\ client[c].part \in Parts /\ client[c].body \in Files /\ client[c].body # Torn
           /\ FilesOf(client[c]) /\ Torn \in Files /\ None # Torn
  <1>1. Is(c, PutSteps) /\ client[c].pc # "putread"
    BY Zenon DEF Is, PutSteps
  <1>2. PutterAlone(c) /\ Created /\ UploadTypes
    BY <1>1, NoCreator, StepKinds, Zenon DEF Undisturbed, PuttersAlone, Is
  <1>3. root
    BY <1>1, <1>2, Zenon DEF PutterAlone, Undisturbed, Directory
  <1>4. Torn \notin Etags /\ None # Torn
    BY MultipartAssumption DEF Torn, None, Etags
  <1> QED
    BY <1>1, <1>2, <1>3, <1>4, Zenon DEF PutterAlone, Files, Undisturbed, PartsWhole

LEMMA OpenPartKeeps ==
    ASSUME Undisturbed, NEW c \in Clients, OpenPart(c)
    PROVE  Undisturbed'
  <1>1. /\ client[c].pc = "open" /\ UNCHANGED <<root, manifest, etag, cleaner, okays, puts>>
        /\ data' = IF root THEN [data EXCEPT ![client[c].part] = Torn] ELSE data
        /\ GotoIf(c, root, "fill")
    BY Zenon DEF OpenPart, At, counters
  <1>2. /\ Is(c, PutSteps) /\ client[c].pc # "putread" /\ UploadTypes /\ root
        /\ client[c].part \in Parts /\ Torn \in Files
    BY <1>1, PutterReady, Zenon
  <1>3. data' = [data EXCEPT ![client[c].part] = Torn] /\ Goto(c, "fill")
    BY <1>1, <1>2, Zenon DEF GotoIf
  <1>4. "fill" \in UploadSteps /\ "fill" \in Filling /\ "fill" \notin {"idle", "openmeta", "fillmeta"}
    BY Zenon DEF UploadSteps, PutSteps, Filling
  <1>5. PICK new \in Services :
              /\ Turns(c, new) /\ new.pc = "fill" /\ new.part = client[c].part
              /\ new.body = client[c].body /\ new.list = client[c].list /\ new.got = client[c].got
    BY <1>2, <1>3, <1>4, GotoTurns
  <1>6. /\ data' \in [Parts -> Files] /\ etag' \in [Parts -> Files] /\ data'[client[c].part] = Torn
        /\ \A n \in Parts \ {client[c].part} : data'[n] = data[n] /\ etag'[n] = etag[n]
    BY <1>1, <1>2, <1>3, Zenon DEF UploadTypes
  <1>7. FilesOf(new)'
    BY <1>4, <1>5, <1>6, Zenon DEF FilesOf
  <1> QED
    BY <1>1, <1>2, <1>4, <1>5, <1>6, <1>7, PutterWrites, Zenon

LEMMA FillPartKeeps ==
    ASSUME Undisturbed, ~disturbed, NEW c \in Clients, FillPart(c)
    PROVE  Undisturbed'
  <1>1. /\ client[c].pc = "fill" /\ UNCHANGED <<root, manifest, etag, cleaner, okays, puts>>
        /\ \E v \in Fill(c, data[client[c].part]) : data' = [data EXCEPT ![client[c].part] = v]
        /\ Goto(c, "openmeta")
    BY Zenon DEF FillPart, At, counters
  <1>2. /\ Is(c, PutSteps) /\ client[c].pc # "putread" /\ UploadTypes
        /\ client[c].part \in Parts /\ client[c].body \in Files /\ None # Torn
        /\ data[client[c].part] = Torn
    BY <1>1, PutterReady, Zenon DEF FilesOf
  <1>3. data' = [data EXCEPT ![client[c].part] = client[c].body]
    BY <1>1, <1>2, Zenon DEF Fill
  <1>4. "openmeta" \in UploadSteps /\ "openmeta" \in Filling /\ "openmeta" \notin {"idle", "fill", "fillmeta"}
    BY Zenon DEF UploadSteps, PutSteps, Filling
  <1>5. PICK new \in Services :
              /\ Turns(c, new) /\ new.pc = "openmeta" /\ new.part = client[c].part
              /\ new.body = client[c].body /\ new.list = client[c].list /\ new.got = client[c].got
    BY <1>1, <1>2, <1>4, GotoTurns, Zenon
  <1>6. /\ data' \in [Parts -> Files] /\ etag' \in [Parts -> Files]
        /\ data'[client[c].part] = client[c].body
        /\ \A n \in Parts \ {client[c].part} : data'[n] = data[n] /\ etag'[n] = etag[n]
    BY <1>1, <1>2, <1>3, Zenon DEF UploadTypes
  <1>7. FilesOf(new)'
    BY <1>4, <1>5, <1>6, Zenon DEF FilesOf
  <1> QED
    BY <1>1, <1>2, <1>4, <1>5, <1>6, <1>7, PutterWrites, Zenon

LEMMA OpenPartMetaKeeps ==
    ASSUME Undisturbed, NEW c \in Clients, OpenPartMeta(c)
    PROVE  Undisturbed'
  <1>1. /\ client[c].pc = "openmeta" /\ UNCHANGED <<root, manifest, data, cleaner, okays, puts>>
        /\ etag' = IF root THEN [etag EXCEPT ![client[c].part] = Torn] ELSE etag
        /\ GotoIf(c, root, "fillmeta")
    BY Zenon DEF OpenPartMeta, At, counters
  <1>2. /\ Is(c, PutSteps) /\ client[c].pc # "putread" /\ UploadTypes /\ root
        /\ client[c].part \in Parts /\ Torn \in Files /\ data[client[c].part] = client[c].body
    BY <1>1, PutterReady, Zenon DEF FilesOf
  <1>3. etag' = [etag EXCEPT ![client[c].part] = Torn] /\ Goto(c, "fillmeta")
    BY <1>1, <1>2, Zenon DEF GotoIf
  <1>4. "fillmeta" \in UploadSteps /\ "fillmeta" \in Filling /\ "fillmeta" \notin {"idle", "fill", "openmeta"}
    BY Zenon DEF UploadSteps, PutSteps, Filling
  <1>5. PICK new \in Services :
              /\ Turns(c, new) /\ new.pc = "fillmeta" /\ new.part = client[c].part
              /\ new.body = client[c].body /\ new.list = client[c].list /\ new.got = client[c].got
    BY <1>2, <1>3, <1>4, GotoTurns, Zenon
  <1>6. /\ data' \in [Parts -> Files] /\ etag' \in [Parts -> Files] /\ etag'[client[c].part] = Torn
        /\ data'[client[c].part] = client[c].body
        /\ \A n \in Parts \ {client[c].part} : data'[n] = data[n] /\ etag'[n] = etag[n]
    BY <1>1, <1>2, <1>3, Zenon DEF UploadTypes
  <1>7. FilesOf(new)'
    BY <1>4, <1>5, <1>6, Zenon DEF FilesOf
  <1> QED
    BY <1>1, <1>2, <1>4, <1>5, <1>6, <1>7, PutterWrites, Zenon

LEMMA FillPartMetaKeeps ==
    ASSUME Undisturbed, ~disturbed, NEW c \in Clients, FillPartMeta(c)
    PROVE  Undisturbed'
  <1>1. /\ client[c].pc = "fillmeta" /\ UNCHANGED <<root, manifest, data, cleaner, okays, puts>>
        /\ \E v \in Fill(c, etag[client[c].part]) : etag' = [etag EXCEPT ![client[c].part] = v]
        /\ Finish(c)
    BY Zenon DEF FillPartMeta, At
  <1>2. /\ Is(c, PutSteps) /\ client[c].pc # "putread" /\ UploadTypes
        /\ client[c].part \in Parts /\ client[c].body \in Files /\ client[c].body # Torn /\ None # Torn
        /\ data[client[c].part] = client[c].body /\ etag[client[c].part] = Torn
    BY <1>1, PutterReady, Zenon DEF FilesOf
  <1>3. etag' = [etag EXCEPT ![client[c].part] = client[c].body]
    BY <1>1, <1>2, Zenon DEF Fill
  <1>4. PICK new \in Services : new.pc = "idle" /\ Turns(c, new)
    BY <1>1, FinishTurns, Zenon
  <1>5. /\ data' \in [Parts -> Files] /\ etag' \in [Parts -> Files]
        /\ data'[client[c].part] = etag'[client[c].part] /\ data'[client[c].part] # Torn
        /\ \A n \in Parts \ {client[c].part} : data'[n] = data[n] /\ etag'[n] = etag[n]
    BY <1>1, <1>2, <1>3, Zenon DEF UploadTypes
  <1>6. "idle" \notin Filling
    BY Zenon DEF Filling
  <1> QED
    BY <1>1, <1>2, <1>4, <1>5, <1>6, PutterWrites, Zenon

-----------------------------------------------------------------------------
(* The removals, by a completion, an abort or the cleanup loop.            *)
LEMMA NobodyPuts ==
    ASSUME UploadTypes', Created', \A d \in Clients : ~Is(d, PutSteps)',
           \A n \in Parts : data'[n] = etag'[n] /\ data'[n] # Torn,
           Directory', Readers', Completed'
    PROVE  Undisturbed'
  <1>1. CreatorAlone' /\ PuttersAlone'
    BY Zenon DEF CreatorAlone, PuttersAlone, Created, Creating, Is
  <1>2. PartsWhole'
    BY StepKinds, Zenon DEF PartsWhole, FilesOf, Is
  <1> QED
    BY <1>1, <1>2, Zenon DEF Undisturbed

LEMMA WholeIfNobodyPuts ==
    ASSUME Undisturbed, \A d \in Clients : ~Is(d, PutSteps)
    PROVE  \A n \in Parts : data[n] = etag[n] /\ data[n] # Torn
  BY StepKinds, Zenon DEF Undisturbed, PartsWhole, Is

\* The files go: what a completion has found is gone with them.
LEMMA FilesGo ==
    ASSUME RemoveFiles
    PROVE  /\ data' \in [Parts -> Files] /\ etag' \in [Parts -> Files] /\ manifest' = "none"
           /\ \A n \in Parts : data'[n] = None /\ etag'[n] = None
           /\ \A n \in Parts : data'[n] = etag'[n] /\ data'[n] # Torn
  <1>1. None \in Files /\ None # Torn
    BY DEF None, Torn, Files
  <1> QED
    BY <1>1, Zenon DEF RemoveFiles

LEMMA ReadersStay ==
    ASSUME Readers, \A d \in Clients : client'[d] = client[d],
           \A n \in Parts : data'[n] \in {data[n], None}
    PROVE  Readers'
  <1> SUFFICES ASSUME NEW d \in Clients
               PROVE  ReadSoFar(client'[d]) /\ StillNamed(client[d])'
    BY Zenon DEF Readers, ReadSoFar
  <1>1. ReadSoFar(client[d]) /\ StillNamed(client[d]) /\ client'[d] = client[d]
    BY Zenon DEF Readers
  <1>2. StillNamed(client[d])'
    BY <1>1, Zenon DEF StillNamed, Named
  <1> QED
    BY <1>1, <1>2, Zenon

LEMMA AbortRemoveKeeps ==
    ASSUME Undisturbed, NEW c \in Clients, AbortRemove(c)
    PROVE  Undisturbed'
  <1>1. client[c].pc = "remove" /\ UNCHANGED <<root, cleaner, okays, puts>>
    BY Zenon DEF AbortRemove, At, counters
  <1>2. /\ "rmdir" \in UploadSteps /\ "rmdir" \in EndSteps /\ "remove" \in EndSteps
        /\ "remove" \notin Creating \cup Filling \cup {"rmdir", "idle"}
        /\ "rmdir" \notin Creating \cup PutSteps
    BY DEF UploadSteps, EndSteps, PutSteps, Creating, Filling
  <1>3. Created /\ UploadTypes /\ \A d \in Clients : ~Is(d, PutSteps)
    BY <1>1, <1>2, EnderAlone, Zenon DEF Is
  <1>4. CASE root
    <2>1. RemoveFiles /\ Goto(c, "rmdir")
      BY <1>4, Zenon DEF AbortRemove
    <2>2. PICK new \in Services :
              /\ Turns(c, new) /\ new.pc = "rmdir" /\ new.part = client[c].part
              /\ new.body = client[c].body /\ new.list = client[c].list /\ new.got = client[c].got
      BY <1>2, <1>3, <2>1, GotoTurns, Zenon
    <2>3. /\ client' \in [Clients -> Services] /\ client'[c] = new
          /\ \A d \in Clients \ {c} : client'[d] = client[d]
      BY <1>3, <2>2, TurnsOne, Zenon
    <2>4. UploadTypes'
      BY <1>1, <1>3, <2>1, <2>3, FilesGo, Zenon DEF UploadTypes
    <2>5. Created' /\ \A d \in Clients : ~Is(d, PutSteps)'
      BY <1>2, <1>3, <2>2, <2>3, StaysCreated, Zenon DEF Is
    <2>6. Directory'
      <3>1. Rmdir' /\ NoParts' /\ manifest' = "none"
        BY <2>1, <2>2, <2>3, FilesGo, Zenon DEF Rmdir, NoParts
      <3> QED
        BY <3>1, Zenon DEF Directory
    <2>7. Readers'
      <3>1. ReadSoFar(new) /\ StillNamed(new)'
        BY <2>2, Zenon DEF ReadSoFar, StillNamed
      <3>2. \A n \in Parts : data'[n] \in {data[n], None}
        BY <2>1, FilesGo, Zenon
      <3> QED
        BY <2>2, <3>1, <3>2, StepKeepsReaders, Zenon
    <2>8. Completed'
      BY <1>1, <1>4, Zenon DEF Undisturbed, Completed
    <2> QED
      BY <2>1, <2>4, <2>5, <2>6, <2>7, <2>8, FilesGo, NobodyPuts, Zenon
  <1>5. CASE ~root
    <2>1. Finish(c) /\ UNCHANGED <<root, manifest, data, etag, cleaner, okays, puts>>
      BY <1>1, <1>5, Zenon DEF AbortRemove
    <2> QED
      BY <1>1, <1>2, <2>1, FilesStayDone, Zenon DEF Is
  <1> QED
    BY <1>4, <1>5, Zenon

\* Whoever is about to remove the directory finds it empty.
LEMMA RmdirEmpties ==
    ASSUME Undisturbed, Created, Rmdir, RemoveRoot
    PROVE  manifest = "none" /\ Empty /\ NoParts /\ root' = FALSE
  <1>1. manifest = "none" /\ NoParts
    BY Zenon DEF Undisturbed, Directory
  <1> QED
    BY <1>1, Zenon DEF Empty, NoParts, RemoveRoot

LEMMA AbortRmdirKeeps ==
    ASSUME Undisturbed, NEW c \in Clients, AbortRmdir(c)
    PROVE  Undisturbed'
  <1>1. /\ client[c].pc = "rmdir" /\ UNCHANGED <<manifest, data, etag, cleaner, puts>> /\ Finish(c)
        /\ RemoveRoot /\ okays' = IF Succeeds /\ client[c].list # <<>> THEN okays + 1 ELSE okays
    BY Zenon DEF AbortRmdir, At
  <1>2. "rmdir" \in EndSteps /\ "idle" \notin Creating \cup PutSteps
    BY Zenon DEF EndSteps, PutSteps, Creating
  <1>3. Created /\ UploadTypes /\ \A d \in Clients : ~Is(d, PutSteps)
    BY <1>1, <1>2, EnderAlone, Zenon DEF Is
  <1>4. manifest = "none" /\ NoParts /\ root' = FALSE
    BY <1>1, <1>3, RmdirEmpties, Zenon DEF Rmdir
  <1>5. PICK new \in Services : new.pc = "idle" /\ Turns(c, new)
    BY <1>1, FinishTurns, Zenon
  <1>6. /\ client' \in [Clients -> Services] /\ client'[c] = new
        /\ \A d \in Clients \ {c} : client'[d] = client[d]
    BY <1>3, <1>5, TurnsOne, Zenon
  <1>7. UploadTypes'
    BY <1>1, <1>3, <1>4, <1>6, Zenon DEF UploadTypes
  <1>8. Created' /\ \A d \in Clients : ~Is(d, PutSteps)'
    BY <1>2, <1>3, <1>5, <1>6, StaysCreated, Zenon DEF Is
  <1>9. Directory'
    <2>1. manifest' = "none" /\ ~root' /\ NoParts'
      BY <1>1, <1>4, Zenon DEF NoParts
    <2> QED
      BY <2>1 DEF Directory
  <1>10. Readers'
    <2>1. ReadSoFar(new) /\ StillNamed(new)'
      BY <1>5 DEF ReadSoFar, StillNamed
    <2>2. \A n \in Parts : data'[n] \in {data[n], None}
      BY <1>1, Zenon
    <2> QED
      BY <1>5, <2>1, <2>2, StepKeepsReaders, Zenon
  <1>11. Completed'
    <2>1. okays \in {0, 1} /\ (root => okays = 0)
      BY Zenon DEF Undisturbed, Completed
    <2>2. Succeeds => root
      BY Zenon DEF Succeeds
    <2>3. 0 + 1 = 1
      OBVIOUS
    <2>4. okays' \in {0, 1}
      BY <1>1, <2>1, <2>2, <2>3, Zenon
    <2> QED
      BY <1>1, <1>4, <1>8, <2>4, Zenon DEF Completed
  <1>12. \A n \in Parts : data'[n] = etag'[n] /\ data'[n] # Torn
    BY <1>1, <1>3, WholeIfNobodyPuts, Zenon
  <1> QED
    BY <1>7, <1>8, <1>9, <1>10, <1>11, <1>12, NobodyPuts, Zenon

\* The cleanup loop works alone, except for completions and aborts.
LEMMA CleanerAlone ==
    ASSUME Undisturbed, cleaner # "asleep"
    PROVE  Created /\ UploadTypes /\ \A d \in Clients : ~Is(d, PutSteps)
  BY Zenon DEF Undisturbed, CreatorAlone, PuttersAlone, PutterAlone, Created, Creating, Is

LEMMA CollectKeeps ==
    ASSUME Undisturbed, ~disturbed', Collect
    PROVE  Undisturbed'
  <1>1. /\ cleaner = "asleep" /\ Stale /\ cleaner' = "remove" /\ \A n \in Parts : ~Putting(n)
        /\ UNCHANGED <<root, manifest, data, etag, client, okays, puts>>
    BY Zenon DEF Collect, counters
  <1>2. Created
    BY <1>1, Zenon DEF Stale, Undisturbed, CreatorAlone, Created, Creating, Is
  <1>3. \A d \in Clients : ~Is(d, PutSteps)
    BY <1>1, Zenon DEF Putting, Is, Undisturbed, PuttersAlone, PutterAlone
  <1>4. UploadTypes' /\ Created' /\ \A d \in Clients : ~Is(d, PutSteps)'
    BY <1>1, <1>2, <1>3, Zenon DEF Undisturbed, UploadTypes, Created, Is
  <1>5. Directory'
    <2>1. Rmdir' <=> Rmdir
      BY <1>1, Zenon DEF Rmdir
    <2> QED
      BY <1>1, <1>2, <2>1, Zenon DEF Undisturbed, Directory, NoParts
  <1>6. Readers'
    BY <1>1, ReadersStay, Zenon DEF Undisturbed
  <1>7. Completed'
    BY <1>1, <1>4, Zenon DEF Undisturbed, Completed
  <1>8. \A n \in Parts : data'[n] = etag'[n] /\ data'[n] # Torn
    BY <1>1, <1>3, WholeIfNobodyPuts, Zenon
  <1> QED
    BY <1>4, <1>5, <1>6, <1>7, <1>8, NobodyPuts, Zenon

LEMMA CleanFilesKeeps ==
    ASSUME Undisturbed, CleanFiles
    PROVE  Undisturbed'
  <1>1. cleaner = "remove" /\ UNCHANGED <<root, client, okays, puts>>
    BY Zenon DEF CleanFiles, counters
  <1>2. Created /\ UploadTypes /\ \A d \in Clients : ~Is(d, PutSteps)
    BY <1>1, CleanerAlone, Zenon
  <1>3. Created' /\ \A d \in Clients : ~Is(d, PutSteps)'
    BY <1>1, <1>2, Zenon DEF Created, Is
  <1>4. CASE root
    <2>1. RemoveFiles /\ cleaner' = "rmdir"
      BY <1>4, Zenon DEF CleanFiles
    <2>2. UploadTypes'
      BY <1>1, <1>2, <2>1, FilesGo, Zenon DEF UploadTypes
    <2>3. Directory'
      <3>1. Rmdir' /\ NoParts' /\ manifest' = "none"
        BY <2>1, FilesGo, Zenon DEF Rmdir, NoParts
      <3> QED
        BY <3>1 DEF Directory
    <2>4. Readers'
      BY <1>1, <2>1, ReadersStay, FilesGo, Zenon DEF Undisturbed
    <2>5. Completed'
      BY <1>1, <1>4, Zenon DEF Undisturbed, Completed
    <2> QED
      BY <1>3, <2>1, <2>2, <2>3, <2>4, <2>5, FilesGo, NobodyPuts, Zenon
  <1>5. CASE ~root
    <2>1. UNCHANGED <<manifest, data, etag>> /\ cleaner' = "asleep"
      BY <1>5, Zenon DEF CleanFiles
    <2>2. UploadTypes'
      BY <1>1, <1>2, <2>1, Zenon DEF UploadTypes
    <2>3. Directory'
      <3>1. ~root' /\ (Rmdir' => Rmdir)
        BY <1>1, <1>5, <2>1, Zenon DEF Rmdir
      <3> QED
        BY <1>2, <1>5, <2>1, <3>1, Zenon DEF Undisturbed, Directory, NoParts
    <2>4. Readers'
      BY <1>1, <2>1, ReadersStay, Zenon DEF Undisturbed
    <2>5. Completed'
      BY <1>1, <1>3, <2>1, Zenon DEF Undisturbed, Completed
    <2>6. \A n \in Parts : data'[n] = etag'[n] /\ data'[n] # Torn
      BY <1>2, <2>1, WholeIfNobodyPuts, Zenon
    <2> QED
      BY <1>3, <2>2, <2>3, <2>4, <2>5, <2>6, NobodyPuts, Zenon
  <1> QED
    BY <1>4, <1>5, Zenon

LEMMA CleanRmdirKeeps ==
    ASSUME Undisturbed, CleanRmdir
    PROVE  Undisturbed'
  <1>1. /\ cleaner = "rmdir" /\ RemoveRoot /\ cleaner' = "asleep"
        /\ UNCHANGED <<manifest, data, etag, client, okays, puts>>
    BY Zenon DEF CleanRmdir, counters
  <1>2. Created /\ UploadTypes /\ \A d \in Clients : ~Is(d, PutSteps)
    BY <1>1, CleanerAlone, Zenon
  <1>3. Created' /\ \A d \in Clients : ~Is(d, PutSteps)'
    BY <1>1, <1>2, Zenon DEF Created, Is
  <1>4. manifest = "none" /\ NoParts /\ root' = FALSE
    BY <1>1, <1>2, RmdirEmpties, Zenon DEF Rmdir
  <1>5. UploadTypes'
    BY <1>1, <1>2, <1>4, Zenon DEF UploadTypes
  <1>6. Directory'
    <2>1. manifest' = "none" /\ ~root' /\ NoParts'
      BY <1>1, <1>4, Zenon DEF NoParts
    <2> QED
      BY <2>1, Zenon DEF Directory
  <1>7. Readers'
    BY <1>1, ReadersStay, Zenon DEF Undisturbed
  <1>8. Completed'
    BY <1>1, <1>3, <1>4, Zenon DEF Undisturbed, Completed
  <1>9. \A n \in Parts : data'[n] = etag'[n] /\ data'[n] # Torn
    BY <1>1, <1>2, WholeIfNobodyPuts, Zenon
  <1> QED
    BY <1>3, <1>5, <1>6, <1>7, <1>8, <1>9, NobodyPuts, Zenon

-----------------------------------------------------------------------------
(* Creation, time and restarts.                                            *)
LEMMA CreatorGoes ==
    ASSUME Undisturbed, NEW c \in Clients, Is(c, Creating), NEW new \in Services, Turns(c, new),
           UNCHANGED <<data, etag, cleaner, old, okays, puts>>, root' = TRUE,
           new.pc \in {"manifest", "fillmanifest", "idle"},
           new.pc = "manifest" => manifest' = "none",
           new.pc = "fillmanifest" => manifest' = "torn",
           new.pc = "idle" => manifest' = "ok"
    PROVE  Undisturbed'
  <1>1. /\ client' \in [Clients -> Services] /\ client'[c] = new
        /\ \A d \in Clients \ {c} : client'[d] = client[d]
    BY TurnsOne, Zenon DEF Undisturbed
  <1>2. /\ UploadTypes /\ \A d \in Clients \ {c} : client'[d].pc = "idle"
        /\ cleaner = "asleep" /\ ~old /\ okays = 0 /\ NoParts
    BY <1>1, Zenon DEF Undisturbed, CreatorAlone
  <1>3. UploadTypes'
    BY <1>1, <1>2, Zenon DEF UploadTypes
  <1>4. \A d \in Clients : client'[d].pc \in {"manifest", "fillmanifest", "idle"}
    BY <1>1, <1>2, Zenon
  <1>5. \A d \in Clients : client'[d].pc \notin PutSteps \cup EndSteps \cup Filling
                             \cup {"endread", "etag", "data", "store", "rmdir", "mkroot"}
    BY <1>4 DEF PutSteps, EndSteps, Filling
  <1>6. NoParts'
    BY <1>2, Zenon DEF NoParts
  <1>7. CreatorAlone'
    <2> SUFFICES ASSUME NEW d \in Clients, client'[d].pc \in Creating
                 PROVE  /\ \A e \in Clients \ {d} : client'[e].pc = "idle"
                        /\ client'[d].pc = "mkroot" => manifest' = "none" /\ ~root'
                        /\ client'[d].pc = "manifest" => manifest' = "none" /\ root'
                        /\ client'[d].pc = "fillmanifest" => manifest' = "torn" /\ root'
      BY <1>2, <1>6, Zenon DEF CreatorAlone, Is
    <2>1. d = c
      BY <1>2, StepKinds, Zenon
    <2> QED
      BY <1>1, <1>2, <1>5, <2>1, Zenon
  <1>8. PuttersAlone'
    BY <1>5, Zenon DEF PuttersAlone, Is
  <1>9. PartsWhole'
    <2>1. None # Torn
      BY DEF None, Torn
    <2> QED
      BY <1>5, <1>6, <2>1, StepKinds, Zenon DEF PartsWhole, FilesOf, NoParts
  <1>10. Directory'
    <2>1. Created' => manifest' = "ok"
      <3>1. Created' => new.pc \notin Creating
        BY <1>1, Zenon DEF Created, Creating
      <3>2. new.pc \notin Creating => new.pc = "idle"
        BY Zenon DEF Creating
      <3> QED
        BY <3>1, <3>2, Zenon
    <2>2. ~Rmdir'
      BY <1>2, <1>5, Zenon DEF Rmdir
    <2> QED
      BY <2>1, <2>2, Zenon DEF Directory
  <1>11. Readers'
    <2> SUFFICES ASSUME NEW d \in Clients
                 PROVE  ReadSoFar(client'[d]) /\ StillNamed(client[d])'
      BY Zenon DEF Readers, ReadSoFar
    <2> QED
      BY <1>5, Zenon DEF ReadSoFar, StillNamed
  <1>12. Completed'
    <2>1. 0 # 1
      OBVIOUS
    <2> QED
      BY <1>2, <2>1, Zenon DEF Completed
  <1> QED
    BY <1>3, <1>7, <1>8, <1>9, <1>10, <1>11, <1>12, Zenon DEF Undisturbed

LEMMA CreateKeeps ==
    ASSUME Undisturbed, NEW c \in Clients, Create(c)
    PROVE  Undisturbed'
  <1>1. "manifest" \in UploadSteps /\ "fillmanifest" \in UploadSteps /\ UploadTypes
    BY Zenon DEF UploadSteps, Creating, Undisturbed
  <1>2. CASE MakeRoot(c)
    <2>1. /\ client[c].pc = "mkroot" /\ Goto(c, "manifest") /\ root' = TRUE
          /\ UNCHANGED <<manifest, data, etag, cleaner, old, okays, puts>>
      BY <1>2, Zenon DEF MakeRoot, At, counters
    <2>2. Is(c, Creating)
      BY <2>1, Zenon DEF Is, Creating
    <2>3. manifest = "none"
      BY <2>1, <2>2, Zenon DEF Undisturbed, CreatorAlone
    <2>4. PICK new \in Services :
              /\ Turns(c, new) /\ new.pc = "manifest" /\ new.part = client[c].part
              /\ new.body = client[c].body /\ new.list = client[c].list /\ new.got = client[c].got
      BY <1>1, <2>1, GotoTurns, Zenon
    <2>5. new.pc \in {"manifest", "fillmanifest", "idle"} /\ new.pc \notin {"fillmanifest", "idle"}
      BY <2>4, Zenon
    <2> QED
      BY <2>1, <2>2, <2>3, <2>4, <2>5, CreatorGoes, Zenon
  <1>3. CASE OpenManifest(c)
    <2>1. /\ client[c].pc = "manifest" /\ Goto(c, "fillmanifest") /\ manifest' = "torn"
          /\ UNCHANGED <<root, data, etag, cleaner, old, okays, puts>>
      BY <1>3, Zenon DEF OpenManifest, At, counters
    <2>2. Is(c, Creating)
      BY <2>1, Zenon DEF Is, Creating
    <2>3. root' = TRUE
      BY <2>1, <2>2, Zenon DEF Undisturbed, CreatorAlone, UploadTypes
    <2>4. PICK new \in Services :
              /\ Turns(c, new) /\ new.pc = "fillmanifest" /\ new.part = client[c].part
              /\ new.body = client[c].body /\ new.list = client[c].list /\ new.got = client[c].got
      BY <1>1, <2>1, GotoTurns, Zenon
    <2>5. new.pc \in {"manifest", "fillmanifest", "idle"} /\ new.pc \notin {"manifest", "idle"}
      BY <2>4, Zenon
    <2> QED
      BY <2>1, <2>2, <2>3, <2>4, <2>5, CreatorGoes, Zenon
  <1>4. CASE FillManifest(c)
    <2>1. /\ client[c].pc = "fillmanifest" /\ Finish(c)
          /\ manifest' = IF manifest = "none" THEN "none" ELSE "ok"
          /\ UNCHANGED <<root, data, etag, cleaner, old, okays, puts>>
      BY <1>4, Zenon DEF FillManifest, At, counters
    <2>2. Is(c, Creating)
      BY <2>1, Zenon DEF Is, Creating
    <2>3. root' = TRUE /\ manifest' = "ok"
      <3>1. root = TRUE /\ manifest = "torn"
        BY <2>1, <2>2, Zenon DEF Undisturbed, CreatorAlone, UploadTypes
      <3> QED
        BY <2>1, <3>1
    <2>4. PICK new \in Services : new.pc = "idle" /\ Turns(c, new)
      BY <2>1, FinishTurns, Zenon
    <2>5. new.pc \in {"manifest", "fillmanifest", "idle"} /\ new.pc \notin {"manifest", "fillmanifest"}
      BY <2>4
    <2> QED
      BY <2>1, <2>2, <2>3, <2>4, <2>5, CreatorGoes, Zenon
  <1> QED
    BY <1>2, <1>3, <1>4, Zenon DEF Create

LEMMA RestartKeeps ==
    ASSUME Undisturbed, ~disturbed', Restart
    PROVE  Undisturbed'
  <1>1. /\ client' = [c \in Clients |-> Idle] /\ cleaner' = "asleep" /\ ~Removing
        /\ \A c \in Clients : client[c].pc = "idle"
        /\ UNCHANGED <<root, manifest, data, etag, okays, puts>>
    BY Zenon DEF Restart, At
  <1>2. client' \in [Clients -> Services] /\ \A d \in Clients : client'[d].pc = "idle"
    BY <1>1, IdleService, Zenon
  <1>3. "idle" \notin PutSteps \cup Creating \cup {"rmdir", "endread", "etag", "data", "store"}
    BY Zenon DEF PutSteps, Creating
  <1>4. UploadTypes'
    BY <1>1, <1>2, Zenon DEF Undisturbed, UploadTypes
  <1>5. Created /\ Created' /\ \A d \in Clients : ~Is(d, PutSteps)'
    BY <1>1, <1>2, <1>3, Zenon DEF Created, Creating, Is
  <1>6. Directory'
    <2>1. ~Rmdir /\ ~Rmdir'
      BY <1>1, <1>2, <1>3, Zenon DEF Rmdir, Removing
    <2> QED
      BY <1>1, <1>5, <2>1, Zenon DEF Undisturbed, Directory, NoParts
  <1>7. Readers'
    <2> SUFFICES ASSUME NEW d \in Clients
                 PROVE  ReadSoFar(client'[d]) /\ StillNamed(client[d])'
      BY Zenon DEF Readers, ReadSoFar
    <2> QED
      BY <1>2, <1>3, Zenon DEF ReadSoFar, StillNamed
  <1>8. Completed'
    BY <1>1, <1>5, Zenon DEF Undisturbed, Completed
  <1>9. \A n \in Parts : data'[n] = etag'[n] /\ data'[n] # Torn
    BY <1>1, <1>3, WholeIfNobodyPuts, Zenon DEF Is
  <1> QED
    BY <1>4, <1>5, <1>6, <1>7, <1>8, <1>9, NobodyPuts, Zenon

\* Time passes only once the upload is created; the object's steps touch
\* nothing of the upload.
LEMMA UploadStays ==
    ASSUME Undisturbed, old' = old \/ Created,
           UNCHANGED <<root, manifest, data, etag, client, cleaner, okays, puts>>
    PROVE  Undisturbed'
  <1>1. UploadTypes'
    BY Zenon DEF Undisturbed, UploadTypes
  <1>2. CreatorAlone'
    <2>1. CASE old' = old
      BY <2>1, Zenon DEF Undisturbed, CreatorAlone, NoParts, Is
    <2>2. CASE Created
      BY <2>2, Zenon DEF CreatorAlone, Created, Creating, Is
    <2> QED
      BY <2>1, <2>2
  <1>3. PuttersAlone'
    BY Zenon DEF Undisturbed, PuttersAlone, PutterAlone, Is
  <1>4. PartsWhole'
    BY Zenon DEF Undisturbed, PartsWhole, FilesOf, Is
  <1>5. Directory'
    BY Zenon DEF Undisturbed, Directory, NoParts, Rmdir, Created
  <1>6. Readers'
    BY ReadersStay, Zenon DEF Undisturbed
  <1>7. Completed'
    BY Zenon DEF Undisturbed, Completed, Created
  <1> QED
    BY <1>1, <1>2, <1>3, <1>4, <1>5, <1>6, <1>7, Zenon DEF Undisturbed

LEMMA UploadStarts ==
    ASSUME Init
    PROVE  Undisturbed
  <1>1. PICK c \in Clients :
            client = [d \in Clients |-> IF d = c THEN [Idle EXCEPT !.pc = "mkroot"] ELSE Idle]
    BY Zenon DEF Init
  <1>2. PICK first : first = [Idle EXCEPT !.pc = "mkroot"]
    BY Zenon
  <1>3. "mkroot" \in UploadSteps /\ "mkroot" \in Creating
    BY Zenon DEF UploadSteps, Creating
  <1>4. first \in Services /\ first.pc = "mkroot"
    BY <1>2, <1>3, IdleService, Zenon DEF Services
  <1>5. /\ client \in [Clients -> Services] /\ client[c].pc = "mkroot"
        /\ \A d \in Clients \ {c} : client[d].pc = "idle"
    BY <1>1, <1>2, <1>4, IdleService, Zenon
  <1>6. /\ root = FALSE /\ manifest = "none" /\ old = FALSE /\ cleaner = "asleep"
        /\ puts = 0 /\ okays = 0
        /\ data = [n \in Parts |-> None] /\ etag = [n \in Parts |-> None]
    BY Zenon DEF Init
  <1>7. 0 \in Nat /\ 0 # 1 /\ None # Torn /\ None \in Files
    BY DEF None, Torn, Files
  <1>8. \A d \in Clients : client[d].pc \notin PutSteps \cup EndSteps \cup Filling
            \cup {"endread", "etag", "data", "store", "rmdir", "manifest", "fillmanifest"}
    <2>1. \A d \in Clients : client[d].pc \in {"mkroot", "idle"}
      BY <1>5, Zenon
    <2> QED
      BY <2>1, Zenon DEF PutSteps, EndSteps, Filling
  <1>9. UploadTypes /\ NoParts
    BY <1>5, <1>6, <1>7, Zenon DEF UploadTypes, NoParts
  <1>10. CreatorAlone
    BY <1>5, <1>6, <1>8, <1>9, StepKinds, Zenon DEF CreatorAlone, Is
  <1>11. PuttersAlone
    BY <1>8, Zenon DEF PuttersAlone, Is
  <1>12. PartsWhole
    BY <1>7, <1>8, <1>9, StepKinds, Zenon DEF PartsWhole, FilesOf, NoParts
  <1>13. Directory
    BY <1>3, <1>5, Zenon DEF Directory, Created, Creating
  <1>14. Readers
    BY <1>8, Zenon DEF Readers, ReadSoFar, StillNamed
  <1>15. Completed
    BY <1>6, <1>7, Zenon DEF Completed
  <1> QED
    BY <1>9, <1>10, <1>11, <1>12, <1>13, <1>14, <1>15, Zenon DEF Undisturbed

LEMMA UploadStepKeeps ==
    ASSUME UploadInv, Next
    PROVE  UploadInv'
  <1> SUFFICES ASSUME ~disturbed' PROVE Undisturbed'
    BY Zenon DEF UploadInv
  <1>1. ASSUME NEW c \in Clients, NEW n \in Parts, BeginPut(c, n) PROVE Undisturbed'
    <2>1. ~disturbed
      BY <1>1, Zenon DEF BeginPut
    <2> QED
      BY <1>1, <2>1, BeginUploadKeeps, Zenon DEF UploadInv
  <1>2. ASSUME NEW c \in Clients, NEW list \in Lists, BeginEnd(c, list) PROVE Undisturbed'
    <2>1. ~disturbed
      BY <1>2, Zenon DEF BeginEnd
    <2> QED
      BY <1>2, <2>1, BeginEndKeeps, Zenon DEF UploadInv
  <1>3. ASSUME NEW c \in Clients, Create(c) PROVE Undisturbed'
    <2>1. ~disturbed
      BY <1>3, Zenon DEF Create, MakeRoot, OpenManifest, FillManifest
    <2> QED
      BY <1>3, <2>1, CreateKeeps, Zenon DEF UploadInv
  <1>4. ASSUME NEW c \in Clients, Put(c) PROVE Undisturbed'
    <2>1. ~disturbed
      BY <1>4, Zenon DEF Put, PutRead, MakePartsDir, OpenPart, FillPart, OpenPartMeta, FillPartMeta
    <2> QED
      BY <1>4, <2>1, PutReadKeeps, MakePartsDirKeeps, OpenPartKeeps, FillPartKeeps,
         OpenPartMetaKeeps, FillPartMetaKeeps, Zenon DEF UploadInv, Put
  <1>5. ASSUME NEW c \in Clients, End(c) PROVE Undisturbed'
    <2>1. ~disturbed
      BY <1>5, Zenon DEF End, EndRead, ReadPartMeta, ReadPartData, StoreObject, AbortRead,
            AbortRemove, AbortRmdir
    <2> QED
      BY <1>5, <2>1, EndReadKeeps, ReadPartMetaKeeps, ReadPartDataKeeps, StoreObjectKeeps,
         AbortReadKeeps, AbortRemoveKeeps, AbortRmdirKeeps, Zenon DEF UploadInv, End
  <1>6. CASE Cleanup
    <2>1. ~disturbed
      BY <1>6, Zenon DEF Cleanup, Collect, CleanFiles, CleanRmdir
    <2> QED
      BY <1>6, <2>1, CollectKeeps, CleanFilesKeeps, CleanRmdirKeeps, Zenon DEF UploadInv, Cleanup
  <1>7. CASE Age
    <2>1. ~disturbed /\ Created /\ UNCHANGED <<root, manifest, data, etag, client, cleaner, okays, puts>>
      BY <1>7, Zenon DEF Age
    <2> QED
      BY <2>1, UploadStays, Zenon DEF UploadInv
  <1>8. CASE Restart
    <2>1. ~disturbed
      BY <1>8, Zenon DEF Restart
    <2> QED
      BY <1>8, <2>1, RestartKeeps, Zenon DEF UploadInv
  <1> QED
    BY <1>1, <1>2, <1>3, <1>4, <1>5, <1>6, <1>7, <1>8, Zenon DEF Next

(* The invariant of the upload: while no part upload met another of its    *)
(* part, a completion or a removal, and none was cut short, a part's two   *)
(* files agree, completions read what their requests name, and only the    *)
(* removal under way leaves a directory without a manifest.                *)
THEOREM UploadInvariance == StorageSpec => []UploadInv
  <1>1. StorageInit => UploadInv
    BY UploadStarts, Zenon DEF StorageInit, UploadInv
  <1>2. UploadInv /\ [StorageNext]_storageVars => UploadInv'
    <2> SUFFICES ASSUME UploadInv, [StorageNext]_storageVars
                 PROVE  UploadInv'
      BY Zenon
    <2>1. CASE Next
      BY <2>1, UploadStepKeeps, Zenon
    <2>2. CASE UNCHANGED vars
      <3>1. /\ disturbed' = disturbed /\ old' = old
            /\ UNCHANGED <<root, manifest, data, etag, client, cleaner, okays, puts>>
        BY <2>2, Zenon DEF vars
      <3> QED
        BY <3>1, UploadStays, Zenon DEF UploadInv
    <2> QED
      BY <2>1, <2>2, Zenon DEF StorageNext, ObjectStep, UploadStep, storageVars
  <1> QED
    BY <1>1, <1>2, PTL DEF StorageSpec

(* While no part upload was cut short or met a completion or a removal,    *)
(* complete_multipart_upload stores, in ascending order of the parts, the  *)
(* bodies whose etags its request names, whatever other completions,       *)
(* aborts and cleanup passes run beside it.                                *)
THEOREM StoresWhatIsRequested == StorageSpec => []StoredAsRequested
  <1>1. UploadInv => StoredAsRequested
    <2> SUFFICES ASSUME UploadInv, ~disturbed, NEW c \in Clients, client[c].pc = "store",
                        NEW list, list = client[c].list
                 PROVE  /\ client[c].got = [i \in 1 .. Len(list) |-> list[i].etag]
                        /\ \A i, j \in 1 .. Len(list) : i < j => list[i].part < list[j].part
      BY Zenon DEF StoredAsRequested, At
    <2>1. client[c] \in Services /\ ReadSoFar(client[c])
      BY Zenon DEF UploadInv, Undisturbed, UploadTypes, Readers
    <2>2. PICK got : got = client[c].got
      BY Zenon
    <2>3. got \in Seq(Files)
      BY <2>1, <2>2, Zenon DEF Services
    <2>4. Len(got) = Len(list) /\ InOrder(list, Len(got)) /\ \A i \in 1 .. Len(got) : got[i] = list[i].etag
      BY <2>1, <2>2, Zenon DEF ReadSoFar
    <2>5. got = [i \in 1 .. Len(got) |-> got[i]]
      BY <2>3
    <2>6. got = [i \in 1 .. Len(list) |-> list[i].etag]
      BY <2>4, <2>5, Zenon
    <2> QED
      BY <2>2, <2>4, <2>6, Zenon DEF InOrder
  <1> QED
    BY <1>1, UploadInvariance, PTL

(* Of the completions of one upload that race each other, an abort or the  *)
(* cleanup loop, at most one finds the directory to remove and is answered *)
(* with success, as long as no part upload meets them and creates the      *)
(* directory again.                                                        *)
THEOREM OnlyOneCompletionSucceeds == StorageSpec => []OneCompletionSucceeds
  <1>1. UploadInv => OneCompletionSucceeds
    <2>1. ~disturbed /\ UploadInv => okays \in {0, 1}
      BY Zenon DEF UploadInv, Undisturbed, Completed
    <2>2. \A k \in {0, 1} : k <= 1
      OBVIOUS
    <2> QED
      BY <2>1, <2>2, Zenon DEF OneCompletionSucceeds
  <1> QED
    BY <1>1, UploadInvariance, PTL

(* A directory without a manifest, which neither a request nor the cleanup *)
(* loop will remove, is only left by a part upload that met a removal or   *)
(* by a restart.                                                           *)
THEOREM OrphansComeFromRaces == StorageSpec => []OrphanOnlyByRace
  <1>1. UploadInv => OrphanOnlyByRace
    <2> SUFFICES ASSUME UploadInv, Quiet, ~disturbed
                 PROVE  root <=> manifest = "ok"
      BY Zenon DEF OrphanOnlyByRace
    <2>1. Undisturbed /\ cleaner = "asleep" /\ \A c \in Clients : client[c].pc = "idle"
      BY Zenon DEF UploadInv, Quiet, At
    <2>2. Created /\ ~Rmdir
      BY <2>1, Zenon DEF Created, Rmdir
    <2> QED
      BY <2>1, <2>2, Zenon DEF Undisturbed, Directory
  <1> QED
    BY <1>1, UploadInvariance, PTL
==============================================================================
