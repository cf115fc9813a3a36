------------------------------ MODULE MCStorage ------------------------------
(***************************************************************************)
(* Local storage: the requests on one object, or on one multipart upload.  *)
(* They use different directories, and StorageObjects has the route by     *)
(* which a completion writes its object, so a behaviour has either.        *)
(***************************************************************************)
EXTENDS MultipartUploads

CONSTANTS Sizes, Limit, MaxWrites, Routes

ASSUME StorageAssumption ==
    /\ Sizes \subseteq Nat /\ Limit \in Nat /\ MaxWrites \in Nat
    /\ Routes \subseteq {"sdk", "presigned", "host", "complete"}

VARIABLES
    file, meta, used, request, writes, mixed, unmetered, crashes,  \* of StorageObjects
    part                                                           \* "object" or "upload"

Object == INSTANCE StorageObjects WITH data <- file, client <- request, faults <- crashes

objectVars == <<file, meta, used, request, writes, mixed, unmetered, crashes>>
storageVars == <<vars, objectVars, part>>

StorageInit ==
    /\ Init
    /\ Object!Init
    /\ part \in {"object", "upload"}

ObjectStep == part = "object" /\ Object!Next /\ UNCHANGED <<vars, part>>
UploadStep(A) == part = "upload" /\ A /\ UNCHANGED <<objectVars, part>>

StorageNext == ObjectStep \/ UploadStep(Next)

\* The fairness of MultipartUploads, in the behaviours of an upload.
StorageFairness ==
    /\ \A c \in Clients : WF_storageVars(UploadStep(Create(c) \/ Put(c) \/ End(c)))
    /\ WF_storageVars(UploadStep(Cleanup)) /\ WF_storageVars(UploadStep(Age))

StorageSpec == StorageInit /\ [][StorageNext]_storageVars /\ StorageFairness

(* Whatever races and crashes came before, once a put or a delete of an    *)
(* object has run to its end undisturbed, its two files agree again.       *)
FilesAgree == Object!FilesAgree

(* As long as only the SDK route has written, one request at a time and    *)
(* none cut short, the workspace is charged for exactly what is stored,    *)
(* and what is stored is within the limit.                                 *)
UsageExact == Object!UsageExact

(* What is stored is within the workspace's limit: not so, for only the    *)
(* SDK route checks it.                                                    *)
StorageWithinLimit == Object!StorageWithinLimit
=============================================================================
