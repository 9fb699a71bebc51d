------------------------------- MODULE Bloby --------------------------------
(***************************************************************************)
(* The bloby service: ingestion, publication, deletion and cleanup of       *)
(* objects (ingest.go, object_store.go and cleanup_store.go).               *)
(*                                                                          *)
(* Requests and sweepers are processes of any number of replicas.  A step   *)
(* is one registry statement or one provider call, and pc names the call a  *)
(* process is about to make.  While `unreliable` holds, a call may fail     *)
(* before or after it took effect, its response may be lost, and a process  *)
(* may crash.  An early return that changes nothing is a stuttering step    *)
(* and has no action of its own.                                            *)
(***************************************************************************)
EXTENDS Registry, Storage

CONSTANTS
    Request,   \* the requests that may run at the same time
    Sweeper,   \* the replicas that run RunCleanup
    NoId       \* the object of a process that works on none

ASSUME BlobyAssumption ==
    /\ Request \cap Sweeper = {}
    /\ NoId \notin Id

Process == Request \cup Sweeper

VARIABLES
    unreliable,  \* calls may still fail and processes crash
    pc,          \* the call a process is about to make
    task,        \* what it makes the call for
    obj,         \* the object at hand
    mpu,         \* the MultipartUploadID of its copy of that object
    seen,        \* the body it writes, or the parts it has listed
    batch,       \* sweepers: <<id, upload>> pairs to be removed
    todo         \* sweepers: pairs listed and not yet resolved to owners

localVars == <<pc, task, obj, mpu, seen, batch, todo>>
vars == <<registryVars, storageVars, unreliable, localVars>>

RequestPc == {"sign", "createMPU", "recordMPU", "recordAbort", "deleteGet",
              "put", "mark", "markGet", "writeDelete",
              "refresh", "reget", "listParts", "complete", "clear", "clearGet",
              "verify", "head", "published", "partRefresh"}
SharedPc == {"deleteRow", "abort", "deleteKey"}
SweeperPc == {"next", "listUnreferenced", "listKeys", "listUploads", "deleteExpired"}

Pair == Id \X (UploadId \cup {NoUpload})

LocalTypeOK ==
    /\ pc \in [Process -> {"idle"} \cup RequestPc \cup SharedPc \cup SweeperPc]
    /\ task \in [Process -> {"none", "begin", "write", "finalize", "delete", "part",
                             "expire", "expireError", "unreferenced", "keys", "uploads"}]
    /\ obj \in [Process -> Id \cup {NoId}]
    /\ mpu \in [Process -> UploadId \cup {NoUpload}]
    /\ seen \in [Process -> Body \cup {NoBody}]
    /\ batch \in [Process -> SUBSET Pair]
    /\ todo \in [Process -> SUBSET Pair]

(* The type of every variable.                                              *)
TypeOK ==
    /\ RegistryTypeOK
    /\ StorageTypeOK
    /\ unreliable \in BOOLEAN
    /\ LocalTypeOK

Init ==
    /\ RegistryInit
    /\ StorageInit
    /\ unreliable = TRUE
    /\ pc = [p \in Process |-> "idle"]
    /\ task = [p \in Process |-> "none"]
    /\ obj = [p \in Process |-> NoId]
    /\ mpu = [p \in Process |-> NoUpload]
    /\ seen = [p \in Process |-> NoBody]
    /\ batch = [p \in Process |-> {}]
    /\ todo = [p \in Process |-> {}]

-----------------------------------------------------------------------------
(* Moves of a process.                                                      *)

Goto(p, l) ==
    /\ pc' = [pc EXCEPT ![p] = l]
    /\ UNCHANGED <<task, obj, mpu, seen, batch, todo>>

(* A request at rest takes up object i.                                     *)
Start(p, i, l, t) ==
    /\ pc' = [pc EXCEPT ![p] = l]
    /\ task' = [task EXCEPT ![p] = t]
    /\ obj' = [obj EXCEPT ![p] = i]
    /\ UNCHANGED <<mpu, seen, batch, todo>>

(* A request returns to its caller; a sweeper goes on with its batch.       *)
Leave(p) ==
    /\ pc' = [pc EXCEPT ![p] = IF p \in Sweeper THEN "next" ELSE "idle"]
    /\ task' = [task EXCEPT ![p] = IF p \notin Sweeper THEN "none"
                                   ELSE IF @ = "expireError" THEN "expire" ELSE @]
    /\ obj' = [obj EXCEPT ![p] = NoId]
    /\ mpu' = [mpu EXCEPT ![p] = NoUpload]
    /\ seen' = [seen EXCEPT ![p] = NoBody]
    /\ UNCHANGED <<batch, todo>>

(* removeBytes: abort the object's upload, if it has one, then delete its   *)
(* key.                                                                     *)
RemoveBytes(p, u) ==
    /\ pc' = [pc EXCEPT ![p] = IF u = NoUpload THEN "deleteKey" ELSE "abort"]
    /\ mpu' = [mpu EXCEPT ![p] = u]
    /\ UNCHANGED <<task, obj, seen, batch, todo>>

(* An abort of an upload that is already gone is ErrMultipartUploadNotFound,*)
(* which every caller ignores.                                              *)
TryAbort(u) ==
    \/ AbortMultipartUpload(u)
    \/ upStatus[u] # "open" /\ UNCHANGED storageVars

Crash(p) ==
    /\ unreliable
    /\ pc[p] # "idle"
    /\ pc' = [pc EXCEPT ![p] = "idle"]
    /\ task' = [task EXCEPT ![p] = "none"]
    /\ obj' = [obj EXCEPT ![p] = NoId]
    /\ mpu' = [mpu EXCEPT ![p] = NoUpload]
    /\ seen' = [seen EXCEPT ![p] = NoBody]
    /\ batch' = [batch EXCEPT ![p] = {}]
    /\ todo' = [todo EXCEPT ![p] = {}]
    /\ UNCHANGED <<registryVars, storageVars>>

-----------------------------------------------------------------------------
(* Begin, BeginDirect: reserve an object and hand out a way to upload it.   *)

Reserve(p, i, pf, c, l) ==
    /\ pc[p] = "idle"
    /\ CreatePending(i, pf, c)
    /\ UNCHANGED storageVars
    /\ Start(p, i, l, "begin") \/ (unreliable /\ UNCHANGED localVars)

Begin(p, i, pf, c) ==
    Reserve(p, i, pf, c, IF Multipart(c) THEN "createMPU" ELSE "sign")

BeginDirect(p, i, pf, c) == Reserve(p, i, pf, c, "sign")

Sign(p) ==
    /\ pc[p] = "sign"
    /\ UNCHANGED registryVars
    /\ \/ Outstanding(obj[p]) /\ Leave(p)
       \/ unreliable /\ UNCHANGED storageVars /\ Goto(p, "deleteGet")

CreateMPU(p) ==
    /\ pc[p] = "createMPU"
    /\ UNCHANGED registryVars
    /\ \/ \E u \in UploadId :
            /\ CreateMultipartUpload(obj[p], u)
            /\ \/ /\ pc' = [pc EXCEPT ![p] = "recordMPU"]
                  /\ mpu' = [mpu EXCEPT ![p] = u]
                  /\ UNCHANGED <<task, obj, seen, batch, todo>>
               \/ (unreliable /\ Goto(p, "deleteGet"))
       \/ unreliable /\ UNCHANGED storageVars /\ Goto(p, "deleteGet")

RecordMPU(p) ==
    /\ pc[p] = "recordMPU"
    /\ UNCHANGED storageVars
    /\ \/ /\ RecordMultipartUploadID(obj[p], mpu[p])
          /\ Leave(p) \/ (unreliable /\ Goto(p, "recordAbort"))
       \/ /\ ~Active(obj[p]) \/ uploadID[obj[p]] # NoUpload \/ unreliable
          /\ UNCHANGED registryVars
          /\ Goto(p, "recordAbort")

RecordAbort(p) ==
    /\ pc[p] = "recordAbort"
    /\ TryAbort(mpu[p]) \/ (unreliable /\ UNCHANGED storageVars)
    /\ Goto(p, "deleteGet")
    /\ UNCHANGED registryVars

(* The Delete that a failed Begin ends with.                                *)
DeleteGet(p) ==
    /\ pc[p] = "deleteGet"
    /\ \/ Visible(obj[p]) /\ Goto(p, "deleteRow")
       \/ (~Visible(obj[p]) \/ unreliable) /\ Leave(p)
    /\ UNCHANGED <<registryVars, storageVars>>

-----------------------------------------------------------------------------
(* Write: server-generated content, stored and published in one call.       *)

Write(p, i, pf, b) ==
    /\ pc[p] = "idle"
    /\ CreatePending(i, pf, Digest[b])
    /\ UNCHANGED storageVars
    /\ \/ /\ pc' = [pc EXCEPT ![p] = "put"]
          /\ task' = [task EXCEPT ![p] = "write"]
          /\ obj' = [obj EXCEPT ![p] = i]
          /\ seen' = [seen EXCEPT ![p] = b]
          /\ UNCHANGED <<mpu, batch, todo>>
       \/ (unreliable /\ UNCHANGED localVars)

(* A PUT to S3 that timed out may still land after the code has given up.   *)
WritePut(p) ==
    /\ pc[p] = "put"
    /\ UNCHANGED registryVars
    /\ \/ Put(obj[p], seen[p]) /\ Goto(p, "mark")
       \/ /\ unreliable
          /\ \/ Put(obj[p], seen[p])
             \/ UNCHANGED storageVars
             \/ Backend = "s3" /\ Outstanding(obj[p])
          /\ Goto(p, "deleteRow")

(* Write cleans up after a failed publication, Finalize does not.           *)
PublishFailed(p) ==
    IF task[p] = "write" THEN Goto(p, "writeDelete") ELSE Leave(p)

Mark(p) ==
    /\ pc[p] = "mark"
    /\ UNCHANGED storageVars
    /\ \/ /\ MarkAvailable(obj[p])
          /\ Goto(p, "published") \/ (unreliable /\ PublishFailed(p))
       \/ /\ ~Active(obj[p])
          /\ UNCHANGED registryVars
          /\ Goto(p, "markGet")
       \/ /\ PublishRefused(obj[p]) \/ unreliable
          /\ UNCHANGED registryVars
          /\ PublishFailed(p)

MarkGet(p) ==
    /\ pc[p] = "markGet"
    /\ \/ state[obj[p]] = "available" /\ Goto(p, "published")
       \/ (state[obj[p]] # "available" \/ unreliable) /\ PublishFailed(p)
    /\ UNCHANGED <<registryVars, storageVars>>

(* Faulty: the bytes go although the registry did not confirm the deletion. *)
WriteDeleteAlways(p) ==
    /\ pc[p] = "writeDelete"
    /\ UNCHANGED storageVars
    /\ RemoveBytes(p, NoUpload)
    /\ Delete(obj[p]) \/ UNCHANGED registryVars

(* The bytes of a failed Write go only when the registry confirms that the  *)
(* object is gone: the publication may have committed after all.            *)
WriteDelete(p) ==
    /\ pc[p] = "writeDelete"
    /\ UNCHANGED storageVars
    /\ \/ /\ Delete(obj[p])
          /\ RemoveBytes(p, uploadID[obj[p]]) \/ (unreliable /\ Leave(p))
       \/ ~Visible(obj[p]) /\ RemoveBytes(p, NoUpload) /\ UNCHANGED registryVars
       \/ /\ (Visible(obj[p]) /\ obj[p] \in attached) \/ unreliable
          /\ UNCHANGED registryVars
          /\ Leave(p)

(* The caller has its answer: the object is published.                      *)
Return(p) ==
    /\ pc[p] = "published"
    /\ Leave(p)
    /\ UNCHANGED <<registryVars, storageVars>>

-----------------------------------------------------------------------------
(* Finalize: publish an upload once storage holds the declared bytes.       *)

Finalize(p, i, pf) ==
    /\ pc[p] = "idle"
    /\ Visible(i)
    /\ prefix[i] = pf
    /\ Start(p, i, IF state[i] = "available" THEN "published" ELSE "refresh", "finalize")
    /\ UNCHANGED <<registryVars, storageVars>>

Refresh(p) ==
    /\ pc[p] = "refresh"
    /\ UNCHANGED storageVars
    /\ \/ /\ RefreshPending(obj[p])
          /\ \/ /\ pc' = [pc EXCEPT ![p] = IF uploadID[obj[p]] = NoUpload
                                           THEN "verify" ELSE "listParts"]
                /\ mpu' = [mpu EXCEPT ![p] = uploadID[obj[p]]]
                /\ UNCHANGED <<task, obj, seen, batch, todo>>
             \/ (unreliable /\ Leave(p))
       \/ ~Active(obj[p]) /\ UNCHANGED registryVars /\ Goto(p, "reget")
       \/ unreliable /\ UNCHANGED registryVars /\ Leave(p)

(* Faulty: a row that is no longer pending is taken for a published one.    *)
RegetTrusting(p) ==
    /\ pc[p] = "reget"
    /\ Goto(p, "published")
    /\ UNCHANGED <<registryVars, storageVars>>

Reget(p) ==
    /\ pc[p] = "reget"
    /\ \/ state[obj[p]] = "available" /\ Goto(p, "published")
       \/ (state[obj[p]] # "available" \/ unreliable) /\ Leave(p)
    /\ UNCHANGED <<registryVars, storageVars>>

(* Faulty: the parts are not added up.                                      *)
ListPartsUnchecked(p) ==
    /\ pc[p] = "listParts"
    /\ pc' = [pc EXCEPT ![p] = "complete"]
    /\ seen' = [seen EXCEPT ![p] = parts[mpu[p]]]
    /\ UNCHANGED <<registryVars, storageVars, task, obj, mpu, batch, todo>>

(* Faulty: an upload that is gone is an error.                              *)
ListPartsStrict(p) ==
    /\ pc[p] = "listParts"
    /\ \/ /\ upStatus[mpu[p]] = "open" /\ parts[mpu[p]] # NoBody
          /\ pc' = [pc EXCEPT ![p] = "complete"]
          /\ seen' = [seen EXCEPT ![p] = parts[mpu[p]]]
          /\ UNCHANGED <<task, obj, mpu, batch, todo>>
       \/ (upStatus[mpu[p]] # "open" \/ parts[mpu[p]] = NoBody) /\ Leave(p)
    /\ UNCHANGED <<registryVars, storageVars>>

(* CompleteMultipartUpload: list the parts, then name them to the provider. *)
ListParts(p) ==
    /\ pc[p] = "listParts"
    /\ LET u == mpu[p]
           arrived == /\ parts[u] # NoBody
                      /\ Digest[parts[u]].size = content[obj[p]].size
       IN  \/ upStatus[u] # "open" /\ Goto(p, "clear")
           \/ /\ upStatus[u] = "open" /\ arrived
              /\ pc' = [pc EXCEPT ![p] = "complete"]
              /\ seen' = [seen EXCEPT ![p] = parts[u]]
              /\ UNCHANGED <<task, obj, mpu, batch, todo>>
           \/ ((upStatus[u] = "open" /\ ~arrived) \/ unreliable) /\ Leave(p)
    /\ UNCHANGED <<registryVars, storageVars>>

(* Parts replaced since they were listed have other ETags, and the provider *)
(* refuses; parts that were only added do no harm.                          *)
Complete(p) ==
    /\ pc[p] = "complete"
    /\ UNCHANGED registryVars
    /\ \/ /\ CompleteUpload(mpu[p], seen[p])
          /\ Goto(p, "clear") \/ (unreliable /\ Leave(p))
       \/ upStatus[mpu[p]] # "open" /\ UNCHANGED storageVars /\ Goto(p, "clear")
       \/ /\ (upStatus[mpu[p]] = "open" /\ parts[mpu[p]] # seen[p]) \/ unreliable
          /\ UNCHANGED storageVars
          /\ Leave(p)

Clear(p) ==
    /\ pc[p] = "clear"
    /\ UNCHANGED storageVars
    /\ \/ /\ ClearMultipartUploadID(obj[p], mpu[p])
          /\ Goto(p, "verify") \/ (unreliable /\ Leave(p))
       \/ /\ ~Visible(obj[p]) \/ uploadID[obj[p]] # mpu[p]
          /\ UNCHANGED registryVars
          /\ Goto(p, "clearGet")
       \/ unreliable /\ UNCHANGED registryVars /\ Leave(p)

ClearGet(p) ==
    /\ pc[p] = "clearGet"
    /\ LET cleared == Visible(obj[p]) /\ uploadID[obj[p]] = NoUpload
       IN  \/ cleared /\ Goto(p, "verify")
           \/ (~cleared \/ unreliable) /\ Leave(p)
    /\ UNCHANGED <<registryVars, storageVars>>

(* Faulty: any bytes will do.                                               *)
VerifyPresence(p) ==
    /\ pc[p] = "verify"
    /\ IF stored[obj[p]] # NoBlob THEN Goto(p, "head") ELSE Leave(p)
    /\ UNCHANGED <<registryVars, storageVars>>

(* inspect: verify the bytes, then read their head unless there are none.   *)
Verify(p) ==
    /\ pc[p] = "verify"
    /\ LET i == obj[p]
           ok == stored[i] # NoBlob /\ Verifies(content[i], stored[i])
       IN  \/ ok /\ Goto(p, IF content[i].size = 0 THEN "mark" ELSE "head")
           \/ (~ok \/ unreliable) /\ Leave(p)
    /\ UNCHANGED <<registryVars, storageVars>>

Head(p) ==
    /\ pc[p] = "head"
    /\ \/ stored[obj[p]] # NoBlob /\ Goto(p, "mark")
       \/ (stored[obj[p]] = NoBlob \/ unreliable) /\ Leave(p)
    /\ UNCHANGED <<registryVars, storageVars>>

-----------------------------------------------------------------------------
(* PresignMultipartPart: sign one part of a pending upload.                 *)

PresignPart(p, i, pf) ==
    /\ pc[p] = "idle"
    /\ Backend = "s3"
    /\ state[i] = "pending"
    /\ prefix[i] = pf
    /\ Start(p, i, "partRefresh", "part")
    /\ UNCHANGED <<registryVars, storageVars>>

PartRefresh(p) ==
    /\ pc[p] = "partRefresh"
    /\ \/ /\ RefreshPending(obj[p])
          /\ \/ uploadID[obj[p]] # NoUpload /\ PresignMultipartPart(uploadID[obj[p]])
             \/ (uploadID[obj[p]] = NoUpload \/ unreliable) /\ UNCHANGED storageVars
       \/ (~Active(obj[p]) \/ unreliable) /\ UNCHANGED <<registryVars, storageVars>>
    /\ Leave(p)

-----------------------------------------------------------------------------
(* Deletion.                                                                *)

DeleteObject(p, i, pf) ==
    /\ pc[p] = "idle"
    /\ Visible(i)
    /\ prefix[i] = pf
    /\ Start(p, i, "deleteRow", "delete")
    /\ UNCHANGED <<registryVars, storageVars>>

DeleteUnreferenced(p, i) ==
    /\ pc[p] = "idle"
    /\ state[i] # "unused"
    /\ Start(p, i, "deleteRow", "delete")
    /\ UNCHANGED <<registryVars, storageVars>>

(* Faulty: the bytes go first.                                              *)
DeleteRowLast(p) ==
    /\ pc[p] = "deleteRow"
    /\ Delete(obj[p]) \/ UNCHANGED registryVars
    /\ RemoveBytes(p, uploadID[obj[p]])
    /\ UNCHANGED storageVars

DeleteRow(p) ==
    /\ pc[p] = "deleteRow"
    /\ UNCHANGED storageVars
    /\ \/ /\ Delete(obj[p])
          /\ RemoveBytes(p, uploadID[obj[p]]) \/ (unreliable /\ Leave(p))
       \/ /\ ~Visible(obj[p]) \/ obj[p] \in attached \/ unreliable
          /\ UNCHANGED registryVars
          /\ Leave(p)

(* Faulty: the outcome of the abort does not matter to the row.             *)
AfterAbortAnyway(p, ok) ==
    IF task[p] = "uploads"
    THEN Leave(p)
    ELSE /\ pc' = [pc EXCEPT ![p] = "deleteKey"]
         /\ UNCHANGED <<task, obj, mpu, seen, batch, todo>>

(* The key is deleted even when the abort failed, but only two successes    *)
(* let the sweep remove the row it claimed.                                 *)
AfterAbort(p, ok) ==
    IF task[p] = "uploads"
    THEN Leave(p)
    ELSE /\ pc' = [pc EXCEPT ![p] = "deleteKey"]
         /\ task' = [task EXCEPT ![p] = IF @ = "expire" /\ ~ok THEN "expireError" ELSE @]
         /\ UNCHANGED <<obj, mpu, seen, batch, todo>>

Abort(p) ==
    /\ pc[p] = "abort"
    /\ UNCHANGED registryVars
    /\ \/ TryAbort(mpu[p]) /\ AfterAbort(p, TRUE)
       \/ /\ unreliable
          /\ TryAbort(mpu[p]) \/ UNCHANGED storageVars
          /\ AfterAbort(p, FALSE)

DeleteBytes(p) ==
    /\ pc[p] = "deleteKey"
    /\ UNCHANGED registryVars
    /\ \/ /\ DeleteKey(obj[p])
          /\ IF task[p] = "expire" THEN Goto(p, "deleteExpired") ELSE Leave(p)
       \/ /\ unreliable
          /\ DeleteKey(obj[p]) \/ UNCHANGED storageVars
          /\ Leave(p)

-----------------------------------------------------------------------------
(* sweepExpiredUploads: expired uploads, unreferenced objects, orphaned     *)
(* bytes, orphaned multipart uploads, in this order.                        *)

EnterPhase(s, t, B, T) ==
    /\ pc' = [pc EXCEPT ![s] = "next"]
    /\ task' = [task EXCEPT ![s] = t]
    /\ batch' = [batch EXCEPT ![s] = B]
    /\ todo' = [todo EXCEPT ![s] = T]
    /\ UNCHANGED <<obj, mpu, seen>>

SweepClaim(s) ==
    /\ pc[s] = "idle"
    /\ UNCHANGED storageVars
    /\ \/ \E B \in SUBSET Id :
            /\ ClaimExpiredPending(B)
            /\ \/ EnterPhase(s, "expire", {<<i, uploadID[i]>> : i \in B}, {})
               \/ (unreliable /\ EnterPhase(s, "expire", {}, {}))
       \/ unreliable /\ UNCHANGED registryVars /\ EnterPhase(s, "expire", {}, {})

(* What the phase does with the next pair of its batch.                     *)
SweepTake(s) ==
    /\ pc[s] = "next"
    /\ \E t \in batch[s] :
         /\ batch' = [batch EXCEPT ![s] = @ \ {t}]
         /\ obj' = [obj EXCEPT ![s] = t[1]]
         /\ mpu' = [mpu EXCEPT ![s] = t[2]]
         /\ pc' = [pc EXCEPT ![s] = IF task[s] = "unreferenced" THEN "deleteRow"
                                    ELSE IF t[2] = NoUpload THEN "deleteKey"
                                    ELSE "abort"]
    /\ UNCHANGED <<registryVars, storageVars, task, seen, todo>>

DeleteExpired(s) ==
    /\ pc[s] = "deleteExpired"
    /\ \/ DeleteExpiredPending(obj[s])
       \/ /\ state[obj[s]] # "expired" \/ obj[s] \in attached \/ unreliable
          /\ UNCHANGED registryVars
    /\ Leave(s)
    /\ UNCHANGED storageVars

(* Faulty: bytes that no row owns are not looked for.                       *)
SweepAdvanceNoKeys(s) ==
    /\ pc[s] = "next"
    /\ batch[s] = {}
    /\ todo[s] = {}
    /\ pc' = [pc EXCEPT ![s] = IF task[s] = "expire" THEN "listUnreferenced"
                               ELSE IF task[s] = "unreferenced" THEN "listUploads"
                               ELSE "idle"]
    /\ task' = [task EXCEPT ![s] = "none"]
    /\ UNCHANGED <<registryVars, storageVars, obj, mpu, seen, batch, todo>>

(* Faulty: uploads that no row records are not looked for.                  *)
SweepAdvanceNoUploads(s) ==
    /\ pc[s] = "next"
    /\ batch[s] = {}
    /\ todo[s] = {}
    /\ pc' = [pc EXCEPT ![s] = IF task[s] = "expire" THEN "listUnreferenced"
                               ELSE IF task[s] = "unreferenced" THEN "listKeys"
                               ELSE "idle"]
    /\ task' = [task EXCEPT ![s] = "none"]
    /\ UNCHANGED <<registryVars, storageVars, obj, mpu, seen, batch, todo>>

SweepAdvance(s) ==
    /\ pc[s] = "next"
    /\ batch[s] = {}
    /\ todo[s] = {}
    /\ pc' = [pc EXCEPT ![s] =
         CASE task[s] = "expire" /\ ReferencedPrefixes # {} -> "listUnreferenced"
           [] task[s] = "keys" /\ Backend = "s3"            -> "listUploads"
           [] task[s] \in {"keys", "uploads"}               -> "idle"
           [] OTHER                                         -> "listKeys"]
    /\ task' = [task EXCEPT ![s] = "none"]
    /\ UNCHANGED <<registryVars, storageVars, obj, mpu, seen, batch, todo>>

SweepUnreferenced(s) ==
    /\ pc[s] = "listUnreferenced"
    /\ \/ \E B \in SUBSET Id :
            ListUnreferenced(B) /\ EnterPhase(s, "unreferenced", B \X {NoUpload}, {})
       \/ (unreliable /\ EnterPhase(s, "unreferenced", {}, {}))
    /\ UNCHANGED <<registryVars, storageVars>>

(* The age of bytes and of uploads is not kept: any of them may be old      *)
(* enough for the listing, or not.                                          *)
ListKeys(s) ==
    /\ pc[s] = "listKeys"
    /\ \E K \in SUBSET {i \in Id : stored[i] # NoBlob} :
         EnterPhase(s, "keys", {}, K \X {NoUpload})
    /\ UNCHANGED <<registryVars, storageVars>>

ListUploads(s) ==
    /\ pc[s] = "listUploads"
    /\ \E U \in SUBSET {u \in UploadId : upStatus[u] = "open"} :
         EnterPhase(s, "uploads", {}, {<<upKey[u], u>> : u \in U})
    /\ UNCHANGED <<registryVars, storageVars>>

(* Faulty: only pending rows are asked for.                                 *)
OwnedPending(s, t) == Active(t[1])

(* An object owns the bytes at its key, and the upload it records.          *)
Owned(s, t) ==
    Visible(t[1]) /\ (task[s] = "uploads" => uploadID[t[1]] = t[2])

(* Faulty: a query that failed is taken for one that found no owners.       *)
SweepOwnersUnresolved(s) ==
    /\ pc[s] = "next"
    /\ batch[s] = {}
    /\ \E C \in SUBSET todo[s] :
         /\ C # {}
         /\ Cardinality(C) <= BatchSize
         /\ todo' = [todo EXCEPT ![s] = @ \ C]
         /\ \/ batch' = [batch EXCEPT ![s] = {t \in C : ~Owned(s, t)}]
            \/ (unreliable /\ batch' = [batch EXCEPT ![s] = C])
    /\ UNCHANGED <<registryVars, storageVars, pc, task, obj, mpu, seen>>

(* owners: one registry query for a chunk of the listing.                   *)
SweepOwners(s) ==
    /\ pc[s] = "next"
    /\ batch[s] = {}
    /\ \E C \in SUBSET todo[s] :
         /\ C # {}
         /\ Cardinality(C) <= BatchSize
         /\ C = todo[s] \/ Cardinality(C) = BatchSize
         /\ todo' = [todo EXCEPT ![s] = @ \ C]
         /\ \/ batch' = [batch EXCEPT ![s] = {t \in C : ~Owned(s, t)}]
            \/ (unreliable /\ UNCHANGED batch)
    /\ UNCHANGED <<registryVars, storageVars, pc, task, obj, mpu, seen>>

-----------------------------------------------------------------------------
RequestCalled(p) ==
    \/ \E i \in Id, pf \in Prefix :
         \/ \E c \in Content : Begin(p, i, pf, c) \/ BeginDirect(p, i, pf, c)
         \/ \E b \in Body : Write(p, i, pf, b)
         \/ Finalize(p, i, pf)
         \/ PresignPart(p, i, pf)
         \/ DeleteObject(p, i, pf)
    \/ \E i \in Id : DeleteUnreferenced(p, i)

RequestStep(p) ==
    \/ Sign(p) \/ CreateMPU(p) \/ RecordMPU(p) \/ RecordAbort(p) \/ DeleteGet(p)
    \/ WritePut(p) \/ Mark(p) \/ MarkGet(p) \/ WriteDelete(p) \/ Return(p)
    \/ Refresh(p) \/ Reget(p) \/ ListParts(p) \/ Complete(p) \/ Clear(p) \/ ClearGet(p)
    \/ Verify(p) \/ Head(p) \/ PartRefresh(p)
    \/ DeleteRow(p) \/ Abort(p) \/ DeleteBytes(p)

SweeperStep(s) ==
    \/ SweepClaim(s) \/ SweepTake(s) \/ DeleteExpired(s) \/ SweepAdvance(s)
    \/ SweepUnreferenced(s) \/ ListKeys(s) \/ ListUploads(s) \/ SweepOwners(s)
    \/ DeleteRow(s) \/ Abort(s) \/ DeleteBytes(s)

ProcessNext ==
    /\ \/ \E p \in Request : RequestCalled(p) \/ RequestStep(p)
       \/ \E s \in Sweeper : SweeperStep(s)
       \/ \E p \in Process : Crash(p)
    /\ UNCHANGED unreliable

(* Clients, the application, the clock and the end of the outages.          *)
ClientNext ==
    /\ \/ \E i \in Id : PutDirect(i, content[i]) \/ ExpireCap(i)
       \/ \E u \in UploadId : UploadPart(u) \/ ExpirePartCap(u)
    /\ UNCHANGED <<registryVars, unreliable, localVars>>

(* The application learns of an object when the call that creates it        *)
(* returns, or by listing what is available.                                *)
Known(i) ==
    \/ state[i] = "available"
    \/ \A p \in Request : obj[p] = i => task[p] \notin {"begin", "write"}

ApplicationNext ==
    /\ \E i \in Id : (Known(i) /\ Attach(i)) \/ Detach(i) \/ Age(i)
    /\ UNCHANGED <<storageVars, unreliable, localVars>>

BecomeReliable ==
    /\ unreliable
    /\ unreliable' = FALSE
    /\ UNCHANGED <<registryVars, storageVars, localVars>>

Next == ProcessNext \/ ClientNext \/ ApplicationNext \/ BecomeReliable

Spec == Init /\ [][Next]_vars

-----------------------------------------------------------------------------
(* A body that is what was declared, as far as the backend can vouch.       *)
Declared(c, blob) ==
    /\ Digest[blob.body].size = c.size
    /\ blob.sum = "SHA256" => Digest[blob.body].sha = c.sha
    /\ blob.sum = "CRC64NVME" => Digest[blob.body].crc = c.crc

(* The key of an available object holds the bytes its uploader declared:    *)
(* no lost response, retry, concurrent Finalize, Delete or sweep leaves a   *)
(* published row over missing or different bytes.                           *)
PublishedBytesIntact ==
    \A i \in Id : state[i] = "available" =>
        stored[i] # NoBlob /\ Declared(content[i], stored[i])

(* Publication is immutable: neither a signed PUT that outlives Finalize    *)
(* nor a stale multipart completion replaces the bytes of an available      *)
(* object, and only the deletion of an unattached row withdraws it.         *)
PublishedStep ==
    \A i \in Id : state[i] = "available" =>
        \/ state'[i] = "available" /\ stored'[i] = stored[i]
        \/ state'[i] = "deleted" /\ i \notin attached
PublishedImmutable == [][PublishedStep]_vars

(* The bytes of an object that the application references stay: reference   *)
(* constraints prevent the deletion of attached content.                    *)
AttachedBytesKept ==
    [][\A i \in Id : i \in attached /\ stored[i] # NoBlob => stored'[i] # NoBlob]_vars

(* When Finalize or Write comes to answer with success, the object is       *)
(* available and its key holds the declared bytes: the fallbacks that read  *)
(* the row again after a lost race never turn a row that a sweep expired,   *)
(* or a deletion removed, into a success.                                   *)
SuccessStep ==
    \A p \in Process : pc'[p] = "published" /\ pc[p] # "published" =>
        /\ state'[obj'[p]] = "available"
        /\ stored'[obj'[p]] # NoBlob
        /\ Declared(content'[obj'[p]], stored'[obj'[p]])
SuccessMeansPublished == [][SuccessStep]_vars

(* A sweep gives an expired row up only when the multipart upload that the  *)
(* row records is open no more: after an abort that failed, or a crash on   *)
(* the way, the row stays and names the upload to a later sweep, although   *)
(* its bytes are deleted all the same.                                      *)
GiveUpStep ==
    \A i \in Id : state[i] = "expired" /\ state'[i] = "deleted" =>
        uploadID[i] = NoUpload \/ upStatus[uploadID[i]] # "open"
RowsOutliveUploads == [][GiveUpStep]_vars

=============================================================================
