--------------------------- MODULE BlobyInvariant ---------------------------
(***************************************************************************)
(* The inductive invariant behind the safety properties of Bloby, as a      *)
(* conjunction of named parts.  The argument in one sentence: a key takes   *)
(* bytes either from single PUTs, all of the same declared body, or from    *)
(* the one multipart upload ever recorded for it, and whoever is about to   *)
(* empty a key holds proof that its row can no longer be published.         *)
(***************************************************************************)
EXTENDS Bloby

Used(u) == upStatus[u] # "unused"
KeyUsed(i) == \E u \in UploadId : Used(u) /\ upKey[u] = i

(* An id that was never handed out has left no trace in storage.            *)
UnusedIsFresh ==
    \A i \in Id : state[i] = "unused" =>
        i \notin caps /\ stored[i] = NoBlob /\ ~KeyUsed(i)

(* Every process that is at work on an object has one.                      *)
Busy(p) == pc[p] \notin {"idle", "next", "listUnreferenced", "listKeys", "listUploads"}
UploadPc == {"recordMPU", "recordAbort", "listParts", "complete", "clear", "abort"}
SweepTask == {"expire", "expireError", "unreferenced", "keys", "uploads"}
LocalsOK ==
    \A p \in Process :
        /\ Busy(p) => obj[p] \in Id
        /\ pc[p] \in UploadPc => mpu[p] \in UploadId
        /\ pc[p] \in {"put", "complete"} => seen[p] \in Body
        /\ p \in Sweeper /\ (Busy(p) \/ pc[p] = "next") => task[p] \in SweepTask
        /\ p \notin Sweeper => pc[p] # "next"
        /\ task[p] = "uploads" => \A t \in batch[p] \cup todo[p] : t[2] \in UploadId

UploadKeysOK == \A u \in UploadId : Used(u) => upKey[u] \in Id

(* The process that created an object is the only one to choose how its     *)
(* bytes arrive.                                                            *)
Starting(p) == pc[p] \in {"sign", "createMPU", "put"}
StartersOK ==
    /\ \A p \in Process : Starting(p) => state[obj[p]] # "unused" /\ ~KeyUsed(obj[p])
    /\ \A p \in Process : pc[p] \in {"markGet", "writeDelete"} => state[obj[p]] # "unused"
    /\ \A p \in Process : pc[p] = "createMPU" =>
           Backend = "s3" /\ obj[p] \notin caps /\ stored[obj[p]] = NoBlob
    /\ \A p \in Process : pc[p] = "put" => content[obj[p]] = Digest[seen[p]]
    /\ \A p, q \in Process :
           Starting(p) /\ Starting(q) /\ obj[p] = obj[q] => p = q

(* An object has at most one multipart upload, and while that upload is     *)
(* open its key is empty.                                                   *)
UploadsOK ==
    /\ \A u \in UploadId : Used(u) => Backend = "s3"
    /\ \A u, v \in UploadId : Used(u) /\ Used(v) /\ upKey[u] = upKey[v] => u = v
    /\ \A u \in UploadId : upStatus[u] = "open" => stored[upKey[u]] = NoBlob

(* A key never mixes the two ways of uploading.                             *)
KeysOK ==
    /\ \A i \in caps : ~KeyUsed(i)
    /\ \A i \in Id : stored[i] # NoBlob =>
           IF stored[i].sum = "SHA256"
           THEN PutAdmits(content[i], stored[i].body) /\ ~KeyUsed(i)
           ELSE KeyUsed(i)

(* What verify established still holds when MarkAvailable is called, unless *)
(* the row was retired meanwhile, in which case MarkAvailable refuses.      *)
VerifiedOK ==
    \A p \in Process : pc[p] \in {"head", "mark"} =>
        \/ Retired(obj[p])
        \/ stored[obj[p]] # NoBlob /\ Declared(content[obj[p]], stored[obj[p]])

(* Whoever is about to empty a key works on a retired object.               *)
RemovalOK ==
    \A p \in Process :
        /\ pc[p] = "deleteKey" => Retired(obj[p])
        /\ pc[p] = "abort" /\ task[p] # "uploads" => Retired(obj[p])
        /\ task[p] \in {"expire", "expireError", "keys"} =>
               \A t \in batch[p] : Retired(t[1])
        /\ \A t \in todo[p] : state[t[1]] # "unused"

(* An expired row records the upload that a sweep took from its claim, and  *)
(* the sweep that comes to delete the row has seen that upload closed.      *)
Gone(u) == u = NoUpload \/ upStatus[u] = "closed"
ExpiringOK(s) ==
    /\ pc[s] = "deleteExpired" => task[s] = "expire" /\ Retired(obj[s])
    /\ task[s] \in {"expire", "expireError"} =>
           /\ todo[s] = {}
           /\ \A t \in batch[s] : state[t[1]] = "expired" => uploadID[t[1]] = t[2]
    /\ task[s] = "expire" /\ pc[s] = "abort" /\ state[obj[s]] = "expired" =>
           uploadID[obj[s]] = mpu[s]
    /\ task[s] = "expire" /\ pc[s] \in {"deleteKey", "deleteExpired"}
           /\ state[obj[s]] = "expired" => Gone(uploadID[obj[s]])
ExpiryOK ==
    /\ \A i \in Id : uploadID[i] # NoUpload => Used(uploadID[i])
    /\ \A p \in Process : pc[p] = "recordMPU" => Used(mpu[p])
    /\ \A s \in Sweeper : ExpiringOK(s)

(* The inductive invariant: no interleaving of requests, sweeps, crashes    *)
(* and late uploads mixes upload routes, reuses a key or removes the bytes  *)
(* of an object that can still be published.                                *)
Consistent ==
    /\ UnusedIsFresh
    /\ LocalsOK
    /\ UploadKeysOK
    /\ StartersOK
    /\ UploadsOK
    /\ KeysOK
    /\ VerifiedOK
    /\ RemovalOK
    /\ ExpiryOK
    /\ PublishedBytesIntact
=============================================================================
