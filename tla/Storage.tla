------------------------------ MODULE Storage -------------------------------
(***************************************************************************)
(* The storage backends of bloby: the local file store (file.go) and S3     *)
(* (s3.go).  A body is a model value, told apart from others only by what   *)
(* Digest says of it.  stored[k] is what the key of object k holds: a body, *)
(* and the checksum the backend vouches for it with.  A key is named by the *)
(* id of its object, since an object keeps one key for life.                *)
(*                                                                          *)
(* The behaviour of the S3 provider itself is external; it is modelled as   *)
(* the code relies on it: an upload that was completed or aborted is gone   *)
(* for good, a completion names the parts it assembles by ETag, and a       *)
(* signed PUT is refused unless its body has the signed length and SHA-256. *)
(***************************************************************************)
EXTENDS Objects

CONSTANTS
    NoBlob,              \* what an empty key holds
    NoKey,               \* the key of an upload that does not exist
    Backend,             \* "file" or "s3"
    MultipartThreshold   \* s3MultipartThreshold

Blob == [body : Body, sum : {"SHA256", "CRC64NVME"}]

ASSUME StorageAssumption ==
    /\ NoBlob \notin Blob
    /\ NoKey \notin Id
    /\ Backend \in {"file", "s3"}
    /\ MultipartThreshold \in Nat

VARIABLES
    stored,    \* what each key holds
    upStatus,  \* "unused", "open" or "closed"
    upKey,     \* the key each upload was created for
    parts,     \* what the parts of each upload amount to, put together
    caps,      \* keys with a signed PUT, or a timed-out one, outstanding
    partCaps   \* uploads with a signed part PUT outstanding

storageVars == <<stored, upStatus, upKey, parts, caps, partCaps>>

StorageInit ==
    /\ stored = [k \in Id |-> NoBlob]
    /\ upStatus = [u \in UploadId |-> "unused"]
    /\ upKey = [u \in UploadId |-> NoKey]
    /\ parts = [u \in UploadId |-> NoBody]
    /\ caps = {}
    /\ partCaps = {}

StorageTypeOK ==
    /\ stored \in [Id -> Blob \cup {NoBlob}]
    /\ upStatus \in [UploadId -> {"unused", "open", "closed"}]
    /\ upKey \in [UploadId -> Id \cup {NoKey}]
    /\ parts \in [UploadId -> Body \cup {NoBody}]
    /\ caps \subseteq Id
    /\ partCaps \subseteq UploadId

-----------------------------------------------------------------------------
(* beginUpload: S3 takes a declared size above the threshold in parts.      *)
Multipart(c) == Backend = "s3" /\ c.size > MultipartThreshold

(* What a PUT admits: fileStore.Put reads the body and compares before it   *)
(* renames; S3 compares with the signed or sent headers.                    *)
PutAdmits(c, b) == Digest[b].size = c.size /\ Digest[b].sha = c.sha

(* Put admitted only declared bytes, so the file store compares sizes.      *)
FileVerifies(c, blob) == Digest[blob.body].size = c.size

(* S3 must also vouch for the bytes with the full-object checksum it keeps. *)
S3Verifies(c, blob) ==
    /\ Digest[blob.body].size = c.size
    /\ \/ blob.sum = "SHA256" /\ Digest[blob.body].sha = c.sha
       \/ blob.sum = "CRC64NVME" /\ Digest[blob.body].crc = c.crc

Verifies(c, blob) ==
    \/ Backend = "file" /\ FileVerifies(c, blob)
    \/ Backend = "s3" /\ S3Verifies(c, blob)

(* PresignPut: the URL works until its TTL runs out, whatever becomes of    *)
(* the object.                                                              *)
Outstanding(k) ==
    /\ caps' = caps \cup {k}
    /\ UNCHANGED <<stored, upStatus, upKey, parts, partCaps>>

Put(k, b) ==
    /\ stored' = [stored EXCEPT ![k] = [body |-> b, sum |-> "SHA256"]]
    /\ UNCHANGED <<upStatus, upKey, parts, caps, partCaps>>

DeleteKey(k) ==
    /\ stored' = [stored EXCEPT ![k] = NoBlob]
    /\ UNCHANGED <<upStatus, upKey, parts, caps, partCaps>>

CreateMultipartUpload(k, u) ==
    /\ upStatus[u] = "unused"
    /\ upStatus' = [upStatus EXCEPT ![u] = "open"]
    /\ upKey' = [upKey EXCEPT ![u] = k]
    /\ UNCHANGED <<stored, parts, caps, partCaps>>

PresignMultipartPart(u) ==
    /\ partCaps' = partCaps \cup {u}
    /\ UNCHANGED <<stored, upStatus, upKey, parts, caps>>

CloseUpload(u) ==
    /\ upStatus' = [upStatus EXCEPT ![u] = "closed"]
    /\ parts' = [parts EXCEPT ![u] = NoBody]
    /\ UNCHANGED <<upKey, caps, partCaps>>

(* The provider assembles the listed parts, b, at the upload's key.         *)
CompleteUpload(u, b) ==
    /\ upStatus[u] = "open"
    /\ CloseUpload(u)
    /\ stored' = [stored EXCEPT ![upKey[u]] = [body |-> b, sum |-> "CRC64NVME"]]

AbortMultipartUpload(u) ==
    /\ upStatus[u] = "open"
    /\ CloseUpload(u)
    /\ UNCHANGED stored

-----------------------------------------------------------------------------
(* The uploading client (external) and the life of what it was handed.      *)

PutDirect(k, c) ==
    /\ k \in caps
    /\ \E b \in Body : PutAdmits(c, b) /\ Put(k, b)

(* A part URL binds the checksum the client chose for the part, so the      *)
(* parts may amount to anything.                                            *)
UploadPart(u) ==
    /\ u \in partCaps
    /\ upStatus[u] = "open"
    /\ \E b \in Body : parts' = [parts EXCEPT ![u] = b]
    /\ UNCHANGED <<stored, upStatus, upKey, caps, partCaps>>

(* The TTL has run out and the last transfer begun in time is over.         *)
ExpireCap(k) ==
    /\ caps' = caps \ {k}
    /\ UNCHANGED <<stored, upStatus, upKey, parts, partCaps>>

ExpirePartCap(u) ==
    /\ partCaps' = partCaps \ {u}
    /\ UNCHANGED <<stored, upStatus, upKey, parts, caps>>

=============================================================================
