------------------------------ MODULE Objects -------------------------------
(***************************************************************************)
(* What the registry and the storage backends have in common: object ids,   *)
(* multipart upload ids, bodies, and the declarations made of bodies        *)
(* (object_store.go and content.go of bloby).                               *)
(***************************************************************************)
EXTENDS Naturals, FiniteSets

CONSTANTS
    Id,        \* registry ids; an id also names its object's storage key
    UploadId,  \* multipart upload ids the provider may hand out
    NoUpload,  \* no multipart upload: a NULL multipart_upload_id
    Body,      \* everything that may be sent, told apart by its digest
    NoBody,    \* no bytes at all
    Content,   \* declarations [size, sha, crc] an uploader may make
    NoContent, \* the declaration of an object not yet created
    Digest     \* the declaration that is true of each body

(* SHA-256 identifies a body; CRC64NVME need not.                           *)
ASSUME ObjectsAssumption ==
    /\ NoUpload \notin UploadId
    /\ NoBody \notin Body
    /\ NoContent \notin Content
    /\ \A c \in Content : c.size \in Nat
    /\ Digest \in [Body -> Content]
    /\ \A b, c \in Body : Digest[b].sha = Digest[c].sha => b = c

=============================================================================
