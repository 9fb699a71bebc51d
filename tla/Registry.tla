------------------------------ MODULE Registry ------------------------------
(***************************************************************************)
(* The object registry of bloby/pgxstore: the table storage_objects and the *)
(* SQL statements that touch it.  Each statement is atomic, and each column *)
(* a property can tell apart is a variable.  The columns filename,          *)
(* content_type and storage_key are left out: an object's key is a function *)
(* of its id, so the id stands for both.                                    *)
(*                                                                          *)
(* Timestamps are abstracted to one bit per row: stale[i] says that the     *)
(* timestamp its state is judged by (updated_at while pending, expired_at   *)
(* once expired, available_at once available) lies before the cutoff a      *)
(* sweep compares it with.  Age makes it so, at any time.                   *)
(***************************************************************************)
EXTENDS Objects

CONSTANTS
    Prefix,              \* storage prefixes
    ReferencedPrefixes,  \* Config.ReferencedPrefixes
    BatchSize            \* uploadCleanupBatchSize

ASSUME RegistryAssumption ==
    /\ Prefix # {}
    /\ ReferencedPrefixes \subseteq Prefix
    /\ BatchSize \in Nat \ {0}

VARIABLES
    state,     \* "unused", "pending", "available", "expired" or "deleted"
    content,   \* size_bytes, sha256 and crc64nvme as declared
    prefix,    \* prefix
    uploadID,  \* multipart_upload_id
    stale,     \* the row's decisive timestamp is before the sweep's cutoff
    attached   \* the ids a foreign key of the application references

registryVars == <<state, content, prefix, uploadID, stale, attached>>

RegistryInit ==
    /\ state = [i \in Id |-> "unused"]
    /\ content = [i \in Id |-> NoContent]
    /\ prefix = [i \in Id |-> CHOOSE pf \in Prefix : TRUE]
    /\ uploadID = [i \in Id |-> NoUpload]
    /\ stale = [i \in Id |-> FALSE]
    /\ attached = {}

RegistryTypeOK ==
    /\ state \in [Id -> {"unused", "pending", "available", "expired", "deleted"}]
    /\ content \in [Id -> Content \cup {NoContent}]
    /\ prefix \in [Id -> Prefix]
    /\ uploadID \in [Id -> UploadId \cup {NoUpload}]
    /\ stale \in [Id -> BOOLEAN]
    /\ attached \subseteq Id

(* WHERE available_at IS NULL AND expired_at IS NULL                        *)
Active(i) == state[i] = "pending"

(* WHERE expired_at IS NULL: the rows GetByID and ListByIDs return.         *)
Visible(i) == state[i] \in {"pending", "available"}

(* The row of an object whose bytes may be removed: it can never be         *)
(* published again.                                                         *)
Retired(i) == state[i] \in {"expired", "deleted"}

-----------------------------------------------------------------------------
(* One definition per statement.  Each is enabled exactly when the          *)
(* statement changes a row; the caller decides what an unmatched row means. *)

(* A sequence never repeats a value, so a deleted id is not handed out      *)
(* again.                                                                   *)
CreatePending(i, pf, c) ==
    /\ state[i] = "unused"
    /\ state' = [state EXCEPT ![i] = "pending"]
    /\ content' = [content EXCEPT ![i] = c]
    /\ prefix' = [prefix EXCEPT ![i] = pf]
    /\ UNCHANGED <<uploadID, stale, attached>>

(* storage_objects_state_check refuses an available row with an upload id.  *)
PublishRefused(i) == Active(i) /\ uploadID[i] # NoUpload

(* Faulty: the condition expired_at IS NULL is missing.                     *)
MarkAvailableExpired(i) ==
    /\ state[i] \in {"pending", "expired"}
    /\ uploadID[i] = NoUpload
    /\ state' = [state EXCEPT ![i] = "available"]
    /\ stale' = [stale EXCEPT ![i] = FALSE]
    /\ UNCHANGED <<content, prefix, uploadID, attached>>

MarkAvailable(i) ==
    /\ Active(i)
    /\ ~PublishRefused(i)
    /\ state' = [state EXCEPT ![i] = "available"]
    /\ stale' = [stale EXCEPT ![i] = FALSE]
    /\ UNCHANGED <<content, prefix, uploadID, attached>>

RefreshPending(i) ==
    /\ Active(i)
    /\ stale' = [stale EXCEPT ![i] = FALSE]
    /\ UNCHANGED <<state, content, prefix, uploadID, attached>>

RecordMultipartUploadID(i, u) ==
    /\ Active(i)
    /\ uploadID[i] = NoUpload
    /\ uploadID' = [uploadID EXCEPT ![i] = u]
    /\ stale' = [stale EXCEPT ![i] = FALSE]
    /\ UNCHANGED <<state, content, prefix, attached>>

ClearMultipartUploadID(i, u) ==
    /\ Visible(i)
    /\ uploadID[i] = u
    /\ uploadID' = [uploadID EXCEPT ![i] = NoUpload]
    /\ stale' = [stale EXCEPT ![i] = FALSE]
    /\ UNCHANGED <<state, content, prefix, attached>>

(* A row removed from the table: its columns go with it.  The declaration   *)
(* stays, because signed upload URLs carry a copy of it.                    *)
RemoveRow(i) ==
    /\ state' = [state EXCEPT ![i] = "deleted"]
    /\ uploadID' = [uploadID EXCEPT ![i] = NoUpload]
    /\ stale' = [stale EXCEPT ![i] = FALSE]
    /\ UNCHANGED <<content, prefix, attached>>

(* Faulty: no reference constraint.                                         *)
DeleteUnchecked(i) == Visible(i) /\ RemoveRow(i)

(* A foreign key of the application (external) restricts the deletion.      *)
Delete(i) == Visible(i) /\ i \notin attached /\ RemoveRow(i)

DeleteExpiredPending(i) ==
    state[i] = "expired" /\ i \notin attached /\ RemoveRow(i)

(* Faulty: a row once claimed is never claimed again.                       *)
RetriableNever == {}

(* Faulty: uploads in parts are not taken for abandoned.                    *)
AbandonedDirect == {i \in Id : state[i] = "pending" /\ stale[i] /\ uploadID[i] = NoUpload}

Retriable == {i \in Id : state[i] = "expired" /\ stale[i]}
Abandoned == {i \in Id : state[i] = "pending" /\ stale[i]}

(* What LIMIT takes of the rows to claim, those of earlier sweeps before    *)
(* fresh ones, when SKIP LOCKED passes over the rows L of a transaction     *)
(* that is under way.                                                       *)
ClaimBatch(B, L) ==
    LET again == Retriable \ L
        due   == again \cup (Abandoned \ L)
    IN  /\ B \subseteq due
        /\ B = due \/ Cardinality(B) = BatchSize
        /\ Cardinality(B) <= BatchSize
        /\ B \subseteq again \/ again \subseteq B

ClaimExpiredPending(B) ==
    /\ \E L \in SUBSET Id : ClaimBatch(B, L)
    /\ state' = [i \in Id |-> IF i \in B THEN "expired" ELSE state[i]]
    /\ stale' = [i \in Id |-> stale[i] /\ i \notin B]
    /\ UNCHANGED <<content, prefix, uploadID, attached>>

(* Faulty: EXISTS for NOT EXISTS.                                           *)
UnreferencedInverted ==
    {i \in Id : /\ state[i] = "available" /\ stale[i]
                /\ prefix[i] \in ReferencedPrefixes
                /\ i \in attached}

Unreferenced ==
    {i \in Id : /\ state[i] = "available" /\ stale[i]
                /\ prefix[i] \in ReferencedPrefixes
                /\ i \notin attached}

(* The rows one ListUnreferenced may return.                                *)
ListUnreferenced(B) ==
    /\ B \subseteq Unreferenced
    /\ Cardinality(B) <= BatchSize
    /\ B = Unreferenced \/ Cardinality(B) = BatchSize

-----------------------------------------------------------------------------
(* The application's own tables and the clock.                              *)

Attach(i) ==
    /\ state[i] \in {"pending", "available", "expired"}
    /\ attached' = attached \cup {i}
    /\ UNCHANGED <<state, content, prefix, uploadID, stale>>

Detach(i) ==
    /\ attached' = attached \ {i}
    /\ UNCHANGED <<state, content, prefix, uploadID, stale>>

Age(i) ==
    /\ state[i] \in {"pending", "available", "expired"}
    /\ stale' = [stale EXCEPT ![i] = TRUE]
    /\ UNCHANGED <<state, content, prefix, uploadID, attached>>

=============================================================================
