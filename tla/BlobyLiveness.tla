--------------------------- MODULE BlobyLiveness ----------------------------
(***************************************************************************)
(* What bloby must eventually do, and the fairness that lets it: outages    *)
(* end, requests run to their end, RunCleanup sweeps again and again, and   *)
(* time passes.                                                             *)
(***************************************************************************)
EXTENDS Bloby

Fair(A) == A /\ UNCHANGED unreliable

(* Rows age, bytes and uploads grow old enough to be listed, signed URLs    *)
(* run out.                                                                 *)
TimePasses ==
    /\ \A i \in Id :
         /\ WF_vars(Age(i) /\ UNCHANGED <<storageVars, unreliable, localVars>>)
         /\ WF_vars(ExpireCap(i) /\ UNCHANGED <<registryVars, unreliable, localVars>>)
         /\ \A s \in Sweeper :
              SF_vars(Fair(ListKeys(s) /\ <<i, NoUpload>> \in todo'[s]))
    /\ \A u \in UploadId :
         /\ WF_vars(ExpirePartCap(u) /\ UNCHANGED <<registryVars, unreliable, localVars>>)
         /\ \A s \in Sweeper :
              SF_vars(Fair(ListUploads(s) /\ \E t \in todo'[s] : t[2] = u))

(* No row is locked at every claim.                                         *)
SweepersRun ==
    \A s \in Sweeper :
        /\ WF_vars(Fair(SweeperStep(s)))
        /\ SF_vars(Fair(SweepClaim(s) /\ (Retriable \cup Abandoned)' = {}))

RequestsRun == \A p \in Request : WF_vars(Fair(RequestStep(p)))

FairSpec ==
    Spec /\ WF_vars(BecomeReliable) /\ RequestsRun /\ SweepersRun /\ TimePasses

(* The client calls Finalize until it has an answer; nothing sweeps.        *)
RetrySpec ==
    /\ Spec /\ WF_vars(BecomeReliable) /\ RequestsRun
    /\ \A i \in Id :
         SF_vars(Fair(\E p \in Request, pf \in Prefix : Finalize(p, i, pf)))

-----------------------------------------------------------------------------
(* Bytes of a retired object go for good: neither a delete that failed, nor *)
(* a crash between the row and the bytes, nor a signed PUT that lands after *)
(* the deletion leaves bytes that no sweep finds.                           *)
NoLeakedBytes == \A i \in Id : Retired(i) ~> [](stored[i] = NoBlob)

(* An open multipart upload that its object does not record is recorded or  *)
(* aborted: a crash between CreateMultipartUpload and                       *)
(* RecordMultipartUploadID, or an abort that failed, leaks no upload.       *)
Recorded(u) == upKey[u] \in Id /\ Visible(upKey[u]) /\ uploadID[upKey[u]] = u
NoLeakedUploads ==
    \A u \in UploadId :
        upStatus[u] = "open" /\ ~Recorded(u) ~> upStatus[u] = "closed" \/ Recorded(u)

(* A row claimed by a sweep is removed by that sweep or a later one, unless *)
(* the application references it.                                           *)
ExpiredRowsGo ==
    \A i \in Id : state[i] = "expired" ~> state[i] = "deleted" \/ i \in attached

(* An upload that nobody comes back for does not stay pending.              *)
AbandonedUploadsEnd ==
    \A i \in Id : ~<>[](state[i] = "pending" /\ \A p \in Request : obj[p] # i)

(* A published object of a referenced prefix that stays unattached does not *)
(* stay published.                                                          *)
UnattachedObjectsGo ==
    \A i \in Id : ~<>[](/\ state[i] = "available" /\ i \notin attached
                        /\ prefix[i] \in ReferencedPrefixes)

(* An upload whose declared bytes have arrived is published, or removed,    *)
(* however often its client has to retry: a completion, a clear or a        *)
(* publication whose response was lost never wedges Finalize.               *)
ArrivedUploadsEnd ==
    \A i \in Id :
        /\ state[i] = "pending"
        /\ stored[i] # NoBlob
        /\ Declared(content[i], stored[i])
        ~> state[i] # "pending"

=============================================================================
