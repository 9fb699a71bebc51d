----------------------------- MODULE PartUploads ----------------------------
(***************************************************************************)
(* The multipart transfer of the browser client (packages/bloby-client):    *)
(* upload splits a blob into parts, sends a few at a time, each with a      *)
(* bounded number of attempts, adds up progress and stops everything when   *)
(* one part fails for good or the caller cancels.                           *)
(*                                                                          *)
(* p-map and p-retry are external: p-map starts the parts in order, rejects *)
(* on the first error or on abort and starts nothing afterwards; p-retry    *)
(* looks at the signal before each attempt.  An event handler runs to its   *)
(* end, so a step is what one event sets off.                               *)
(***************************************************************************)
EXTENDS Integers, FiniteSets

CONSTANTS
    BlobSizes,             \* the sizes of the blobs that may be uploaded
    MultipartPartSize,     \* multipartPartSize
    MaximumMultipartParts, \* maximumMultipartParts
    PartConcurrency,       \* partConcurrency
    PartAttempts           \* partAttempts

ASSUME PartUploadsAssumption ==
    /\ BlobSizes \subseteq Nat
    /\ {MultipartPartSize, MaximumMultipartParts, PartConcurrency, PartAttempts}
           \subseteq Nat \ {0}

VARIABLES
    size,        \* blob.size
    at,          \* where the work on each part stands
    tries,       \* attempts begun for each part
    partLoaded,  \* partLoaded of each part
    loaded,      \* the progress last reported
    aborted,     \* the combined signal is aborted
    outcome,     \* "pending", "resolved" or "rejected"
    held         \* the parts that storage has accepted

vars == <<size, at, tries, partLoaded, loaded, aborted, outcome, held>>

-----------------------------------------------------------------------------
Ceil(n, d) == (n + d - 1) \div d

(* Faulty: parts do not grow with the blob.                                 *)
PartSizeFixed(n) == MultipartPartSize

PartSize(n) ==
    LET least == Ceil(n, MaximumMultipartParts)
    IN  IF least > MultipartPartSize THEN least ELSE MultipartPartSize

PartCount(n) == Ceil(n, PartSize(n))
Part == 1 .. PartCount(size)

Offset(k) == (k - 1) * PartSize(size)

(* blob.slice ends where the blob does.                                     *)
PartLength(k) ==
    IF k * PartSize(size) <= size THEN PartSize(size) ELSE size - Offset(k)

(* The first n bytes of the part, as bytes 1..size of the blob.             *)
FirstBytes(k, n) == Offset(k) + 1 .. Offset(k) + n

Working(k) == at[k] \notin {"queued", "done", "failed"}

(* A multipart upload of an empty blob is refused at once.                  *)
Init ==
    /\ size \in BlobSizes
    /\ at = [k \in Part |-> "queued"]
    /\ tries = [k \in Part |-> 0]
    /\ partLoaded = [k \in Part |-> 0]
    /\ loaded = 0
    /\ aborted = FALSE
    /\ outcome = IF size = 0 THEN "rejected" ELSE "pending"
    /\ held = {}

Goto(k, l) == at' = [at EXCEPT ![k] = l]

(* Faulty: what the part had reported before is counted again.              *)
OnLoadedTwice(k, n) ==
    /\ loaded' = loaded + n
    /\ partLoaded' = [partLoaded EXCEPT ![k] = n]

OnLoaded(k, n) ==
    /\ loaded' = loaded + n - partLoaded[k]
    /\ partLoaded' = [partLoaded EXCEPT ![k] = n]

-----------------------------------------------------------------------------
(* Faulty: the other parts go on.                                           *)
FailPartAlone(k) ==
    /\ Goto(k, "failed")
    /\ outcome' = "rejected"
    /\ UNCHANGED aborted

(* The part is lost: failure.abort, and the mapper's error reaches p-map.   *)
FailPart(k) ==
    /\ Goto(k, "failed")
    /\ aborted' = TRUE
    /\ outcome' = "rejected"

(* Faulty: a part that runs out of attempts is passed over.                 *)
AttemptFailedQuietly(k) ==
    /\ OnLoaded(k, 0)
    /\ UNCHANGED <<aborted, outcome>>
    /\ Goto(k, IF tries[k] < PartAttempts THEN "backoff" ELSE "accepted")

(* onFailedAttempt takes back the part's progress; then p-retry waits for   *)
(* another attempt, unless the attempts are used up, the error is not one   *)
(* to retry or the signal is aborted.                                       *)
AttemptFailed(k) ==
    /\ OnLoaded(k, 0)
    /\ \/ tries[k] < PartAttempts /\ ~aborted /\ Goto(k, "backoff")
                                  /\ UNCHANGED <<aborted, outcome>>
       \/ FailPart(k)

(* pMap: the next part, while fewer than PartConcurrency are under way.     *)
TakePart(k) ==
    /\ outcome = "pending"
    /\ at[k] = "queued"
    /\ \A j \in Part : j < k => at[j] # "queued"
    /\ Cardinality({j \in Part : Working(j)}) < PartConcurrency
    /\ Goto(k, "hashing")
    /\ UNCHANGED <<size, tries, partLoaded, loaded, aborted, outcome, held>>

BeginAttempt(k) ==
    /\ Goto(k, "signing")
    /\ tries' = [tries EXCEPT ![k] = @ + 1]
    /\ UNCHANGED <<aborted, outcome>>

(* The part's checksum is computed; read looks at the signal at each slice. *)
HashPart(k) ==
    /\ at[k] = "hashing"
    /\ IF aborted THEN FailPart(k) /\ UNCHANGED tries ELSE BeginAttempt(k)
    /\ UNCHANGED <<size, partLoaded, loaded, held>>

(* signPart answers, or fails; put sends nothing once the signal is aborted.*)
SignPart(k) ==
    /\ at[k] = "signing"
    /\ \/ /\ ~aborted
          /\ Goto(k, "sending")
          /\ UNCHANGED <<partLoaded, loaded, aborted, outcome>>
       \/ AttemptFailed(k)
    /\ UNCHANGED <<size, tries, held>>

Progress(k) ==
    /\ at[k] = "sending"
    /\ ~aborted
    /\ \E n \in partLoaded[k] + 1 .. PartLength(k) : OnLoaded(k, n)
    /\ UNCHANGED <<size, at, tries, aborted, outcome, held>>

(* The load event with a status of success.                                 *)
PutAccepted(k) ==
    /\ at[k] = "sending"
    /\ ~aborted
    /\ held' = held \cup {k}
    /\ Goto(k, "accepted")
    /\ UNCHANGED <<size, tries, partLoaded, loaded, aborted, outcome>>

(* A status of failure, a lost connection or xhr.abort: storage may or may  *)
(* not have taken the part.                                                 *)
PutFailed(k) ==
    /\ at[k] = "sending"
    /\ held' \in {held, held \cup {k}}
    /\ AttemptFailed(k)
    /\ UNCHANGED <<size, tries>>

(* The attempt is over; p-retry may still notice an abort.                  *)
FinishPart(k) ==
    /\ at[k] = "accepted"
    /\ \/ /\ OnLoaded(k, PartLength(k))
          /\ Goto(k, "done")
          /\ outcome' = IF outcome = "pending" /\ \A j \in Part \ {k} : at[j] = "done"
                        THEN "resolved" ELSE outcome
          /\ UNCHANGED aborted
       \/ aborted /\ AttemptFailed(k)
    /\ UNCHANGED <<size, tries, held>>

(* Faulty: attempts are not counted.                                        *)
RetryPartUncounted(k) ==
    /\ at[k] = "backoff"
    /\ IF aborted THEN FailPart(k) ELSE Goto(k, "signing") /\ UNCHANGED <<aborted, outcome>>
    /\ UNCHANGED <<size, tries, partLoaded, loaded, held>>

RetryPart(k) ==
    /\ at[k] = "backoff"
    /\ IF aborted THEN FailPart(k) /\ UNCHANGED tries ELSE BeginAttempt(k)
    /\ UNCHANGED <<size, partLoaded, loaded, held>>

(* The caller's signal: p-map rejects, and every xhr is aborted.            *)
Cancel ==
    /\ outcome = "pending"
    /\ aborted' = TRUE
    /\ outcome' = "rejected"
    /\ UNCHANGED <<size, at, tries, partLoaded, loaded, held>>

PartStep(k) ==
    \/ TakePart(k) \/ HashPart(k) \/ SignPart(k) \/ PutAccepted(k) \/ PutFailed(k)
    \/ FinishPart(k) \/ RetryPart(k)

Next == Cancel \/ \E k \in Part : PartStep(k) \/ Progress(k)

(* Signing and sending end, one way or the other.                           *)
Spec == Init /\ [][Next]_vars /\ WF_vars(\E k \in Part : PartStep(k))

-----------------------------------------------------------------------------
(* The slices cover the blob, each byte once and none empty, and there are  *)
(* no more of them than a multipart upload may have, whatever its size.     *)
Slice(k) == FirstBytes(k, PartLength(k))
PartsFit ==
    /\ PartCount(size) <= MaximumMultipartParts
    /\ \A k \in Part : Slice(k) # {}
    /\ \A j, k \in Part : j # k => Slice(j) \cap Slice(k) = {}
    /\ UNION {Slice(k) : k \in Part} = 1..size

(* upload resolves only once storage has accepted every part: no sequence   *)
(* of failed, retried and aborted attempts lets a part go missing.          *)
ResolvedMeansHeld == outcome = "resolved" => held = Part

(* Progress is the number of bytes that the parts have reported, finished   *)
(* or in flight, each counted once and retries included; every byte of the  *)
(* blob has been reported when upload resolves.                             *)
Reported == UNION {FirstBytes(k, partLoaded[k]) : k \in Part}
ProgressAddsUp ==
    /\ Reported \subseteq 1..size
    /\ loaded = Cardinality(Reported)
    /\ outcome = "resolved" => loaded = size

(* Once upload has rejected, because a part failed or the caller cancelled, *)
(* no part is signed or sent any more.                                      *)
QuietAfterReject ==
    [][outcome = "rejected" => \A k \in Part :
           at'[k] \in {"signing", "sending"} => at'[k] = at[k]]_vars

(* upload resolves or rejects, and leaves no part at work.                  *)
UploadSettles == <>[](outcome # "pending" /\ \A k \in Part : ~Working(k))

=============================================================================
