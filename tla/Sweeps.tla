------------------------------- MODULE Sweeps -------------------------------
(***************************************************************************)
(* The timing of bloby's cleanup (cleanup_store.go and the claim in         *)
(* pgxstore/store.go): which abandoned rows a sweep takes, how often it     *)
(* comes back to one that it could not delete, and whether an upload URL    *)
(* may still be alive when its row is taken.  What a sweep does to rows and *)
(* bytes, step by step, is the module Bloby.                                *)
(*                                                                          *)
(* Time passes in ticks and is kept as ages.  Process and database are      *)
(* taken to agree on it.                                                    *)
(***************************************************************************)
EXTENDS Naturals, FiniteSets

CONSTANTS
    Id,         \* rows, by their numbers
    Stuck,      \* rows that the application references while they are pending
    Hour,       \* uploadCleanupInterval, uploadCleanupRetryDelay, in ticks
    Day,        \* minimumPendingUploadMaxAge
    TTLs,       \* values of Config.TransferTTL
    Delay,      \* how long after updated_at a request may sign a URL
    BatchSize   \* uploadCleanupBatchSize

ASSUME SweepsAssumption ==
    /\ Id \subseteq Nat /\ Stuck \subseteq Id
    /\ Hour \in Nat \ {0} /\ Day \in Nat \ {0} /\ Delay \in Nat
    /\ TTLs \subseteq Nat \ {0}
    /\ BatchSize \in Nat \ {0}

VARIABLES
    ttl,      \* Config.TransferTTL
    row,      \* "none", "pending", "expired" or "gone"
    age,      \* ticks since updated_at
    claimed,  \* ticks since expired_at
    url,      \* ticks until the last URL signed for the row ends
    signing,  \* whether a request has yet to sign a URL
    due       \* ticks until the next sweep

vars == <<ttl, row, age, claimed, url, signing, due>>

(* Faulty: a TTL of a day gets no margin.                                   *)
MaxAgeShort == IF ttl > Day THEN ttl + Hour ELSE Day

pendingUploadMaxAge == IF ttl >= Day THEN ttl + Hour ELSE Day

(* Ages are told apart up to these bounds.                                  *)
AgeBound == pendingUploadMaxAge + 1
ClaimBound == 2 * Hour + 1
Next1(n, bound) == IF n < bound THEN n + 1 ELSE n
Less1(n) == IF n = 0 THEN 0 ELSE n - 1

Init ==
    /\ ttl \in TTLs
    /\ row = [i \in Id |-> "none"]
    /\ age = [i \in Id |-> 0]
    /\ claimed = [i \in Id |-> 0]
    /\ url = [i \in Id |-> 0]
    /\ signing = [i \in Id |-> FALSE]
    /\ due = 0

-----------------------------------------------------------------------------
(* CreatePending, and RefreshPending when an upload is resumed: the request *)
(* goes on to sign a URL, in Delay ticks or not at all.                     *)
Touch(i) ==
    /\ row[i] \in {"none", "pending"}
    /\ row' = [row EXCEPT ![i] = "pending"]
    /\ age' = [age EXCEPT ![i] = 0]
    /\ signing' = [signing EXCEPT ![i] = TRUE]
    /\ UNCHANGED <<ttl, claimed, url, due>>

(* PresignPut or PresignMultipartPart; or the request fails before it.      *)
Sign(i) ==
    /\ signing[i]
    /\ url' \in {url, [url EXCEPT ![i] = ttl]}
    /\ signing' = [signing EXCEPT ![i] = FALSE]
    /\ UNCHANGED <<ttl, row, age, claimed, due>>

(* The upload is finalized or deleted.                                      *)
Finish(i) ==
    /\ row[i] = "pending" /\ i \notin Stuck
    /\ row' = [row EXCEPT ![i] = "gone"]
    /\ UNCHANGED <<ttl, age, claimed, url, signing, due>>

-----------------------------------------------------------------------------
(* Faulty: a row that was claimed is not claimed again.                     *)
FreshOnly(late) == {i \in Id : row[i] = "pending" /\ age[i] >= pendingUploadMaxAge}

(* The rows that ClaimExpiredPending may take.  expired_at is the database's *)
(* time of the last claim, a little after the time its sweep had read, so   *)
(* that the next sweep finds the row too fresh unless it is late itself.    *)
(* updated_at may lie just before its tick, so that the maximum age counts. *)
Claimable(late) ==
    {i \in Id : \/ row[i] = "pending" /\ age[i] >= pendingUploadMaxAge
                \/ row[i] = "expired" /\ (claimed[i] > Hour \/ (late /\ claimed[i] = Hour))}

(* Claimed rows first, then the oldest, then by id.                         *)
Before(i, j) ==
    \/ row[i] = "expired" /\ row[j] = "pending"
    \/ /\ row[i] = row[j]
       /\ LET since == IF row[i] = "expired" THEN claimed ELSE age
          IN  since[i] > since[j] \/ (since[i] = since[j] /\ i < j)

ClaimBatch(late) ==
    {i \in Claimable(late) :
        Cardinality({j \in Claimable(late) : Before(j, i)}) < BatchSize}

(* A sweep claims a batch and deletes its rows one by one.  A row that is   *)
(* referenced stays, and so does one whose removal fails.                   *)
SweepTakes(batch, removed) ==
    /\ removed \subseteq batch \ Stuck
    /\ row' = [i \in Id |-> IF i \in removed THEN "gone"
                            ELSE IF i \in batch THEN "expired" ELSE row[i]]
    /\ claimed' = [i \in Id |-> IF i \in batch THEN 0 ELSE claimed[i]]
    /\ due' = Hour
    /\ UNCHANGED <<ttl, age, url, signing>>

(* A sweep whose claim fails takes nothing.                                 *)
Sweep ==
    /\ due = 0
    /\ \E late \in BOOLEAN : \E batch \in {ClaimBatch(late), {}} :
           \E removed \in SUBSET (batch \ Stuck) : SweepTakes(batch, removed)

(* RunCleanup sweeps as soon as it starts; the last sweep is a tick ago.     *)
Restart ==
    /\ due \in 1..(Hour - 1)
    /\ due' = 0
    /\ UNCHANGED <<ttl, row, age, claimed, url, signing>>

(* A sweep is not put off past its tick, nor a signature past its delay.    *)
Tick ==
    /\ due > 0
    /\ \A i \in Id : signing[i] => age[i] < Delay
    /\ due' = due - 1
    /\ age' = [i \in Id |-> IF row[i] = "pending" THEN Next1(age[i], AgeBound) ELSE 0]
    /\ claimed' = [i \in Id |-> IF row[i] = "expired" THEN Next1(claimed[i], ClaimBound) ELSE 0]
    /\ url' = [i \in Id |-> Less1(url[i])]
    /\ UNCHANGED <<ttl, row, signing>>

Next ==
    \/ \E i \in Id : Touch(i) \/ Sign(i) \/ Finish(i)
    \/ Sweep \/ Restart \/ Tick

Spec == Init /\ [][Next]_vars

(* Time passes and sweeps come; the removal of a row that is not referenced *)
(* does not fail for ever.                                                  *)
Removes(i) == Sweep /\ row[i] # "gone" /\ row'[i] = "gone"

Fairness ==
    /\ WF_vars(Tick) /\ WF_vars(Sweep)
    /\ \A i \in Id : WF_vars(Sign(i)) /\ SF_vars(Removes(i))

FairSpec == Spec /\ Fairness

-----------------------------------------------------------------------------
TypeOK ==
    /\ ttl \in TTLs
    /\ row \in [Id -> {"none", "pending", "expired", "gone"}]
    /\ age \in [Id -> 0..AgeBound]
    /\ claimed \in [Id -> 0..ClaimBound]
    /\ url \in [Id -> 0..ttl]
    /\ signing \in [Id -> BOOLEAN]
    /\ due \in 0..Hour

(* A sweep takes a row only when every URL signed for it has ended: an      *)
(* upload that the client may still finish is not swept from under it.  The *)
(* code gives that margin to a TTL of a day or more, and to one that leaves *)
(* time to sign within the day.                                             *)
MarginGiven == Delay <= Hour /\ (ttl >= Day \/ ttl + Delay <= Day)
Taken(i) == Sweep /\ row[i] = "pending" /\ row'[i] # "pending"
UrlsOutlived == [][\A i \in Id : MarginGiven /\ Taken(i) => url[i] = 0]_vars

(* RunCleanup removes an upload that is not resumed any more, although rows  *)
(* that cannot be deleted come before it in every claim.                    *)
Abandoned(i) == row[i] \in {"pending", "expired"}
AbandonedGo ==
    \A i \in Id \ Stuck :
        <>[][~Touch(i)]_vars => (Abandoned(i) ~> ~Abandoned(i))

=============================================================================
