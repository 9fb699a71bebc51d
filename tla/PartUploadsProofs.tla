-------------------------- MODULE PartUploadsProofs -------------------------
(***************************************************************************)
(* Safety of the browser's multipart transfer, for blobs of every size and  *)
(* any limits.  A part that is accepted or done is held by storage, an      *)
(* upload that has rejected has aborted the signal all its parts look at,   *)
(* and what a part reports are first bytes of its slice, all of them once   *)
(* it is done; these are inductive with the types of the variables.  That   *)
(* progress is never counted twice rests on the slices being disjoint.      *)
(***************************************************************************)
EXTENDS PartUploads, FiniteSetTheorems, TLAPS

Stage == {"queued", "hashing", "signing", "sending", "accepted", "backoff", "done", "failed"}

Types ==
    /\ size \in BlobSizes
    /\ at \in [Part -> Stage]
    /\ aborted \in BOOLEAN
    /\ outcome \in {"pending", "resolved", "rejected"}
    /\ held \subseteq Part

HeldOK == \A k \in Part : at[k] \in {"accepted", "done"} => k \in held

OutcomeOK ==
    /\ outcome = "resolved" => \A k \in Part : at[k] = "done"
    /\ outcome = "rejected" => aborted \/ Part = {}

LoadedOK ==
    /\ partLoaded \in [Part -> Nat]
    /\ \A k \in Part : /\ partLoaded[k] <= PartLength(k)
                       /\ at[k] = "done" => partLoaded[k] = PartLength(k)
    /\ loaded = Cardinality(Reported)

Inv == Types /\ HeldOK /\ OutcomeOK /\ LoadedOK

-----------------------------------------------------------------------------
(* Division with remainder, and products as far as they are needed.       *)
LEMMA Quotient ==
  ASSUME NEW n \in Nat, NEW d \in Nat \ {0}
  PROVE  /\ n \div d \in Nat
         /\ (n \div d) * d <= n
         /\ n < (n \div d) * d + d
  BY SMT

LEMMA TimesMonotone ==
  ASSUME NEW a \in Int, NEW b \in Int, a <= b, NEW d \in Nat
  PROVE  a * d <= b * d
  BY SMT

(* Ceil is the least number of pieces of d that hold n.                     *)
LEMMA CeilFacts ==
  ASSUME NEW n \in Nat, NEW d \in Nat \ {0}
  PROVE  /\ Ceil(n, d) \in Nat
         /\ n <= Ceil(n, d) * d
         /\ Ceil(n, d) * d < n + d
<1>1. n + d - 1 \in Nat
  OBVIOUS
<1> QED BY <1>1, Quotient DEF Ceil

(* The part size is large enough for the number of parts to be admissible.  *)
LEMMA SizeFacts ==
  ASSUME size \in Nat
  PROVE  /\ PartSize(size) \in Nat \ {0}
         /\ PartCount(size) \in Nat
         /\ size <= PartCount(size) * PartSize(size)
         /\ PartCount(size) * PartSize(size) < size + PartSize(size)
         /\ PartCount(size) <= MaximumMultipartParts
<1> DEFINE p == PartSize(size)
           c == PartCount(size)
           m == MaximumMultipartParts
<1> USE PartUploadsAssumption
<1>1. Ceil(size, m) \in Nat /\ size <= Ceil(size, m) * m
  BY CeilFacts
<1>2. p \in Nat \ {0} /\ Ceil(size, m) <= p
  BY <1>1 DEF PartSize
<1>3. c \in Nat /\ size <= c * p /\ c * p < size + p
  BY <1>2, CeilFacts DEF PartCount
<1>4. size <= m * p
  <2>1. Ceil(size, m) * m <= p * m
    BY <1>1, <1>2, TimesMonotone
  <2>2. p * m = m * p
    BY <1>2
  <2> QED BY <1>1, <1>2, <2>1, <2>2
<1>5. c <= m
  <2> SUFFICES ASSUME m + 1 <= c PROVE FALSE
    BY <1>3
  <2>1. (m + 1) * p <= c * p
    BY <1>2, <1>3, TimesMonotone
  <2>2. (m + 1) * p = m * p + p
    BY <1>2
  <2> QED BY <1>2, <1>3, <1>4, <2>1, <2>2
<1> QED BY <1>2, <1>3, <1>5

(* A part lies within the blob and is not empty.                            *)
LEMMA PartFacts ==
  ASSUME size \in Nat, NEW k \in Part
  PROVE  /\ Offset(k) \in Nat
         /\ k * PartSize(size) = Offset(k) + PartSize(size)
         /\ PartLength(k) \in 1..PartSize(size)
         /\ Offset(k) + PartLength(k) <= size
<1> DEFINE p == PartSize(size)
           c == PartCount(size)
<1>1. p \in Nat \ {0} /\ c \in Nat /\ c * p < size + p
  BY SizeFacts
<1>2. k \in Nat /\ 1 <= k /\ k <= c
  BY <1>1 DEF Part
<1>3. k * p \in Nat /\ (k - 1) * p \in Nat /\ k * p = (k - 1) * p + p
  BY <1>1, <1>2
<1>4. k * p <= c * p
  BY <1>1, <1>2, TimesMonotone
<1>5. c * p \in Nat
  BY <1>1
<1>6. (k - 1) * p < size
  BY <1>1, <1>3, <1>4, <1>5
<1> QED BY <1>1, <1>3, <1>6 DEF PartLength, Offset

(* A part ends before the next begins.                                      *)
LEMMA PartsApart ==
  ASSUME size \in Nat, NEW j \in Part, NEW k \in Part, j < k
  PROVE  Offset(j) + PartLength(j) <= Offset(k)
<1> DEFINE p == PartSize(size)
<1>1. p \in Nat \ {0} /\ PartCount(size) \in Nat
  BY SizeFacts
<1>2. j \in Nat /\ k \in Nat /\ j <= k - 1
  BY <1>1 DEF Part
<1>3. j * p <= (k - 1) * p
  BY <1>1, <1>2, TimesMonotone
<1>4. j * p = Offset(j) + p /\ Offset(j) \in Nat /\ PartLength(j) \in 1..p
  BY PartFacts
<1> QED BY <1>1, <1>3, <1>4, PartFacts DEF Offset

(* The part that a byte is in.                                              *)
LEMMA EveryByte ==
  ASSUME size \in Nat, NEW b \in 1..size
  PROVE  \E k \in Part : b \in Slice(k)
<1> DEFINE p == PartSize(size)
           c == PartCount(size)
           q == (b - 1) \div p
           k == q + 1
<1>1. p \in Nat \ {0} /\ c \in Nat /\ size <= c * p
  BY SizeFacts
<1>2. q \in Nat /\ q * p <= b - 1 /\ b - 1 < q * p + p
  <2>1. b - 1 \in Nat
    OBVIOUS
  <2> QED BY <1>1, <2>1, Quotient
<1>3. q < c
  <2> SUFFICES ASSUME c <= q PROVE FALSE
    BY <1>1, <1>2
  <2>1. c * p <= q * p
    BY <1>1, <1>2, TimesMonotone
  <2>2. c * p \in Nat /\ q * p \in Nat
    BY <1>1, <1>2
  <2> QED BY <1>1, <1>2, <2>1, <2>2
<1>4. k \in Part
  BY <1>1, <1>2, <1>3 DEF Part
<1>5. Offset(k) = q * p /\ k * p = q * p + p /\ q * p \in Nat
  BY <1>1, <1>2 DEF Offset
<1>6. b <= Offset(k) + PartLength(k)
  BY <1>1, <1>2, <1>5 DEF PartLength, Offset
<1>7. PartLength(k) \in Nat
  BY <1>1, <1>4, PartFacts
<1>8. b \in Slice(k)
  BY <1>2, <1>5, <1>6, <1>7 DEF Slice, FirstBytes, Offset
<1> QED BY <1>4, <1>8

-----------------------------------------------------------------------------
(* An empty blob has no parts.                                              *)
LEMMA RoundedQuotient == ASSUME NEW d \in Nat \ {0} PROVE (d - 1) \div d = 0
  BY SMT

LEMMA NoParts == size = 0 => Part = {}
<1> SUFFICES ASSUME size = 0 PROVE Part = {}
  OBVIOUS
<1> USE PartUploadsAssumption
<1>1. Ceil(0, MaximumMultipartParts) = 0
  BY RoundedQuotient DEF Ceil
<1>2. PartSize(size) = MultipartPartSize
  BY <1>1 DEF PartSize
<1>3. PartCount(size) = 0
  BY <1>2, RoundedQuotient DEF PartCount, Ceil
<1> QED BY <1>3 DEF Part

LEMMA InitInv == Init => Inv
<1> SUFFICES ASSUME Init PROVE Inv
  OBVIOUS
<1>1. Types
  BY DEF Init, Types, Stage
<1>2. HeldOK
  BY DEF Init, HeldOK
<1>3. OutcomeOK
  BY NoParts DEF Init, OutcomeOK
<1>4. LoadedOK
  <2>1. size \in Nat
    BY PartUploadsAssumption DEF Init
  <2>2. ASSUME NEW k \in Part PROVE 0 <= PartLength(k) /\ FirstBytes(k, partLoaded[k]) = {}
    BY <2>1, PartFacts, SizeFacts DEF FirstBytes, Init
  <2>3. Reported = {}
    BY <2>2 DEF Reported
  <2> QED BY <2>2, <2>3, FS_EmptySet DEF Init, LoadedOK
<1> QED BY <1>1, <1>2, <1>3, <1>4 DEF Inv

-----------------------------------------------------------------------------
(* What a step on one part may do: a part that is accepted or done is held, *)
(* the upload resolves with its last part and rejects with an abort, the    *)
(* signal stays aborted, nothing is signed or sent under it, and progress   *)
(* stays as it is or is set to a number of first bytes of the part.         *)
Counts(k, l) ==
    \/ l # "done" /\ UNCHANGED <<partLoaded, loaded>>
    \/ \E n \in 0..PartLength(k) : OnLoaded(k, n) /\ (l = "done" => n = PartLength(k))

Move(k, l) ==
    /\ size' = size
    /\ at[k] # "done"
    /\ l \in Stage
    /\ at' = [at EXCEPT ![k] = l]
    /\ l \in {"accepted", "done"} => k \in held'
    /\ l \in {"signing", "sending"} => ~aborted
    /\ held' \in {held, held \cup {k}}
    /\ aborted' \in {aborted, TRUE}
    /\ \/ outcome' = outcome
       \/ outcome' = "rejected" /\ aborted'
       \/ /\ outcome' = "resolved" /\ l = "done"
          /\ \A j \in Part \ {k} : at[j] = "done"
    /\ Counts(k, l)

(* Bytes in a row, and bytes that are counted apart.                        *)
LEMMA IntervalCount ==
  ASSUME NEW o \in Nat, NEW n \in Nat
  PROVE  IsFiniteSet(o + 1 .. o + n) /\ Cardinality(o + 1 .. o + n) = n
<1>1. o + 1 \in Int /\ o + n \in Int
  OBVIOUS
<1>2. /\ IsFiniteSet(o + 1 .. o + n)
      /\ Cardinality(o + 1 .. o + n) = IF o + 1 > o + n THEN 0 ELSE (o + n) - (o + 1) + 1
  BY ONLY <1>1, FS_Interval
<1> QED BY <1>2

LEMMA DisjointCount ==
  ASSUME NEW S, NEW T, IsFiniteSet(S), IsFiniteSet(T), S \cap T = {}
  PROVE  Cardinality(S \cup T) = Cardinality(S) + Cardinality(T)
<1>1. Cardinality(S \cup T) = Cardinality(S) + Cardinality(T) - Cardinality(S \cap T)
  BY ONLY FS_Union, IsFiniteSet(S), IsFiniteSet(T)
<1>2. Cardinality(S \cap T) = 0
  BY FS_EmptySet
<1>3. Cardinality(S) \in Nat /\ Cardinality(T) \in Nat
  BY FS_CardinalityType
<1> QED BY <1>1, <1>2, <1>3

(* Setting a part's progress changes the number of reported bytes by the    *)
(* difference, since the other parts report other bytes.                    *)
LEMMA Recount ==
  ASSUME Inv, NEW k \in Part, NEW n \in 0..PartLength(k), size' = size, OnLoaded(k, n)
  PROVE  loaded' = Cardinality(Reported')
<1> DEFINE Rest == UNION {FirstBytes(j, partLoaded[j]) : j \in Part \ {k}}
           Old == FirstBytes(k, partLoaded[k])
           New == FirstBytes(k, n)
<1>0. size \in Nat /\ partLoaded \in [Part -> Nat]
  BY PartUploadsAssumption DEF Inv, Types, LoadedOK
<1>1. \A j \in Part : /\ Offset(j) \in Nat /\ PartLength(j) \in Nat
                      /\ Offset(j) + PartLength(j) <= size
                      /\ partLoaded[j] \in Nat /\ partLoaded[j] <= PartLength(j)
  BY <1>0, PartFacts, SizeFacts DEF Inv, LoadedOK
<1>2. ASSUME NEW m \in 0..PartLength(k)
      PROVE  /\ IsFiniteSet(FirstBytes(k, m))
             /\ Cardinality(FirstBytes(k, m)) = m
             /\ Rest \cap FirstBytes(k, m) = {}
  <2>1. IsFiniteSet(FirstBytes(k, m)) /\ Cardinality(FirstBytes(k, m)) = m
    BY <1>1, IntervalCount DEF FirstBytes
  <2>2. ASSUME NEW j \in Part \ {k}
        PROVE  FirstBytes(j, partLoaded[j]) \cap FirstBytes(k, m) = {}
    <3>1. j \in Int /\ k \in Int
      BY <1>0, SizeFacts DEF Part
    <3>2. Offset(j) + PartLength(j) <= Offset(k) \/ Offset(k) + PartLength(k) <= Offset(j)
      BY <1>0, <3>1, PartsApart
    <3> QED BY <1>1, <3>2 DEF FirstBytes
  <2> QED BY <2>1, <2>2
<1>3. IsFiniteSet(Rest)
  <2>1. Rest \subseteq 1..size
    BY <1>0, <1>1 DEF FirstBytes
  <2>2. IsFiniteSet(1..size)
    BY <1>0, FS_Interval
  <2> QED BY <2>1, <2>2, FS_Subset
<1>4. ASSUME NEW m \in 0..PartLength(k)
      PROVE  Cardinality(Rest \cup FirstBytes(k, m)) = Cardinality(Rest) + m
  BY <1>2, <1>3, DisjointCount
<1>5. Reported = Rest \cup Old
  BY DEF Reported
<1>6. Reported' = Rest \cup New
  <2>1. Part' = Part /\ \A j, m : FirstBytes(j, m)' = FirstBytes(j, m)
    BY DEF Part, FirstBytes, Offset
  <2>2. \A j \in Part : partLoaded'[j] = IF j = k THEN n ELSE partLoaded[j]
    BY <1>0 DEF OnLoaded
  <2>3. Reported' = UNION {FirstBytes(j, partLoaded'[j]) : j \in Part}
    BY <2>1 DEF Reported
  <2> QED BY <2>2, <2>3
<1>7. loaded = Cardinality(Rest) + partLoaded[k]
  BY <1>1, <1>4, <1>5 DEF Inv, LoadedOK
<1>8. Cardinality(Reported') = Cardinality(Rest) + n
  BY <1>4, <1>6
<1> QED BY <1>1, <1>3, <1>7, <1>8, FS_CardinalityType DEF OnLoaded

(* A move keeps the count.                                                  *)
LEMMA CountKept ==
  ASSUME Inv, NEW k \in Part, NEW l \in Stage, at[k] # "done", size' = size,
         at' = [at EXCEPT ![k] = l], Counts(k, l)
  PROVE  LoadedOK'
<1>1. Part' = Part /\ \A j : PartLength(j)' = PartLength(j)
  BY DEF Part, PartLength, Offset
<1>2. size \in Nat /\ partLoaded \in [Part -> Nat] /\ at \in [Part -> Stage]
  BY PartUploadsAssumption DEF Inv, Types, LoadedOK
<1>3. \A j \in Part : PartLength(j) \in Nat
  BY <1>2, PartFacts, SizeFacts
<1>4. CASE l # "done" /\ UNCHANGED <<partLoaded, loaded>>
  <2>1. Reported' = Reported
    BY <1>1, <1>4 DEF Reported, FirstBytes, Offset
  <2> QED BY <1>1, <1>2, <1>4, <2>1 DEF Inv, LoadedOK
<1>5. ASSUME NEW n \in 0..PartLength(k), OnLoaded(k, n), l = "done" => n = PartLength(k)
      PROVE  LoadedOK'
  <2>1. loaded' = Cardinality(Reported')
    BY <1>5, Recount
  <2>2. partLoaded' = [partLoaded EXCEPT ![k] = n] /\ n \in Nat /\ n <= PartLength(k)
    BY <1>3, <1>5 DEF OnLoaded
  <2> QED BY <1>1, <1>2, <1>5, <2>1, <2>2 DEF Inv, LoadedOK
<1> QED BY <1>4, <1>5 DEF Counts

(* No part is shorter than nothing.                                         *)
LEMMA LengthIsNat == ASSUME Inv, NEW k \in Part PROVE PartLength(k) \in Nat
<1>1. size \in Nat
  BY PartUploadsAssumption DEF Inv, Types
<1> QED BY <1>1, PartFacts, SizeFacts

LEMMA FailureMoves ==
  ASSUME Inv, NEW k \in Part, size' = size, at[k] # "done", held' \in {held, held \cup {k}},
         AttemptFailed(k)
  PROVE  \E l \in Stage : Move(k, l)
<1>0. ASSUME NEW l, l # "done" PROVE Counts(k, l)
  BY <1>0, LengthIsNat DEF AttemptFailed, Counts
<1>1. CASE Goto(k, "backoff") /\ UNCHANGED <<aborted, outcome>>
  <2>1. Move(k, "backoff")
    BY <1>0, <1>1 DEF AttemptFailed, Goto, Move, Stage
  <2> QED BY <2>1 DEF Stage
<1>2. CASE FailPart(k)
  <2>1. Move(k, "failed")
    BY <1>0, <1>2 DEF FailPart, Goto, Move, Stage
  <2> QED BY <2>1 DEF Stage
<1> QED BY <1>1, <1>2 DEF AttemptFailed

(* A part's error before its first attempt, or while it waits.              *)
LEMMA LossMoves ==
  ASSUME NEW k \in Part, UNCHANGED <<size, partLoaded, loaded, held>>, at[k] # "done",
         FailPart(k)
  PROVE  \E l \in Stage : Move(k, l)
<1>1. Move(k, "failed")
  BY DEF FailPart, Goto, Move, Counts, Stage
<1> QED BY <1>1 DEF Stage

LEMMA AttemptMoves ==
  ASSUME NEW k \in Part, UNCHANGED <<size, partLoaded, loaded, held>>, at[k] # "done",
         ~aborted, BeginAttempt(k)
  PROVE  \E l \in Stage : Move(k, l)
<1>1. Move(k, "signing")
  BY DEF BeginAttempt, Goto, Move, Counts, Stage
<1> QED BY <1>1 DEF Stage

LEMMA StepMoves ==
  ASSUME Inv, NEW k \in Part, PartStep(k)
  PROVE  \E l \in Stage : Move(k, l)
<1>1. CASE TakePart(k)
  <2>1. Move(k, "hashing")
    BY <1>1 DEF TakePart, Goto, Move, Counts, Stage
  <2> QED BY <2>1 DEF Stage
<1>2. CASE HashPart(k)
  BY <1>2, LossMoves, AttemptMoves DEF HashPart
<1>3. CASE SignPart(k)
  <2>1. CASE AttemptFailed(k)
    BY <1>3, <2>1, FailureMoves DEF SignPart
  <2>2. CASE ~AttemptFailed(k)
    <3>1. Move(k, "sending")
      BY <1>3, <2>2 DEF SignPart, Goto, Move, Counts, Stage
    <3> QED BY <3>1 DEF Stage
  <2> QED BY <2>1, <2>2
<1>4. CASE PutAccepted(k)
  <2>1. Move(k, "accepted")
    BY <1>4 DEF PutAccepted, Goto, Move, Counts, Stage
  <2> QED BY <2>1 DEF Stage
<1>5. CASE PutFailed(k)
  BY <1>5, FailureMoves DEF PutFailed
<1>6. CASE FinishPart(k)
  <2>1. CASE aborted /\ AttemptFailed(k)
    BY <1>6, <2>1, FailureMoves DEF FinishPart
  <2>2. CASE ~(aborted /\ AttemptFailed(k))
    <3>1. k \in held
      BY <1>6 DEF FinishPart, Inv, HeldOK
    <3>2. Counts(k, "done")
      BY <1>6, <2>2, LengthIsNat DEF FinishPart, Counts
    <3>3. Move(k, "done")
      BY <1>6, <2>2, <3>1, <3>2 DEF FinishPart, Goto, Move, Stage
    <3> QED BY <3>3 DEF Stage
  <2> QED BY <2>1, <2>2
<1>7. CASE RetryPart(k)
  BY <1>7, LossMoves, AttemptMoves DEF RetryPart
<1> QED BY <1>1, <1>2, <1>3, <1>4, <1>5, <1>6, <1>7 DEF PartStep

LEMMA MoveKeeps ==
  ASSUME Inv, NEW k \in Part, NEW l \in Stage, Move(k, l)
  PROVE  Inv'
<1>1. Part' = Part
  BY DEF Move, Part
<1>2. Types'
  BY <1>1 DEF Inv, Types, Move
<1>3. HeldOK'
  BY <1>1 DEF Inv, Types, HeldOK, Move
<1>4. OutcomeOK'
  <2>1. outcome # "resolved"
    BY DEF Inv, OutcomeOK, Move
  <2>2. ASSUME outcome' = "resolved", NEW j \in Part PROVE at'[j] = "done"
    <3>1. l = "done" /\ (j # k => at[j] = "done")
      BY <2>1, <2>2 DEF Move
    <3>2. at' = [at EXCEPT ![k] = l] /\ at \in [Part -> Stage]
      BY DEF Move, Inv, Types
    <3> QED BY <3>1, <3>2
  <2>3. ASSUME outcome' = "rejected" PROVE aborted' \/ Part = {}
    <3>1. aborted => aborted'
      BY Zenon DEF Move
    <3>2. CASE outcome = "rejected"
      BY <3>1, <3>2, Zenon DEF Inv, OutcomeOK
    <3>3. CASE outcome # "rejected"
      BY <2>3, <3>3 DEF Move
    <3> QED BY <3>2, <3>3
  <2> QED BY <1>1, <2>2, <2>3 DEF OutcomeOK
<1>5. LoadedOK'
  BY CountKept DEF Move
<1> QED BY <1>2, <1>3, <1>4, <1>5 DEF Inv

LEMMA NextInv == Inv /\ [Next]_vars => Inv'
<1> SUFFICES ASSUME Inv, [Next]_vars PROVE Inv'
  OBVIOUS
<1>1. ASSUME NEW k \in Part, PartStep(k) PROVE Inv'
  BY <1>1, StepMoves, MoveKeeps
<1>2. ASSUME UNCHANGED <<size, at, held>>, LoadedOK',
             UNCHANGED <<aborted, outcome>> \/ (aborted' = TRUE /\ outcome' = "rejected")
      PROVE  Inv'
  <2>1. Part' = Part
    BY <1>2 DEF Part
  <2>2. Types'
    BY <1>2, <2>1 DEF Inv, Types
  <2>3. HeldOK'
    BY <1>2, <2>1 DEF Inv, HeldOK
  <2>4. OutcomeOK'
    BY <1>2, <2>1 DEF Inv, OutcomeOK
  <2> QED BY <1>2, <2>2, <2>3, <2>4 DEF Inv
<1>3. ASSUME UNCHANGED <<size, at, partLoaded, loaded>> PROVE LoadedOK'
  BY <1>3 DEF Inv, LoadedOK, Reported, FirstBytes, Part, PartLength, Offset
<1>4. CASE Cancel
  BY <1>2, <1>3, <1>4 DEF Cancel
<1>5. ASSUME NEW k \in Part, Progress(k) PROVE Inv'
  <2>1. at[k] # "done" /\ at' = [at EXCEPT ![k] = "sending"] /\ "sending" \in Stage
    BY <1>5 DEF Progress, Inv, Types, Stage
  <2>2. Counts(k, "sending")
    <3>1. PICK n \in partLoaded[k] + 1 .. PartLength(k) : OnLoaded(k, n)
      BY <1>5 DEF Progress
    <3>2. n \in 0..PartLength(k)
      BY <1>5, LengthIsNat DEF Inv, LoadedOK
    <3> QED BY <3>1, <3>2 DEF Counts
  <2>3. LoadedOK'
    BY <1>5, <2>1, <2>2, CountKept DEF Progress
  <2> QED BY <1>2, <1>5, <2>3 DEF Progress
<1>6. CASE UNCHANGED vars
  BY <1>2, <1>3, <1>6 DEF vars
<1> QED BY <1>1, <1>4, <1>5, <1>6 DEF Next

-----------------------------------------------------------------------------
(* upload resolves only when storage has accepted every part.               *)
THEOREM ResolvedIsHeld == Spec => []ResolvedMeansHeld
<1>1. Inv => ResolvedMeansHeld
  BY DEF Inv, Types, HeldOK, OutcomeOK, ResolvedMeansHeld
<1> QED BY <1>1, InitInv, NextInv, PTL DEF Spec

(* Nothing is signed or sent after upload has rejected.                     *)
THEOREM RejectedIsQuiet == Spec => QuietAfterReject
<1> DEFINE Quiet == outcome = "rejected" => \A k \in Part :
               at'[k] \in {"signing", "sending"} => at'[k] = at[k]
<1>1. Inv /\ [Next]_vars => [Quiet]_vars
  <2> SUFFICES ASSUME Inv, Next, outcome = "rejected", NEW j \in Part,
                      at'[j] \in {"signing", "sending"}
               PROVE  at'[j] = at[j]
    OBVIOUS
  <2>1. ASSUME NEW k \in Part, PartStep(k) PROVE at'[j] = at[j]
    <3>1. PICK l \in Stage : Move(k, l)
      BY <2>1, StepMoves
    <3>2. aborted
      BY DEF Inv, OutcomeOK
    <3> QED BY <3>1, <3>2 DEF Move, Inv, Types
  <2>2. CASE Cancel
    BY <2>2 DEF Cancel
  <2>3. ASSUME NEW k \in Part, Progress(k) PROVE at'[j] = at[j]
    BY <2>3 DEF Progress
  <2> QED BY <2>1, <2>2, <2>3 DEF Next
<1> QED BY <1>1, InitInv, NextInv, PTL DEF Spec, QuietAfterReject

(* Whatever the size of a blob, its parts are as many as a multipart upload *)
(* may have, none is empty, and together they hold every byte once.         *)
THEOREM PartsAlwaysFit == Spec => []PartsFit
<1>1. Inv => PartsFit
  <2> SUFFICES ASSUME Inv PROVE PartsFit
    OBVIOUS
  <2>1. size \in Nat
    BY PartUploadsAssumption DEF Inv, Types
  <2>2. ASSUME NEW k \in Part PROVE Slice(k) # {} /\ Slice(k) \subseteq 1..size
    BY <2>1, PartFacts, SizeFacts DEF Slice, FirstBytes
  <2>3. ASSUME NEW j \in Part, NEW k \in Part, j # k PROVE Slice(j) \cap Slice(k) = {}
    <3>1. j \in Int /\ k \in Int
      BY <2>1, SizeFacts DEF Part
    <3>2. Offset(j) + PartLength(j) <= Offset(k) \/ Offset(k) + PartLength(k) <= Offset(j)
      BY <2>1, <2>3, <3>1, PartsApart
    <3>3. \A i \in Part : Offset(i) \in Nat /\ PartLength(i) \in Nat
      BY <2>1, PartFacts, LengthIsNat
    <3> QED BY <3>2, <3>3 DEF Slice, FirstBytes
  <2>4. UNION {Slice(k) : k \in Part} = 1..size
    BY <2>1, <2>2, EveryByte
  <2>5. PartCount(size) <= MaximumMultipartParts
    BY <2>1, SizeFacts
  <2> QED BY <2>2, <2>3, <2>4, <2>5 DEF PartsFit
<1> QED BY <1>1, InitInv, NextInv, PTL DEF Spec

(* Reported progress is the number of bytes the parts have reported, never  *)
(* more than the blob has, and all of them when upload resolves.            *)
THEOREM ProgressIsRight == Spec => []ProgressAddsUp
<1>1. Inv => ProgressAddsUp
  <2> SUFFICES ASSUME Inv PROVE ProgressAddsUp
    OBVIOUS
  <2>1. size \in Nat
    BY PartUploadsAssumption DEF Inv, Types
  <2>2. ASSUME NEW k \in Part PROVE FirstBytes(k, partLoaded[k]) \subseteq 1..size
    BY <2>1, PartFacts, LengthIsNat DEF Inv, LoadedOK, FirstBytes
  <2>3. Reported \subseteq 1..size
    BY <2>2 DEF Reported
  <2>4. ASSUME outcome = "resolved" PROVE loaded = size
    <3>1. \A k \in Part : partLoaded[k] = PartLength(k)
      BY <2>4 DEF Inv, OutcomeOK, LoadedOK
    <3>2. \A b \in 1..size : b \in Reported
      BY <2>1, <3>1, EveryByte DEF Reported, Slice
    <3>3. Reported = 1..size
      BY <2>3, <3>2
    <3>4. Cardinality(0 + 1 .. 0 + size) = size
      BY <2>1, IntervalCount
    <3> QED BY <2>1, <3>3, <3>4 DEF Inv, LoadedOK
  <2> QED BY <2>3, <2>4 DEF Inv, LoadedOK, ProgressAddsUp
<1> QED BY <1>1, InitInv, NextInv, PTL DEF Spec

=============================================================================
