---------------------------- MODULE SweepsProofs ----------------------------
(***************************************************************************)
(* A sweep outlives the URLs of the rows it takes, for every TTL, delay and *)
(* batch size.  What is inductive is the sum of two clocks: as long as a    *)
(* row is pending, its age and what is left of its last URL add up to no    *)
(* more than the TTL and the delay within which a request signs.            *)
(*                                                                          *)
(* And rows that cannot be deleted do not fill a batch while they are fewer *)
(* than it holds.                                                           *)
(***************************************************************************)
EXTENDS Sweeps, FiniteSetTheorems, TLAPS

SignsInTime == \A i \in Id : signing[i] => age[i] <= Delay

ClocksAddUp ==
    \A i \in Id : row[i] = "pending" /\ url[i] > 0 => age[i] + url[i] <= ttl + Delay

Inv == TypeOK /\ SignsInTime /\ ClocksAddUp

(* The bounds are numbers.                                                  *)
LEMMA BoundTypes ==
  ASSUME TypeOK
  PROVE  /\ ttl \in Nat \ {0}
         /\ pendingUploadMaxAge \in Nat
         /\ AgeBound \in Nat /\ ClaimBound \in Nat /\ 0 <= AgeBound /\ 0 <= ClaimBound
         /\ Delay \in Nat /\ Hour \in Nat \ {0}
BY SweepsAssumption DEF TypeOK, pendingUploadMaxAge, AgeBound, ClaimBound

LEMMA InitInv == Init => Inv
<1> SUFFICES ASSUME Init PROVE Inv
  OBVIOUS
<1>0. /\ ttl \in Nat \ {0} /\ AgeBound \in Nat /\ ClaimBound \in Nat
      /\ Delay \in Nat /\ Hour \in Nat
  BY SweepsAssumption DEF Init, pendingUploadMaxAge, AgeBound, ClaimBound
<1>1. TypeOK
  BY <1>0 DEF Init, TypeOK
<1>2. SignsInTime /\ ClocksAddUp
  BY <1>0 DEF Init, SignsInTime, ClocksAddUp
<1> QED BY <1>1, <1>2 DEF Inv

-----------------------------------------------------------------------------
(* An upload that is begun or resumed is young again.                       *)
LEMMA TouchInv == ASSUME Inv, NEW i \in Id, Touch(i) PROVE Inv'
<1> USE BoundTypes DEF Inv
<1>0. AgeBound' = AgeBound
  BY DEF Touch, AgeBound, pendingUploadMaxAge
<1>1. TypeOK'
  BY <1>0 DEF Touch, TypeOK
<1>2. SignsInTime'
  BY DEF Touch, TypeOK, SignsInTime
<1>3. ClocksAddUp'
  BY DEF Touch, TypeOK, ClocksAddUp
<1> QED BY <1>1, <1>2, <1>3

(* A URL is signed while the row is young.                                  *)
LEMMA SignInv == ASSUME Inv, NEW i \in Id, Sign(i) PROVE Inv'
<1> USE BoundTypes DEF Inv
<1>0. AgeBound' = AgeBound
  BY DEF Sign, AgeBound, pendingUploadMaxAge
<1>1. TypeOK'
  BY <1>0 DEF Sign, TypeOK
<1>2. SignsInTime'
  BY DEF Sign, TypeOK, SignsInTime
<1>3. ClocksAddUp'
  BY DEF Sign, TypeOK, SignsInTime, ClocksAddUp
<1> QED BY <1>1, <1>2, <1>3

LEMMA FinishInv == ASSUME Inv, NEW i \in Id, Finish(i) PROVE Inv'
<1> USE DEF Inv
<1>0. AgeBound' = AgeBound
  BY DEF Finish, AgeBound, pendingUploadMaxAge
<1>1. TypeOK'
  BY <1>0 DEF Finish, TypeOK
<1>2. SignsInTime' /\ ClocksAddUp'
  BY DEF Finish, TypeOK, SignsInTime, ClocksAddUp
<1> QED BY <1>1, <1>2

(* A sweep makes no row pending.                                            *)
LEMMA SweepInv == ASSUME Inv, Sweep PROVE Inv'
<1> USE BoundTypes DEF Inv
<1>1. PICK batch, removed : SweepTakes(batch, removed)
  BY DEF Sweep
<1>0. AgeBound' = AgeBound
  BY <1>1 DEF SweepTakes, AgeBound, pendingUploadMaxAge
<1>2. TypeOK'
  BY <1>0, <1>1 DEF SweepTakes, TypeOK
<1>3. SignsInTime'
  BY <1>1 DEF SweepTakes, SignsInTime
<1>4. \A i \in Id : row'[i] = "pending" => row[i] = "pending"
  BY <1>1 DEF SweepTakes
<1>5. ClocksAddUp'
  BY <1>1, <1>4 DEF SweepTakes, ClocksAddUp
<1> QED BY <1>2, <1>3, <1>5

(* A tick takes from the URL what it adds to the age, and waits for         *)
(* signatures.                                                              *)
LEMMA TickInv == ASSUME Inv, Tick PROVE Inv'
<1> USE BoundTypes DEF Inv
<1>0. AgeBound' = AgeBound /\ ttl' = ttl
  BY DEF Tick, AgeBound, pendingUploadMaxAge
<1>1. ASSUME NEW i \in Id
      PROVE  /\ Next1(age[i], AgeBound) \in 0..AgeBound
             /\ Next1(claimed[i], ClaimBound) \in 0..ClaimBound
             /\ Less1(url[i]) \in 0..ttl
             /\ Next1(age[i], AgeBound) <= age[i] + 1
             /\ Less1(url[i]) > 0 => url[i] > 0 /\ Less1(url[i]) = url[i] - 1
  BY <1>1 DEF TypeOK, Next1, Less1
<1>2. TypeOK'
  BY <1>0, <1>1 DEF Tick, TypeOK
<1>3. SignsInTime'
  BY <1>1 DEF Tick, TypeOK, SignsInTime
<1>4. ClocksAddUp'
  <2> SUFFICES ASSUME NEW i \in Id, row'[i] = "pending", url'[i] > 0
               PROVE  age'[i] + url'[i] <= ttl' + Delay
    BY DEF ClocksAddUp
  <2>1. row[i] = "pending" /\ age'[i] = Next1(age[i], AgeBound) /\ url'[i] = Less1(url[i])
    BY DEF Tick
  <2>2. age[i] \in Nat /\ url[i] \in Nat
    BY DEF TypeOK
  <2> QED BY <1>0, <1>1, <2>1, <2>2 DEF ClocksAddUp
<1> QED BY <1>2, <1>3, <1>4

LEMMA NextInv == Inv /\ [Next]_vars => Inv'
<1> SUFFICES ASSUME Inv, [Next]_vars PROVE Inv'
  OBVIOUS
<1>1. ASSUME UNCHANGED <<ttl, row, age, claimed, url, signing>>, due' \in 0..Hour PROVE Inv'
  BY <1>1 DEF Inv, TypeOK, SignsInTime, ClocksAddUp, AgeBound, pendingUploadMaxAge
<1>2. CASE Restart
  BY <1>1, <1>2, BoundTypes DEF Inv, Restart
<1>3. CASE UNCHANGED vars
  BY <1>1, <1>3 DEF Inv, TypeOK, vars
<1> QED BY <1>2, <1>3, TouchInv, SignInv, FinishInv, SweepInv, TickInv DEF Next

-----------------------------------------------------------------------------
(* Every variable of the timing model keeps its type.                       *)
THEOREM TypeCorrect == Spec => []TypeOK
<1>1. Inv => TypeOK
  BY DEF Inv
<1> QED BY <1>1, InitInv, NextInv, PTL DEF Spec

(* Where pendingUploadMaxAge leaves a margin, it is as long as the life of  *)
(* any URL of a row that has not been touched since.                        *)
LEMMA MarginSuffices ==
  ASSUME Inv, MarginGiven, NEW i \in Id, row[i] = "pending", age[i] >= pendingUploadMaxAge
  PROVE  url[i] = 0
<1>1. ttl + Delay <= pendingUploadMaxAge
  BY SweepsAssumption, BoundTypes DEF Inv, MarginGiven, pendingUploadMaxAge
<1>2. age[i] \in Nat /\ url[i] \in Nat
  BY BoundTypes DEF Inv, TypeOK
<1> QED BY <1>1, <1>2, BoundTypes DEF Inv, ClocksAddUp

(* No sweep takes a row whose URLs may still be used.                       *)
THEOREM SweepsOutliveUrls == Spec => UrlsOutlived
<1> DEFINE Outlived == \A i \in Id : MarginGiven /\ Taken(i) => url[i] = 0
<1>1. Inv => [Outlived]_vars
  <2> SUFFICES ASSUME Inv, NEW i \in Id, MarginGiven, Taken(i) PROVE url[i] = 0
    OBVIOUS
  <2>1. PICK late \in BOOLEAN : \E batch \in {ClaimBatch(late), {}} :
            \E removed \in SUBSET (batch \ Stuck) : SweepTakes(batch, removed)
    BY DEF Taken, Sweep
  <2>2. i \in ClaimBatch(late)
    BY <2>1 DEF Taken, SweepTakes
  <2>3. row[i] = "pending" /\ age[i] >= pendingUploadMaxAge
    BY <2>2 DEF Taken, ClaimBatch, Claimable
  <2> QED BY <2>3, MarginSuffices
<1> QED BY <1>1, InitInv, NextInv, PTL DEF Spec, UrlsOutlived

-----------------------------------------------------------------------------
(* ClaimExpiredPending puts rows that cannot be deleted first, sweep after  *)
(* sweep.  As long as they are fewer than a batch, the first of the others  *)
(* is in the batch all the same, whatever else is claimable.                *)
THEOREM StuckRowsLeaveRoom ==
  ASSUME IsFiniteSet(Stuck), Cardinality(Stuck) < BatchSize,
         NEW late \in BOOLEAN, NEW i \in Claimable(late),
         \A j \in Claimable(late) : Before(j, i) => j \in Stuck
  PROVE  i \in ClaimBatch(late)
<1> DEFINE ahead == {j \in Claimable(late) : Before(j, i)}
<1>1. ahead \subseteq Stuck
  OBVIOUS
<1>2. IsFiniteSet(ahead) /\ Cardinality(ahead) <= Cardinality(Stuck)
  BY <1>1, FS_Subset
<1>3. Cardinality(ahead) \in Nat /\ Cardinality(Stuck) \in Nat
  BY <1>2, FS_CardinalityType
<1>4. Cardinality(ahead) < BatchSize
  BY <1>2, <1>3, SweepsAssumption
<1> QED BY <1>4 DEF ClaimBatch

=============================================================================
