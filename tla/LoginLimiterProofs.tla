------------------------- MODULE LoginLimiterProofs -------------------------
(***************************************************************************)
(* The two properties of LimitPasswordLogin, for every burst, rate and      *)
(* number of clients.  Each follows from a balance that no step upsets:     *)
(* what was spent and what is left was there or has been gained since, and  *)
(* what a waiting client lacks it still waits for.                          *)
(***************************************************************************)
EXTENDS LoginLimiter, TLAPS

Balance == level + admitted * Refill <= Burst * Refill + since

Lack == \A c \in Client : pc[c] = "waiting" /\ ~overtaken[c] => level + left[c] >= Refill

Inv == TypeOK /\ Balance /\ Lack

LEMMA BucketHolds == Burst * Refill \in Nat /\ Burst * Refill >= Refill
  BY LimiterAssumption

LEMMA InitInv == Init => Inv
  BY LimiterAssumption, BucketHolds DEF Init, Inv, TypeOK, Balance, Lack

(* A login that is admitted takes a token out of the bucket.                *)
LEMMA LoginKeeps ==
  ASSUME Inv, NEW c \in Client, LimitPasswordLogin(c)
  PROVE  Inv'
<1>1. CASE Enough
  <2>1. TypeOK'
    <3>1. level' \in 0..(Burst * Refill)
      BY <1>1, LimiterAssumption, BucketHolds DEF Inv, TypeOK, LimitPasswordLogin, Enough
    <3>2. pc' \in [Client -> {"idle", "refused", "waiting"}]
      BY <1>1 DEF Inv, TypeOK, LimitPasswordLogin
    <3>3. overtaken' \in [Client -> BOOLEAN]
      BY <1>1 DEF LimitPasswordLogin
    <3>4. left' \in [Client -> Nat] /\ since' \in Nat /\ admitted' \in Nat
      BY <1>1 DEF Inv, TypeOK, LimitPasswordLogin
    <3> QED BY <3>1, <3>2, <3>3, <3>4 DEF TypeOK
  <2>2. Balance'
    <3>1. admitted' * Refill = admitted * Refill + Refill
      BY <1>1, LimiterAssumption DEF Inv, TypeOK, LimitPasswordLogin
    <3>2. admitted * Refill \in Nat
      BY LimiterAssumption DEF Inv, TypeOK
    <3>3. level' = level - Refill /\ since' = since
      BY <1>1 DEF LimitPasswordLogin
    <3> QED BY <3>1, <3>2, <3>3, <1>1, LimiterAssumption, BucketHolds
            DEF Inv, TypeOK, Balance, Enough
  <2>3. Lack'
    BY <1>1 DEF Inv, Lack, LimitPasswordLogin
  <2> QED BY <2>1, <2>2, <2>3 DEF Inv
<1>2. CASE ~Enough
  <2>1. TypeOK'
    BY <1>2 DEF Inv, TypeOK, LimitPasswordLogin
  <2>2. Balance'
    BY <1>2 DEF Inv, Balance, LimitPasswordLogin
  <2>3. Lack'
    BY <1>2 DEF Inv, TypeOK, Lack, LimitPasswordLogin
  <2> QED BY <2>1, <2>2, <2>3 DEF Inv
<1> QED BY <1>1, <1>2

(* The wait that is answered makes up for what is missing.                  *)
LEMMA RetryAfterKeeps ==
  ASSUME Inv, NEW c \in Client, RetryAfter(c)
  PROVE  Inv'
<1>1. PICK n \in 0..Refill : Rounded(n) /\ left' = [left EXCEPT ![c] = n * Second]
  BY DEF RetryAfter
<1>2. n * Second \in Nat /\ level + n * Second >= Refill
  BY <1>1, LimiterAssumption DEF Rounded
<1>3. TypeOK'
  BY <1>1, <1>2 DEF Inv, TypeOK, RetryAfter
<1>4. Balance'
  BY DEF Inv, Balance, RetryAfter
<1>5. Lack'
  <2> SUFFICES ASSUME NEW d \in Client, pc'[d] = "waiting", ~overtaken'[d]
               PROVE  level' + left'[d] >= Refill
    BY DEF Lack
  <2>1. CASE d = c
    BY <2>1, <1>1, <1>2 DEF Inv, TypeOK, RetryAfter
  <2>2. CASE d # c
    BY <2>2, <1>1 DEF Inv, TypeOK, Lack, RetryAfter
  <2> QED BY <2>1, <2>2
<1> QED BY <1>3, <1>4, <1>5 DEF Inv

(* A tick fills the bucket by what every wait is shortened by.              *)
LEMMA TickKeeps ==
  ASSUME Inv, Tick
  PROVE  Inv'
<1>1. TypeOK'
  BY LimiterAssumption, BucketHolds DEF Inv, TypeOK, Tick
<1>2. Balance'
  <2>1. admitted * Refill \in Nat
    BY LimiterAssumption DEF Inv, TypeOK
  <2> QED BY <2>1, BucketHolds DEF Inv, TypeOK, Balance, Tick
<1>3. Lack'
  <2> SUFFICES ASSUME NEW c \in Client, pc'[c] = "waiting", ~overtaken'[c]
               PROVE  level' + left'[c] >= Refill
    BY DEF Lack
  <2>1. level + left[c] >= Refill
    BY DEF Inv, Lack, Tick
  <2> QED BY <2>1, LimiterAssumption, BucketHolds DEF Inv, TypeOK, Tick
<1> QED BY <1>1, <1>2, <1>3 DEF Inv

LEMMA NextInv == Inv /\ [Next]_vars => Inv'
<1> SUFFICES ASSUME Inv, [Next]_vars PROVE Inv'
  OBVIOUS
<1>1. ASSUME NEW c \in Client, LimitPasswordLogin(c) PROVE Inv'
  BY <1>1, LoginKeeps
<1>2. ASSUME NEW c \in Client, RetryAfter(c) PROVE Inv'
  BY <1>2, RetryAfterKeeps
<1>3. ASSUME NEW c \in Client, GiveUp(c) PROVE Inv'
  BY <1>3 DEF Inv, TypeOK, Balance, Lack, GiveUp
<1>4. CASE Tick
  BY <1>4, TickKeeps
<1>5. CASE OpenWindow
  BY <1>5, LimiterAssumption, BucketHolds DEF Inv, TypeOK, Balance, Lack, OpenWindow
<1>6. CASE UNCHANGED vars
  BY <1>6 DEF vars, Inv, TypeOK, Balance, Lack
<1> QED BY <1>1, <1>2, <1>3, <1>4, <1>5, <1>6 DEF Next

(* LimitPasswordLogin admits no more logins in any stretch of time than the *)
(* burst and the rate allow.                                                *)
THEOREM RateIsKept == Spec => []RateKept
<1>1. Inv => RateKept
  <2> SUFFICES ASSUME Inv PROVE RateKept
    OBVIOUS
  <2>1. admitted * Refill \in Nat
    BY LimiterAssumption DEF Inv, TypeOK
  <2> QED BY <2>1, BucketHolds DEF Inv, TypeOK, Balance, RateKept
<1> QED BY <1>1, InitInv, NextInv, PTL DEF Spec

(* Whoever waits for the Retry-After it was answered with finds a token, if *)
(* nobody else was admitted.                                                *)
THEOREM RetryIsEnough == Spec => []RetrySuffices
<1>1. Inv => RetrySuffices
  BY DEF Inv, TypeOK, Lack, RetrySuffices
<1> QED BY <1>1, InitInv, NextInv, PTL DEF Spec

=============================================================================
