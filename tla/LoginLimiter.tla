---------------------------- MODULE LoginLimiter ----------------------------
(***************************************************************************)
(* LimitPasswordLogin of auth/authn: a token bucket (rate.Limiter,          *)
(* external) shared by every password login of the process, and the         *)
(* Retry-After that a refused login is answered with.                       *)
(*                                                                          *)
(* Time passes in ticks, and the bucket gains a token in Refill ticks; its  *)
(* level is counted in these, so that no fraction is lost.  Allow and       *)
(* Tokens are two calls: others log in, and time passes, between them.      *)
(***************************************************************************)
EXTENDS Naturals

CONSTANTS
    Client,
    Burst,    \* 4
    Refill,   \* time.Minute / 10, in ticks
    Second,   \* a second, in ticks
    Window    \* bounds the stretch of time in which admissions are counted

ASSUME LimiterAssumption ==
    /\ Burst \in Nat \ {0} /\ Refill \in Nat \ {0} /\ Second \in Nat \ {0}
    /\ Window \in Nat

VARIABLES
    level,      \* what is in the bucket
    pc,         \* "idle", "refused" or "waiting", of each client
    left,       \* ticks until a waiting client tries again
    overtaken,  \* whether a login was admitted since its bucket was read (history)
    since,      \* ticks since the window was opened     (history)
    admitted    \* logins admitted since then            (history)

vars == <<level, pc, left, overtaken, since, admitted>>

Init ==
    /\ level = Burst * Refill
    /\ pc = [c \in Client |-> "idle"]
    /\ left = [c \in Client |-> 0]
    /\ overtaken = [c \in Client |-> FALSE]
    /\ since = 0
    /\ admitted = 0

(* Limiter.Allow.                                                           *)
Enough == level >= Refill

(* Faulty: the bucket is looked at (Tokens), not taken from (Allow).        *)
LimitByLooking(c) ==
    /\ pc[c] = "idle" \/ (pc[c] = "waiting" /\ left[c] = 0)
    /\ IF Enough
       THEN pc' = [pc EXCEPT ![c] = "idle"] /\ admitted' = admitted + 1
       ELSE pc' = [pc EXCEPT ![c] = "refused"] /\ UNCHANGED admitted
    /\ UNCHANGED <<level, overtaken, left, since>>

(* A login attempt, the first or after the wait it was told.                *)
LimitPasswordLogin(c) ==
    /\ pc[c] = "idle" \/ (pc[c] = "waiting" /\ left[c] = 0)
    /\ IF Enough
       THEN /\ level' = level - Refill
            /\ pc' = [pc EXCEPT ![c] = "idle"]
            /\ admitted' = admitted + 1
            /\ overtaken' = [d \in Client |-> TRUE]
       ELSE /\ pc' = [pc EXCEPT ![c] = "refused"]
            /\ UNCHANGED <<level, admitted, overtaken>>
    /\ UNCHANGED <<left, since>>

(* Faulty: the wait is rounded down.                                        *)
RoundedDown(n) == n * Second <= Refill - level /\ Refill - level < (n + 1) * Second

(* n is the wait for a whole token in seconds, rounded up, and at least 1.  *)
Rounded(n) ==
    /\ n \in Nat \ {0}
    /\ level + n * Second >= Refill
    /\ n > 1 => level + (n - 1) * Second < Refill

(* The refusal reads the bucket again and answers with Retry-After.         *)
RetryAfter(c) ==
    /\ pc[c] = "refused"
    /\ \E n \in 0..Refill :
           Rounded(n) /\ left' = [left EXCEPT ![c] = n * Second]
    /\ pc' = [pc EXCEPT ![c] = "waiting"]
    /\ overtaken' = [overtaken EXCEPT ![c] = FALSE]
    /\ UNCHANGED <<level, since, admitted>>

(* The client does not come back.                                           *)
GiveUp(c) ==
    /\ pc[c] = "waiting"
    /\ pc' = [pc EXCEPT ![c] = "idle"]
    /\ UNCHANGED <<level, left, overtaken, since, admitted>>

Tick ==
    /\ since < Window
    /\ since' = since + 1
    /\ level' = IF level < Burst * Refill THEN level + 1 ELSE level
    /\ left' = [c \in Client |-> IF left[c] = 0 THEN 0 ELSE left[c] - 1]
    /\ UNCHANGED <<pc, overtaken, admitted>>

(* Admissions are counted from any moment on.                               *)
OpenWindow ==
    /\ since' = 0 /\ admitted' = 0
    /\ UNCHANGED <<level, pc, left, overtaken>>

Next ==
    \/ \E c \in Client : LimitPasswordLogin(c) \/ RetryAfter(c) \/ GiveUp(c)
    \/ Tick \/ OpenWindow

Spec == Init /\ [][Next]_vars

-----------------------------------------------------------------------------
TypeOK ==
    /\ level \in 0..(Burst * Refill)
    /\ pc \in [Client -> {"idle", "refused", "waiting"}]
    /\ left \in [Client -> Nat]
    /\ overtaken \in [Client -> BOOLEAN]
    /\ since \in Nat
    /\ admitted \in Nat

(* In no stretch of time, wherever it begins, are more logins admitted than *)
(* the burst and what the bucket gained meanwhile.                          *)
RateKept == admitted * Refill <= Burst * Refill + since

(* A client that waits as long as Retry-After says is admitted, unless      *)
(* somebody else was in the meantime; also when the bucket has gained a     *)
(* token between the refusal and the reading.                               *)
RetrySuffices ==
    \A c \in Client : pc[c] = "waiting" /\ left[c] = 0 /\ ~overtaken[c] => level >= Refill

=============================================================================
