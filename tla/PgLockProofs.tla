---------------------------- MODULE PgLockProofs ----------------------------
(***************************************************************************)
(* pglock serializes any number of callbacks whose sessions the server has  *)
(* not ended under them.                                                    *)
(***************************************************************************)
EXTENDS PgLock, TLAPS

(* A callback runs only while its session holds the lock or was lost.       *)
HeldWhileWorking ==
    /\ pc \in [Caller -> {"idle", "connected", "waiting", "working", "closed"}]
    /\ \A c \in Caller : pc[c] = "working" => holder = c \/ c \in lost

(* It takes effect before the callback starts and ends after it has ended.  *)
LEMMA HeldNext ==
  ASSUME HeldWhileWorking, [Next]_vars
  PROVE  HeldWhileWorking'
<1> USE PgLockAssumption DEF HeldWhileWorking, Goto
<1>1. CASE UNCHANGED vars
  BY <1>1 DEF vars
<1>2. ASSUME NEW c \in Caller, CallerNext(c) PROVE HeldWhileWorking'
  <2>1. CASE Connect(c) \/ Acquired(c) \/ Cancel(c) \/ WorkEnds(c)
    BY <2>1 DEF Connect, Acquired, Cancel, WorkEnds
  <2>2. CASE Try(c)
    BY <2>2 DEF Try
  <2>3. CASE With(c)
    BY <2>3 DEF With
  <2>4. CASE SessionEnds(c)
    <3>1. holder # c => holder' = holder
      BY <2>4 DEF SessionEnds, EndSession
    <3>2. \A d \in Caller : pc'[d] = "working" => pc[d] = "working" /\ d # c
      BY <2>4 DEF SessionEnds
    <3> QED BY <2>4, <3>1, <3>2 DEF SessionEnds
  <2>5. CASE ConnectionLost(c)
    <3>1. holder # c => holder' = holder
      BY <2>5 DEF ConnectionLost, EndSession
    <3>2. pc'[c] = "working" => c \in lost'
      BY <2>5 DEF ConnectionLost
    <3>3. lost \subseteq lost' /\ \A d \in Caller \ {c} : pc'[d] = pc[d]
      BY <2>5 DEF ConnectionLost
    <3> QED BY <2>5, <3>1, <3>2, <3>3 DEF ConnectionLost
  <2> QED BY <1>2, <2>1, <2>2, <2>3, <2>4, <2>5 DEF CallerNext
<1> QED BY <1>1, <1>2 DEF Next

(* Callbacks are serialized, for any number of callers of Try and With,     *)
(* while their own connections last.                                        *)
THEOREM CallbacksSerialized == Spec => []Serialized
<1>1. Init => HeldWhileWorking
  BY DEF Init, HeldWhileWorking
<1>2. HeldWhileWorking /\ [Next]_vars => HeldWhileWorking'
  BY HeldNext
<1>3. HeldWhileWorking => Serialized
  BY DEF HeldWhileWorking, Serialized
<1> QED BY <1>1, <1>2, <1>3, PTL DEF Spec
=============================================================================
