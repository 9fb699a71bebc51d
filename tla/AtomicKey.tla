----------------------------- MODULE AtomicKey ------------------------------
(***************************************************************************)
(* What a storage backend promises of one key: every put and every delete   *)
(* takes effect at one moment between its call and its return, or not at    *)
(* all, and a put stores the declared body or nothing.                      *)
(***************************************************************************)
CONSTANTS PutCall, Delete, declared, None

VARIABLES
    held,       \* what the key holds
    putOp,      \* "idle", "called", "ok" or "failed"
    deleteOp    \* "idle", "called" or "ok"

keyVars == <<held, putOp, deleteOp>>

AtomicInit ==
    /\ held = None
    /\ putOp = [p \in PutCall |-> "idle"]
    /\ deleteOp = [d \in Delete |-> "idle"]

(* A put is called, refused, or over; one that is killed returns nothing.   *)
PutMoves(p) ==
    /\ \/ putOp[p] = "idle" /\ putOp' = [putOp EXCEPT ![p] = "called"]
       \/ putOp[p] = "called" /\ putOp' = [putOp EXCEPT ![p] = "failed"]
       \/ putOp' = [putOp EXCEPT ![p] = "idle"]
    /\ UNCHANGED <<held, deleteOp>>

PutTakesEffect(p) ==
    /\ putOp[p] = "called"
    /\ putOp' = [putOp EXCEPT ![p] = "ok"]
    /\ held' = declared
    /\ UNCHANGED deleteOp

DeleteMoves(d) ==
    /\ \/ deleteOp[d] = "idle" /\ deleteOp' = [deleteOp EXCEPT ![d] = "called"]
       \/ deleteOp' = [deleteOp EXCEPT ![d] = "idle"]
    /\ UNCHANGED <<held, putOp>>

DeleteTakesEffect(d) ==
    /\ deleteOp[d] = "called"
    /\ deleteOp' = [deleteOp EXCEPT ![d] = "ok"]
    /\ held' = None
    /\ UNCHANGED putOp

AtomicNext ==
    \/ \E p \in PutCall : PutMoves(p) \/ PutTakesEffect(p)
    \/ \E d \in Delete : DeleteMoves(d) \/ DeleteTakesEffect(d)

AtomicSpec == AtomicInit /\ [][AtomicNext]_keyVars

=============================================================================
