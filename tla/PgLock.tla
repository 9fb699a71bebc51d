------------------------------- MODULE PgLock -------------------------------
(***************************************************************************)
(* pglock: callbacks run while a dedicated connection holds a PostgreSQL    *)
(* session advisory lock.  A caller is one call of Try or With, from any    *)
(* replica.  The server (external) grants the lock in the order in which    *)
(* sessions asked for it, and frees it when it notices that the session     *)
(* ended.                                                                   *)
(***************************************************************************)
EXTENDS Naturals, Sequences

CONSTANTS
    Caller,    \* calls of Try and With
    NoCaller   \* nobody

ASSUME PgLockAssumption == NoCaller \notin Caller

VARIABLES
    pc,      \* "idle", "connected", "waiting", "working" or "closed"
    holder,  \* the session that holds the lock
    queue,   \* the sessions that wait for it
    lost     \* callers whose session ended under their callback

vars == <<pc, holder, queue, lost>>

Init ==
    /\ pc = [c \in Caller |-> "idle"]
    /\ holder = NoCaller
    /\ queue = <<>>
    /\ lost = {}

Goto(c, l) == pc' = [pc EXCEPT ![c] = l]

(* The server forgets a session; its lock goes to the first one waiting.    *)
EndSession(c) ==
    LET Other(d) == d # c
        waiting  == SelectSeq(queue, Other)
    IN  IF holder = c /\ waiting # <<>>
        THEN holder' = Head(waiting) /\ queue' = Tail(waiting)
        ELSE /\ holder' = IF holder = c THEN NoCaller ELSE holder
             /\ queue' = waiting

Connect(c) == pc[c] = "idle" /\ Goto(c, "connected") /\ UNCHANGED <<holder, queue, lost>>

(* Faulty: the answer of pg_try_advisory_lock is not looked at.             *)
TryBlind(c) ==
    /\ pc[c] = "connected"
    /\ holder' = IF holder = NoCaller THEN c ELSE holder
    /\ Goto(c, "working")
    /\ UNCHANGED <<queue, lost>>

(* pg_try_advisory_lock; the deferred Close follows unless work is called.  *)
Try(c) ==
    /\ pc[c] = "connected"
    /\ \/ /\ holder = NoCaller
          /\ holder' = c
          /\ Goto(c, "working") \/ Goto(c, "closed")  \* or the reply is lost
       \/ UNCHANGED holder /\ Goto(c, "closed")
    /\ UNCHANGED <<queue, lost>>

(* pg_advisory_lock: the server grants the lock or queues the session.      *)
With(c) ==
    /\ pc[c] = "connected"
    /\ Goto(c, "waiting")
    /\ IF holder = NoCaller
       THEN holder' = c /\ UNCHANGED queue
       ELSE queue' = Append(queue, c) /\ UNCHANGED holder
    /\ UNCHANGED lost

Acquired(c) ==
    /\ pc[c] = "waiting"
    /\ holder = c
    /\ Goto(c, "working")
    /\ UNCHANGED <<holder, queue, lost>>

(* The context is cancelled, perhaps after the lock was granted.            *)
Cancel(c) == pc[c] = "waiting" /\ Goto(c, "closed") /\ UNCHANGED <<holder, queue, lost>>

(* Faulty: the connection is not closed.                                    *)
WorkEndsOpen(c) ==
    /\ pc[c] = "working"
    /\ Goto(c, "idle")
    /\ lost' = lost \ {c}
    /\ UNCHANGED <<holder, queue>>

(* work returns, fails or panics: the connection is closed in every case.   *)
WorkEnds(c) ==
    /\ pc[c] = "working"
    /\ Goto(c, "closed")
    /\ lost' = lost \ {c}
    /\ UNCHANGED <<holder, queue>>

(* The server notices the closed connection.                                *)
SessionEnds(c) == pc[c] = "closed" /\ Goto(c, "idle") /\ EndSession(c) /\ UNCHANGED lost

(* The connection breaks.  Exec fails for a caller that waits, but nothing  *)
(* tells a callback that is under way.                                      *)
ConnectionLost(c) ==
    /\ pc[c] \in {"connected", "waiting", "working"}
    /\ EndSession(c)
    /\ IF pc[c] = "working" THEN lost' = lost \cup {c} /\ UNCHANGED pc
       ELSE Goto(c, "idle") /\ UNCHANGED lost

CallerNext(c) ==
    \/ Connect(c) \/ Try(c) \/ With(c) \/ Acquired(c) \/ Cancel(c)
    \/ WorkEnds(c) \/ SessionEnds(c) \/ ConnectionLost(c)

Next == \E c \in Caller : CallerNext(c)

(* Callbacks end, the server answers and notices ended sessions.            *)
Fairness ==
    \A c \in Caller :
        WF_vars(Acquired(c)) /\ WF_vars(WorkEnds(c)) /\ WF_vars(SessionEnds(c))

Spec == Init /\ [][Next]_vars /\ Fairness

-----------------------------------------------------------------------------
(* pglock serializes callbacks: no two run at the same time, whichever way  *)
(* their calls asked for the lock, whichever replies were lost and whoever  *)
(* else lost its session, as long as their own sessions last.               *)
Serialized ==
    \A c, d \in Caller \ lost : pc[c] = "working" /\ pc[d] = "working" => c = d

(* A call of With does not wait forever: every exit of every other call,    *)
(* cancelled ones included, passes the lock on.                             *)
WaitEnds == \A c \in Caller : pc[c] = "waiting" ~> pc[c] # "waiting"

=============================================================================
