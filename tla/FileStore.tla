----------------------------- MODULE FileStore ------------------------------
(***************************************************************************)
(* The local file backend of bloby (file.go) below the level of keys: the   *)
(* directory of one object, in which Put writes a temporary file and        *)
(* renames it to the key, while Delete, called for the object and by the    *)
(* sweep of orphans, removes files and prunes the directory.                *)
(*                                                                          *)
(* An action is one system call with what the code does up to the next one. *)
(* The calls of one object's puts and deletes interleave freely; any of     *)
(* them may fail, and its process may be killed at any point.               *)
(***************************************************************************)
EXTENDS FiniteSets

CONSTANTS
    PutCall,    \* calls of fileStore.Put
    DeleteCall, \* calls of fileStore.Delete for the object
    Sweeper,    \* the Delete that sweepOrphans has under way
    Temp,       \* names that CreateTemp draws
    Key,        \* the name of the object's own file
    Body,       \* what a sender may send
    declared,   \* the body that matches the object's Content
    Partial,    \* what a file holds that was not written to its end
    None

ASSUME FileStoreAssumption ==
    /\ Sweeper \notin DeleteCall
    /\ Key \notin Temp
    /\ declared \in Body
    /\ Partial \notin Body
    /\ None \notin Body \cup {Partial} \cup Temp \cup {Key}

Name == Temp \cup {Key}
Data == Body \cup {Partial}
Delete == DeleteCall \cup {Sweeper}

VARIABLES
    dir,        \* whether the object's directory exists
    disk,       \* what each file in it holds
    old,        \* files whose modification time lies before the sweep's limit
    drawn,      \* temporary names used up
    pc, tmp, body, result,   \* of each Put
    dpc, target,             \* of each Delete
    listed,     \* what the sweep has still to look at
    owned       \* whether the registry still has the object's row

putVars == <<pc, tmp, body, result>>
deleteVars == <<dpc, target>>
fileVars == <<dir, disk, old>>
vars == <<fileVars, drawn, putVars, deleteVars, listed, owned>>

Init ==
    /\ dir = FALSE
    /\ disk = [n \in Name |-> None]
    /\ old = {}
    /\ drawn = {}
    /\ pc = [p \in PutCall |-> "idle"]
    /\ tmp = [p \in PutCall |-> None]
    /\ body = [p \in PutCall |-> declared]
    /\ result = [p \in PutCall |-> None]
    /\ dpc = [d \in Delete |-> "idle"]
    /\ target = [d \in Delete |-> Key]
    /\ listed = {}
    /\ owned = TRUE

Exists(n) == disk[n] # None

Goto(p, l) == pc' = [pc EXCEPT ![p] = l]

(* Put returns; what it was about is forgotten.                             *)
Return(p) ==
    /\ Goto(p, "idle")
    /\ tmp' = [tmp EXCEPT ![p] = None]
    /\ body' = [body EXCEPT ![p] = declared]
    /\ result' = [result EXCEPT ![p] = None]

(* An error once the temporary file exists: the deferred Remove is next.    *)
Fail(p) ==
    /\ Goto(p, "cleanup")
    /\ result' = [result EXCEPT ![p] = "failed"]
    /\ body' = [body EXCEPT ![p] = declared]
    /\ UNCHANGED tmp

-----------------------------------------------------------------------------
(* The transfer handler or ingestion calls Put.                             *)
BeginPut(p) ==
    /\ pc[p] = "idle"
    /\ Goto(p, "mkdir")
    /\ UNCHANGED <<fileVars, drawn, tmp, body, result, deleteVars, listed, owned>>

MkdirAll(p) ==
    /\ pc[p] = "mkdir"
    /\ \/ dir' = TRUE /\ Goto(p, "create") /\ UNCHANGED <<tmp, body, result>>
       \/ Return(p) /\ UNCHANGED dir
    /\ UNCHANGED <<disk, old, drawn, deleteVars, listed, owned>>

(* Faulty: every Put of a key writes to the same temporary file.            *)
CreateShared(p) ==
    /\ pc[p] = "create"
    /\ \/ \E t \in Temp :
              /\ dir
              /\ drawn \subseteq {t}
              /\ drawn' = {t}
              /\ disk' = [disk EXCEPT ![t] = Partial]
              /\ tmp' = [tmp EXCEPT ![p] = t]
              /\ Goto(p, "copy")
              /\ UNCHANGED <<body, result>>
       \/ Return(p) /\ UNCHANGED <<disk, drawn>>
    /\ UNCHANGED <<dir, old, deleteVars, listed, owned>>

(* CreateTemp fails when the directory is gone, or for another reason.      *)
CreateTemp(p) ==
    /\ pc[p] = "create"
    /\ \/ \E t \in Temp \ drawn :
              /\ dir
              /\ drawn' = drawn \cup {t}
              /\ disk' = [disk EXCEPT ![t] = Partial]
              /\ tmp' = [tmp EXCEPT ![p] = t]
              /\ Goto(p, "copy")
              /\ UNCHANGED <<body, result>>
       \/ Return(p) /\ UNCHANGED <<disk, drawn>>
    /\ UNCHANGED <<dir, old, deleteVars, listed, owned>>

(* Copy what the sender sends, to a file whose name may be gone by now: to  *)
(* its end, or to where the sender or the disk gives up.                    *)
Copy(p) ==
    /\ pc[p] = "copy"
    /\ \/ /\ \E b \in Body :
                 /\ body' = [body EXCEPT ![p] = b]
                 /\ disk' = IF Exists(tmp[p]) THEN [disk EXCEPT ![tmp[p]] = b] ELSE disk
          /\ Goto(p, "check")
          /\ UNCHANGED <<tmp, result>>
       \/ Fail(p) /\ UNCHANGED disk
    /\ old' = old \ {tmp[p]}
    /\ UNCHANGED <<dir, drawn, deleteVars, listed, owned>>

(* The length and the SHA-256 of what was read are compared; then chmod,    *)
(* which needs the file.                                                    *)
Check(p) ==
    /\ pc[p] = "check"
    /\ \/ /\ body[p] = declared
          /\ Exists(tmp[p])
          /\ Goto(p, "rename")
          /\ UNCHANGED <<tmp, body, result>>
       \/ Fail(p)
    /\ UNCHANGED <<fileVars, drawn, deleteVars, listed, owned>>

Moved(S, t) == (S \ {t, Key}) \cup (IF t \in S THEN {Key} ELSE {})

(* The file moves to the key with its bytes and its modification time.      *)
Rename(p) ==
    /\ pc[p] = "rename"
    /\ \/ /\ Exists(tmp[p])
          /\ disk' = [disk EXCEPT ![Key] = disk[tmp[p]], ![tmp[p]] = None]
          /\ old' = Moved(old, tmp[p])
          /\ Goto(p, "cleanup")
          /\ result' = [result EXCEPT ![p] = "ok"]
          /\ UNCHANGED <<tmp, body>>
       \/ Fail(p) /\ UNCHANGED <<disk, old>>
    /\ UNCHANGED <<dir, drawn, deleteVars, listed, owned>>

(* The deferred Remove, whose error is ignored.                             *)
Cleanup(p) ==
    /\ pc[p] = "cleanup"
    /\ Return(p)
    /\ \/ disk' = [disk EXCEPT ![tmp[p]] = None] /\ old' = old \ {tmp[p]}
       \/ UNCHANGED <<disk, old>>
    /\ UNCHANGED <<dir, drawn, deleteVars, listed, owned>>

-----------------------------------------------------------------------------
(* The row is deleted before its bytes are, and only then.                  *)
DropRow ==
    /\ owned
    /\ owned' = FALSE
    /\ UNCHANGED <<fileVars, drawn, putVars, deleteVars, listed>>

BeginDelete(d) ==
    /\ d \in DeleteCall
    /\ dpc[d] = "idle"
    /\ dpc' = [dpc EXCEPT ![d] = "unlink"]
    /\ UNCHANGED <<fileVars, drawn, putVars, target, listed, owned>>

(* os.Remove of the file; a missing one is as good as removed.              *)
Unlink(d) ==
    /\ dpc[d] = "unlink"
    /\ \/ /\ disk' = [disk EXCEPT ![target[d]] = None]
          /\ old' = old \ {target[d]}
          /\ dpc' = [dpc EXCEPT ![d] = "prune"]
          /\ UNCHANGED target
       \/ /\ dpc' = [dpc EXCEPT ![d] = "idle"]
          /\ target' = [target EXCEPT ![d] = Key]
          /\ UNCHANGED <<disk, old>>
    /\ UNCHANGED <<dir, drawn, putVars, listed, owned>>

(* Faulty: the directory is removed with what it holds.                     *)
RemoveAll(d) ==
    /\ dpc[d] = "prune"
    /\ dir' = FALSE
    /\ disk' = [n \in Name |-> None]
    /\ dpc' = [dpc EXCEPT ![d] = "idle"]
    /\ target' = [target EXCEPT ![d] = Key]
    /\ UNCHANGED <<old, drawn, putVars, listed, owned>>

(* os.Remove of the directory: refused while it has siblings.               *)
Prune(d) ==
    /\ dpc[d] = "prune"
    /\ dir' \in (IF \E n \in Name : Exists(n) THEN {dir} ELSE {FALSE, dir})
    /\ dpc' = [dpc EXCEPT ![d] = "idle"]
    /\ target' = [target EXCEPT ![d] = Key]
    /\ UNCHANGED <<disk, old, drawn, putVars, listed, owned>>

-----------------------------------------------------------------------------
(* expiredObjects lists every file in the directory that is old enough.     *)
Expired == {n \in old : Exists(n)}

(* Faulty: files that are not a key are left alone.                         *)
ListKeys ==
    /\ listed = {} /\ dpc[Sweeper] = "idle"
    /\ listed' = Expired \cap {Key}
    /\ UNCHANGED <<fileVars, drawn, putVars, deleteVars, owned>>

ListExpired ==
    /\ listed = {} /\ dpc[Sweeper] = "idle"
    /\ listed' = Expired
    /\ UNCHANGED <<fileVars, drawn, putVars, deleteVars, owned>>

(* sweepOrphans takes one listed file after the other; the key is left to   *)
(* its row.                                                                 *)
SweepOrphan ==
    /\ dpc[Sweeper] = "idle"
    /\ \E n \in listed :
           /\ listed' = listed \ {n}
           /\ IF n = Key /\ owned
              THEN UNCHANGED deleteVars
              ELSE /\ dpc' = [dpc EXCEPT ![Sweeper] = "unlink"]
                   /\ target' = [target EXCEPT ![Sweeper] = n]
    /\ UNCHANGED <<fileVars, drawn, putVars, owned>>

(* A file that is not written to grows old.                                 *)
Age(n) ==
    /\ Exists(n) /\ n \notin old
    /\ old' = old \cup {n}
    /\ UNCHANGED <<dir, disk, drawn, putVars, deleteVars, listed, owned>>

(* A process is killed, and the calls it had under way with it.             *)
KillPut(p) ==
    /\ pc[p] # "idle"
    /\ Return(p)
    /\ UNCHANGED <<fileVars, drawn, deleteVars, listed, owned>>

KillDelete(d) ==
    /\ dpc[d] # "idle"
    /\ dpc' = [dpc EXCEPT ![d] = "idle"]
    /\ target' = [target EXCEPT ![d] = Key]
    /\ listed' = IF d = Sweeper THEN {} ELSE listed
    /\ UNCHANGED <<fileVars, drawn, putVars, owned>>

PutNext(p) ==
    \/ BeginPut(p) \/ MkdirAll(p) \/ CreateTemp(p) \/ Copy(p) \/ Check(p)
    \/ Rename(p) \/ Cleanup(p) \/ KillPut(p)

DeleteNext(d) == BeginDelete(d) \/ Unlink(d) \/ Prune(d) \/ KillDelete(d)

Next ==
    \/ \E p \in PutCall : PutNext(p)
    \/ \E d \in Delete : DeleteNext(d)
    \/ \E n \in Name : Age(n)
    \/ DropRow \/ ListExpired \/ SweepOrphan

Spec == Init /\ [][Next]_vars

(* Modification times recede, sweeps are repeated and go through their      *)
(* list, and no file is missed for ever: a sweep is not always killed       *)
(* before it gets to it, and its removal does not always fail.              *)
SweepTo(n) == SweepOrphan /\ listed' = listed \ {n} /\ n \in listed
Removes(n) == Unlink(Sweeper) /\ target[Sweeper] = n /\ dpc'[Sweeper] = "prune"

Fairness ==
    /\ WF_vars(ListExpired \/ SweepOrphan \/ Unlink(Sweeper) \/ Prune(Sweeper))
    /\ \A n \in Temp : WF_vars(Age(n)) /\ SF_vars(SweepTo(n)) /\ SF_vars(Removes(n))

FairSpec == Spec /\ Fairness

-----------------------------------------------------------------------------
TypeOK ==
    /\ dir \in BOOLEAN
    /\ disk \in [Name -> Data \cup {None}]
    /\ old \subseteq Name
    /\ drawn \subseteq Temp
    /\ pc \in [PutCall -> {"idle", "mkdir", "create", "copy", "check", "rename", "cleanup"}]
    /\ tmp \in [PutCall -> Temp \cup {None}]
    /\ body \in [PutCall -> Body]
    /\ result \in [PutCall -> {"ok", "failed", None}]
    /\ dpc \in [Delete -> {"idle", "unlink", "prune"}]
    /\ target \in [Delete -> Name]
    /\ listed \subseteq Name
    /\ owned \in BOOLEAN

(* However puts and deletes of a key interleave, fail and are killed, each  *)
(* is one atomic change of the key or none: a put that succeeds had stored  *)
(* exactly the declared body at one moment while it ran, one that fails had *)
(* no effect, and no reader ever finds anything else.                       *)
PutPhase(at, res) ==
    IF at = "idle" THEN "idle" ELSE IF at = "cleanup" THEN res ELSE "called"

DeletePhase(at, n) ==
    IF at = "idle" \/ n # Key THEN "idle" ELSE IF at = "unlink" THEN "called" ELSE "ok"

K == INSTANCE AtomicKey WITH
         held <- disk[Key],
         putOp <- [p \in PutCall |-> PutPhase(pc[p], result[p])],
         deleteOp <- [d \in Delete |-> DeletePhase(dpc[d], target[d])]

AtomicSpec == K!AtomicSpec

(* A put loses neither its temporary file nor the directory it is in to     *)
(* deletes of the key: the file goes by the put itself, or because the      *)
(* sweep had found it old; so an upload fails midway for no other reason.   *)
PutsKeepTheirTemps ==
    [][\A p \in PutCall :
           /\ pc[p] \in {"copy", "check", "rename"} /\ Exists(tmp[p])
           /\ pc'[p] = pc[p]
           => \/ dir' /\ disk'[tmp[p]] # None
              \/ target[Sweeper] = tmp[p] /\ dpc[Sweeper] = "unlink"]_vars

(* Temporary files left by killed uploads, or by a Remove that failed, are  *)
(* removed in the end although no row ever names them.                      *)
LeftoversGo == \A t \in Temp : Exists(t) ~> ~Exists(t)

=============================================================================
