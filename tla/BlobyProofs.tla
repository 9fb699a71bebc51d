---------------------------- MODULE BlobyProofs -----------------------------
(***************************************************************************)
(* Proofs of the safety properties of Bloby for any number of objects,      *)
(* uploads, bodies, requests and sweepers, on either backend, and that the  *)
(* service implements Publication.                                          *)
(***************************************************************************)
EXTENDS BlobyPublication, TLAPS

USE ObjectsAssumption, RegistryAssumption, StorageAssumption, BlobyAssumption

(* Types alone are not inductive: that a process calls the provider with an *)
(* object, an upload and a body it really has is part of the induction.     *)
Locals == LocalTypeOK /\ LocalsOK
Typed == TypeOK /\ LocalsOK /\ UploadKeysOK

(* The initial state is typed.                                              *)
LEMMA TypedInit == Init => Typed
BY DEF Init, RegistryInit, StorageInit, Typed, TypeOK, RegistryTypeOK, StorageTypeOK,
       LocalTypeOK, LocalsOK, UploadKeysOK, Busy, UploadPc, Used

-----------------------------------------------------------------------------
(* The statements of the registry, and the calls of a backend, with the     *)
(* arguments they may have.                                                 *)
RegistryStep ==
    \/ \E i \in Id, pf \in Prefix, c \in Content : CreatePending(i, pf, c)
    \/ \E i \in Id, u \in UploadId :
         RecordMultipartUploadID(i, u) \/ ClearMultipartUploadID(i, u)
    \/ \E i \in Id : \/ MarkAvailable(i) \/ RefreshPending(i)
                     \/ Delete(i) \/ DeleteExpiredPending(i)
                     \/ Attach(i) \/ Detach(i) \/ Age(i)
    \/ \E B \in SUBSET Id : ClaimExpiredPending(B)
    \/ UNCHANGED registryVars

StorageStep ==
    \/ \E i \in Id : Outstanding(i) \/ DeleteKey(i) \/ ExpireCap(i)
    \/ \E i \in Id, b \in Body : Put(i, b)
    \/ \E i \in Id, u \in UploadId : CreateMultipartUpload(i, u)
    \/ \E u \in UploadId : \/ PresignMultipartPart(u) \/ AbortMultipartUpload(u)
                           \/ UploadPart(u) \/ ExpirePartCap(u)
    \/ \E u \in UploadId, b \in Body : CompleteUpload(u, b)
    \/ UNCHANGED storageVars

(* Every statement of the registry keeps the columns typed.                 *)
LEMMA RegistryTyping == RegistryTypeOK /\ RegistryStep => RegistryTypeOK'
<1> SUFFICES ASSUME RegistryTypeOK, RegistryStep PROVE RegistryTypeOK'
  OBVIOUS
<1>1. CASE \E B \in SUBSET Id : ClaimExpiredPending(B)
  <2> PICK B \in SUBSET Id : ClaimExpiredPending(B)
    BY <1>1
  <2>1. state' \in [Id -> {"unused", "pending", "available", "expired", "deleted"}]
    BY DEF RegistryTypeOK, ClaimExpiredPending
  <2>2. stale' \in [Id -> BOOLEAN]
    BY Zenon DEF RegistryTypeOK, ClaimExpiredPending
  <2> QED BY <2>1, <2>2 DEF RegistryTypeOK, ClaimExpiredPending
<1>2. CASE \E i \in Id, pf \in Prefix, c \in Content : CreatePending(i, pf, c)
  BY <1>2 DEF RegistryTypeOK, CreatePending
<1>3. CASE \E i \in Id : MarkAvailable(i)
  BY <1>3 DEF RegistryTypeOK, MarkAvailable
<1>4. CASE \E i \in Id : RefreshPending(i)
  BY <1>4 DEF RegistryTypeOK, RefreshPending
<1>5. CASE \E i \in Id, u \in UploadId : RecordMultipartUploadID(i, u)
  BY <1>5 DEF RegistryTypeOK, RecordMultipartUploadID
<1>6. CASE \E i \in Id, u \in UploadId : ClearMultipartUploadID(i, u)
  BY <1>6 DEF RegistryTypeOK, ClearMultipartUploadID
<1>7. CASE \E i \in Id : Delete(i)
  BY <1>7 DEF RegistryTypeOK, Delete, RemoveRow
<1>8. CASE \E i \in Id : DeleteExpiredPending(i)
  BY <1>8 DEF RegistryTypeOK, DeleteExpiredPending, RemoveRow
<1>9. CASE \E i \in Id : (Attach(i) \/ Detach(i) \/ Age(i))
  BY <1>9 DEF RegistryTypeOK, Attach, Detach, Age
<1>10. CASE UNCHANGED registryVars
  BY <1>10 DEF RegistryTypeOK, registryVars
<1> QED BY <1>1, <1>2, <1>3, <1>4, <1>5, <1>6, <1>7, <1>8, <1>9, <1>10 DEF RegistryStep

(* Every call of a backend keeps what it stores typed.                      *)
LEMMA StorageTyping ==
  StorageTypeOK /\ UploadKeysOK /\ StorageStep => StorageTypeOK' /\ UploadKeysOK'
<1> SUFFICES ASSUME StorageTypeOK, UploadKeysOK, StorageStep
             PROVE  StorageTypeOK' /\ UploadKeysOK'
  OBVIOUS
<1>1. CASE \E i \in Id : Outstanding(i) \/ ExpireCap(i)
  BY <1>1 DEF StorageTypeOK, UploadKeysOK, Used, Outstanding, ExpireCap
<1>2. CASE \E i \in Id : DeleteKey(i)
  BY <1>2 DEF StorageTypeOK, UploadKeysOK, Used, DeleteKey
<1>3. CASE \E i \in Id, b \in Body : Put(i, b)
  BY <1>3 DEF StorageTypeOK, UploadKeysOK, Used, Put, Blob
<1>4. CASE \E i \in Id, u \in UploadId : CreateMultipartUpload(i, u)
  BY <1>4 DEF StorageTypeOK, UploadKeysOK, Used, CreateMultipartUpload
<1>5. CASE \E u \in UploadId : PresignMultipartPart(u) \/ ExpirePartCap(u)
  BY <1>5 DEF StorageTypeOK, UploadKeysOK, Used, PresignMultipartPart, ExpirePartCap
<1>6. CASE \E u \in UploadId : AbortMultipartUpload(u)
  BY <1>6 DEF StorageTypeOK, UploadKeysOK, Used, AbortMultipartUpload, CloseUpload
<1>7. CASE \E u \in UploadId : UploadPart(u)
  BY <1>7 DEF StorageTypeOK, UploadKeysOK, Used, UploadPart
<1>8. CASE \E u \in UploadId, b \in Body : CompleteUpload(u, b)
  BY <1>8 DEF StorageTypeOK, UploadKeysOK, Used, CompleteUpload, CloseUpload, Blob
<1>9. CASE UNCHANGED storageVars
  BY <1>9 DEF StorageTypeOK, UploadKeysOK, Used, storageVars
<1> QED BY <1>1, <1>2, <1>3, <1>4, <1>5, <1>6, <1>7, <1>8, <1>9 DEF StorageStep

(* What a process needs to be at a given call.                              *)
Equipped(l, i, u, b) ==
    /\ l \in {"idle"} \cup RequestPc \cup SharedPc \cup SweeperPc
    /\ l \notin {"idle", "next", "listUnreferenced", "listKeys", "listUploads"} => i \in Id
    /\ l \in UploadPc => u \in UploadId
    /\ l \in {"put", "complete"} => b \in Body

(* A process that goes on to another call stays equipped for it.            *)
LEMMA GotoTyping ==
  ASSUME Locals, NEW p \in Process, NEW l, Goto(p, l), Busy(p), l # "next", Equipped(l, obj[p], mpu[p], seen[p])
  PROVE  Locals'
BY DEF Locals, LocalTypeOK, LocalsOK, Busy, Goto, Equipped

(* A process that returns, or goes on with its batch, needs no object.      *)
LEMMA LeaveTyping ==
  ASSUME Locals, NEW p \in Process, Leave(p), Busy(p)
  PROVE  Locals'
<1>1. LocalTypeOK'
  BY DEF Locals, LocalTypeOK, Leave, RequestPc, SharedPc, SweeperPc
<1>2. /\ pc'[p] \in {"idle", "next"} /\ (task'[p] = "uploads" => task[p] = "uploads")
      /\ p \in Sweeper => task'[p] \in SweepTask
      /\ p \notin Sweeper => pc'[p] # "next"
  BY DEF Locals, LocalTypeOK, LocalsOK, SweepTask, Leave
<1>3. \A q \in Process \ {p} : /\ pc'[q] = pc[q] /\ obj'[q] = obj[q] /\ mpu'[q] = mpu[q]
                              /\ seen'[q] = seen[q] /\ task'[q] = task[q]
  BY DEF Locals, LocalTypeOK, Leave
<1>4. LocalsOK'
  BY <1>2, <1>3 DEF Locals, LocalsOK, Busy, UploadPc, Leave
<1> QED BY <1>1, <1>4 DEF Locals

(* A request that takes up an object has one.                               *)
LEMMA StartTyping ==
  ASSUME Locals, NEW p \in Request, NEW i \in Id, NEW l, NEW t, Start(p, i, l, t), l # "next",
         t \in {"begin", "finalize", "delete", "part"},
         Equipped(l, i, mpu[p], seen[p])
  PROVE  Locals'
BY DEF Locals, LocalTypeOK, LocalsOK, Busy, Start, Equipped, Process

(* removeBytes calls the provider with the upload and key of its object.    *)
LEMMA RemoveBytesTyping ==
  ASSUME Locals, NEW p \in Process, NEW u \in UploadId \cup {NoUpload}, RemoveBytes(p, u),
         Busy(p), obj[p] \in Id
  PROVE  Locals'
BY DEF Locals, LocalTypeOK, LocalsOK, Busy, RemoveBytes, UploadPc, RequestPc, SharedPc, SweeperPc

(* A phase of a sweep starts with typed pairs.                              *)
LEMMA EnterPhaseTyping ==
  ASSUME Locals, NEW s \in Sweeper, NEW t, NEW B \in SUBSET Pair, NEW T \in SUBSET Pair,
         EnterPhase(s, t, B, T), t \in {"expire", "unreferenced", "keys", "uploads"},
         t = "uploads" => \A x \in B \cup T : x[2] \in UploadId
  PROVE  Locals'
BY DEF Locals, LocalTypeOK, LocalsOK, SweepTask, Busy, EnterPhase, UploadPc, RequestPc, SharedPc,
       SweeperPc, Process

(* Steps of others leave the locals as they are.                            *)
LEMMA UnchangedTyping == Locals /\ UNCHANGED localVars => Locals'
BY DEF Locals, LocalTypeOK, LocalsOK, Busy, localVars

-----------------------------------------------------------------------------
(* Every step is one statement of the registry at most, and one call of a   *)
(* backend at most, with typed arguments.                                   *)
LEMMA RequestEffect ==
  ASSUME Typed, NEW p \in Process,
         RequestStep(p)
  PROVE  RegistryStep /\ StorageStep
<1> USE DEF Typed, TypeOK, LocalTypeOK, LocalsOK, Busy, UploadPc, RegistryStep, StorageStep
<1>1. CASE Sign(p) BY <1>1 DEF Sign
<1>2. CASE CreateMPU(p) BY <1>2 DEF CreateMPU
<1>3. CASE RecordMPU(p) BY <1>3 DEF RecordMPU
<1>4. CASE RecordAbort(p) BY <1>4 DEF RecordAbort, TryAbort
<1>5. CASE DeleteGet(p) \/ MarkGet(p) \/ Return(p) \/ Reget(p) \/ ListParts(p)
           \/ ClearGet(p) \/ Verify(p) \/ Head(p)
  BY <1>5 DEF DeleteGet, MarkGet, Return, Reget, ListParts, ClearGet, Verify, Head
<1>6. CASE WritePut(p) BY <1>6 DEF WritePut
<1>7. CASE Mark(p) BY <1>7 DEF Mark
<1>8. CASE WriteDelete(p) BY <1>8 DEF WriteDelete
<1>9. CASE Refresh(p) BY <1>9 DEF Refresh
<1>10. CASE Complete(p) BY <1>10 DEF Complete
<1>11. CASE Clear(p) BY <1>11 DEF Clear
<1>12. CASE PartRefresh(p)
  BY <1>12 DEF PartRefresh, RegistryTypeOK
<1>13. CASE DeleteRow(p) BY <1>13 DEF DeleteRow
<1>14. CASE Abort(p) BY <1>14 DEF Abort, TryAbort
<1>15. CASE DeleteBytes(p) BY <1>15 DEF DeleteBytes
<1> QED BY <1>1, <1>2, <1>3, <1>4, <1>5, <1>6, <1>7, <1>8, <1>9, <1>10, <1>11, <1>12, <1>13,
           <1>14, <1>15 DEF RequestStep

(* The same of the steps of a sweep,                                        *)
LEMMA SweeperEffect ==
  ASSUME Typed, NEW s \in Process, SweeperStep(s)
  PROVE  RegistryStep /\ StorageStep
<1> USE DEF Typed, TypeOK, LocalTypeOK, LocalsOK, Busy, UploadPc, RegistryStep, StorageStep
<1>1. CASE SweepClaim(s) BY <1>1 DEF SweepClaim
<1>2. CASE SweepTake(s) \/ SweepAdvance(s) \/ SweepUnreferenced(s) \/ ListKeys(s)
           \/ ListUploads(s) \/ SweepOwners(s)
  BY <1>2 DEF SweepTake, SweepAdvance, SweepUnreferenced, ListKeys, ListUploads, SweepOwners
<1>3. CASE DeleteExpired(s) BY <1>3 DEF DeleteExpired
<1>4. CASE DeleteRow(s) BY <1>4 DEF DeleteRow
<1>5. CASE Abort(s) BY <1>5 DEF Abort, TryAbort
<1>6. CASE DeleteBytes(s) BY <1>6 DEF DeleteBytes
<1> QED BY <1>1, <1>2, <1>3, <1>4, <1>5, <1>6 DEF SweeperStep

(* of the calls that start a request,                                       *)
LEMMA CallEffect ==
  ASSUME Typed, NEW p \in Process, RequestCalled(p)
  PROVE  RegistryStep /\ UNCHANGED storageVars
BY DEF RequestCalled, Begin, BeginDirect, Reserve, Write, Finalize, PresignPart, DeleteObject,
       DeleteUnreferenced, RegistryStep

(* and of every step.                                                       *)
LEMMA NextEffect ==
  ASSUME Typed, [Next]_vars
  PROVE  RegistryStep /\ StorageStep
<1>1. CASE \E p \in Request : RequestCalled(p)
  BY <1>1, CallEffect DEF Process, StorageStep
<1>2. CASE \E p \in Request : RequestStep(p)
  BY <1>2, RequestEffect DEF Process
<1>3. CASE \E s \in Sweeper : SweeperStep(s)
  BY <1>3, SweeperEffect DEF Process
<1>4. CASE \E p \in Process : Crash(p)
  BY <1>4 DEF Crash, RegistryStep, StorageStep
<1>5. CASE ClientNext
  BY <1>5 DEF ClientNext, PutDirect, RegistryStep, StorageStep
<1>6. CASE ApplicationNext
  BY <1>6 DEF ApplicationNext, RegistryStep, StorageStep
<1>7. CASE BecomeReliable \/ UNCHANGED vars
  BY <1>7 DEF BecomeReliable, vars, RegistryStep, StorageStep
<1> QED BY <1>1, <1>2, <1>3, <1>4, <1>5, <1>6, <1>7 DEF Next, ProcessNext

-----------------------------------------------------------------------------
(* Every step leaves each process equipped for its next call.               *)
LEMMA RequestLocals ==
  ASSUME Typed, NEW p \in Process, RequestStep(p)
  PROVE  Locals'
<1>0. Locals /\ RegistryTypeOK /\ StorageTypeOK
  BY DEF Typed, TypeOK, Locals
<1>a. Busy(p) => obj[p] \in Id
  BY DEF Typed, LocalsOK
<1>b. pc[p] \in UploadPc => mpu[p] \in UploadId
  BY DEF Typed, LocalsOK
<1>c. obj[p] \in Id => uploadID[obj[p]] \in UploadId \cup {NoUpload}
  BY <1>0 DEF RegistryTypeOK
<1> USE <1>0, <1>a, <1>b, GotoTyping, LeaveTyping
    DEF Equipped, RequestPc, SharedPc, SweeperPc, UploadPc, Busy
<1>1. CASE Sign(p) BY <1>1 DEF Sign
<1>2. CASE CreateMPU(p)
  BY <1>2 DEF CreateMPU, Locals, LocalTypeOK, LocalsOK
<1>3. CASE RecordMPU(p) BY <1>3 DEF RecordMPU
<1>4. CASE RecordAbort(p) BY <1>4 DEF RecordAbort
<1>5. CASE DeleteGet(p) BY <1>5 DEF DeleteGet
<1>6. CASE WritePut(p) BY <1>6 DEF WritePut
<1>7. CASE Mark(p) BY <1>7 DEF Mark, PublishFailed
<1>8. CASE MarkGet(p) BY <1>8 DEF MarkGet, PublishFailed
<1>9. CASE WriteDelete(p)
  BY <1>9, <1>c, RemoveBytesTyping DEF WriteDelete
<1>10. CASE Return(p) BY <1>10 DEF Return
<1>11. CASE Refresh(p)
  <2>1. CASE Leave(p) \/ Goto(p, "reget") BY <1>11, <2>1 DEF Refresh
  <2>2. CASE ~(Leave(p) \/ Goto(p, "reget"))
    BY <1>11, <2>2, <1>c DEF Refresh, Locals, LocalTypeOK, LocalsOK
  <2> QED BY <2>1, <2>2
<1>12. CASE Reget(p) BY <1>12 DEF Reget
<1>13. CASE ListParts(p)
  <2>1. CASE Leave(p) \/ Goto(p, "clear") BY <1>13, <2>1 DEF ListParts
  <2>2. CASE ~(Leave(p) \/ Goto(p, "clear"))
    BY <1>13, <2>2 DEF ListParts, Locals, LocalTypeOK, LocalsOK, StorageTypeOK
  <2> QED BY <2>1, <2>2
<1>14. CASE Complete(p) BY <1>14 DEF Complete
<1>15. CASE Clear(p) BY <1>15 DEF Clear
<1>16. CASE ClearGet(p) BY <1>16 DEF ClearGet
<1>17. CASE Verify(p) BY <1>17 DEF Verify
<1>18. CASE Head(p) BY <1>18 DEF Head
<1>19. CASE PartRefresh(p) BY <1>19 DEF PartRefresh
<1>20. CASE DeleteRow(p) BY <1>20, <1>c, RemoveBytesTyping DEF DeleteRow
<1>21. CASE Abort(p)
  <2>1. CASE Leave(p) BY <1>21, <2>1 DEF Abort
  <2>2. CASE ~Leave(p)
    BY <1>21, <2>2 DEF Abort, AfterAbort, Locals, LocalTypeOK, LocalsOK, SweepTask
  <2> QED BY <2>1, <2>2
<1>22. CASE DeleteBytes(p) BY <1>22 DEF DeleteBytes
<1> QED BY <1>1, <1>2, <1>3, <1>4, <1>5, <1>6, <1>7, <1>8, <1>9, <1>10, <1>11, <1>12, <1>13,
           <1>14, <1>15, <1>16, <1>17, <1>18, <1>19, <1>20, <1>21, <1>22 DEF RequestStep

(* The same of the steps of a sweep,                                        *)
LEMMA SweeperLocals ==
  ASSUME Typed, NEW s \in Sweeper, SweeperStep(s)
  PROVE  Locals'
<1>0. Locals /\ RegistryTypeOK /\ StorageTypeOK
  BY DEF Typed, TypeOK, Locals
<1>1. CASE SweepClaim(s)
  <2>1. \A B \in SUBSET Id : {<<i, uploadID[i]>> : i \in B} \in SUBSET Pair
    BY <1>0 DEF RegistryTypeOK, Pair
  <2> QED BY <1>0, <1>1, <2>1, EnterPhaseTyping DEF SweepClaim
<1>2. CASE SweepTake(s)
  BY <1>0, <1>2 DEF SweepTake, Process, Locals, LocalTypeOK, LocalsOK, Busy, UploadPc, Pair,
                    RequestPc, SharedPc, SweeperPc
<1>3. CASE DeleteExpired(s)
  BY <1>0, <1>3, LeaveTyping DEF DeleteExpired, Process, Busy
<1>4. CASE SweepAdvance(s)
  BY <1>0, <1>4 DEF SweepAdvance, Process, Locals, LocalTypeOK, LocalsOK, Busy, UploadPc,
                    RequestPc, SharedPc, SweeperPc
<1>5. CASE SweepUnreferenced(s)
  <2>1. \A B \in SUBSET Id : B \X {NoUpload} \in SUBSET Pair
    BY DEF Pair
  <2> QED BY <1>0, <1>5, <2>1, EnterPhaseTyping DEF SweepUnreferenced
<1>6. CASE ListKeys(s)
  <2>1. \A B \in SUBSET Id : B \X {NoUpload} \in SUBSET Pair
    BY DEF Pair
  <2> QED BY <1>0, <1>6, <2>1, EnterPhaseTyping DEF ListKeys
<1>7. CASE ListUploads(s)
  <2> PICK U \in SUBSET {u \in UploadId : upStatus[u] = "open"} :
         EnterPhase(s, "uploads", {}, {<<upKey[u], u>> : u \in U})
    BY <1>7 DEF ListUploads
  <2>1. {<<upKey[u], u>> : u \in U} \in SUBSET Pair
    BY <1>0 DEF Typed, UploadKeysOK, Used, Pair
  <2>2. \A x \in {<<upKey[u], u>> : u \in U} : x[2] \in UploadId
    OBVIOUS
  <2> QED BY <1>0, <2>1, <2>2, EnterPhaseTyping
<1>8. CASE SweepOwners(s)
  BY <1>0, <1>8 DEF SweepOwners, Process, Locals, LocalTypeOK, LocalsOK, Busy
<1>9. CASE DeleteRow(s) \/ Abort(s) \/ DeleteBytes(s)
  BY <1>9, RequestLocals DEF RequestStep, Process
<1> QED BY <1>1, <1>2, <1>3, <1>4, <1>5, <1>6, <1>7, <1>8, <1>9 DEF SweeperStep

(* and of the calls that start a request.                                   *)
LEMMA CallLocals ==
  ASSUME Typed, NEW p \in Request, RequestCalled(p)
  PROVE  Locals'
<1>0. Locals
  BY DEF Typed, TypeOK, Locals
<1> USE DEF Equipped, RequestPc, SharedPc, SweeperPc, UploadPc
<1>1. CASE \E i \in Id, pf \in Prefix, c \in Content : Begin(p, i, pf, c) \/ BeginDirect(p, i, pf, c)
  BY <1>0, <1>1, StartTyping, UnchangedTyping DEF Begin, BeginDirect, Reserve
<1>2. CASE \E i \in Id, pf \in Prefix, b \in Body : Write(p, i, pf, b)
  BY <1>0, <1>2 DEF Write, Locals, LocalTypeOK, LocalsOK, Busy, localVars
<1>3. CASE \E i \in Id, pf \in Prefix :
             Finalize(p, i, pf) \/ PresignPart(p, i, pf) \/ DeleteObject(p, i, pf)
  BY <1>0, <1>3, StartTyping DEF Finalize, PresignPart, DeleteObject
<1>4. CASE \E i \in Id : DeleteUnreferenced(p, i)
  BY <1>0, <1>4, StartTyping DEF DeleteUnreferenced
<1> QED BY <1>1, <1>2, <1>3, <1>4 DEF RequestCalled

(* Every step keeps the state typed and the processes equipped.             *)
LEMMA TypedNext == Typed /\ [Next]_vars => Typed'
<1> SUFFICES ASSUME Typed, [Next]_vars PROVE Typed'
  OBVIOUS
<1>1. RegistryTypeOK' /\ StorageTypeOK' /\ UploadKeysOK'
  BY NextEffect, RegistryTyping, StorageTyping DEF Typed, TypeOK
<1>2. unreliable' \in BOOLEAN
  BY DEF Typed, TypeOK, Next, ProcessNext, ClientNext, ApplicationNext, BecomeReliable, vars
<1>3. Locals'
  <2>0. Locals
    BY DEF Typed, TypeOK, Locals
  <2>1. CASE \E p \in Request : RequestCalled(p) \/ RequestStep(p)
    BY <2>1, CallLocals, RequestLocals DEF Process
  <2>2. CASE \E s \in Sweeper : SweeperStep(s)
    BY <2>2, SweeperLocals DEF Process
  <2>3. CASE \E p \in Process : Crash(p)
    BY <2>0, <2>3 DEF Crash, Locals, LocalTypeOK, LocalsOK, Busy, UploadPc
  <2>4. CASE UNCHANGED localVars
    BY <2>0, <2>4, UnchangedTyping
  <2> QED BY <2>1, <2>2, <2>3, <2>4
          DEF Next, ProcessNext, ClientNext, ApplicationNext, BecomeReliable, vars
<1> QED BY <1>1, <1>2, <1>3 DEF Typed, TypeOK, Locals

(* Every variable keeps its type, for every value of the constants.         *)
THEOREM TypeCorrect == Spec => []TypeOK
<1>1. Spec => []Typed
  BY TypedInit, TypedNext, PTL DEF Spec
<1>2. Typed => TypeOK
  BY DEF Typed
<1> QED BY <1>1, <1>2, PTL

-----------------------------------------------------------------------------
(* The steps of Next, seen through what the invariant needs to know of      *)
(* them: which process moves, what its new call entitles it to, and on      *)
(* whose authority storage changes.                                         *)

Holds(i) == stored[i] # NoBlob /\ Declared(content[i], stored[i])

Same(q) ==
    /\ pc'[q] = pc[q] /\ task'[q] = task[q] /\ obj'[q] = obj[q]
    /\ mpu'[q] = mpu[q] /\ seen'[q] = seen[q] /\ batch'[q] = batch[q] /\ todo'[q] = todo[q]

Entitled(p) ==
    /\ Starting(p)' => /\ UNCHANGED storageVars
                       /\ state[obj'[p]] = "unused" /\ state'[obj'[p]] = "pending"
    /\ pc'[p] = "createMPU" => Backend = "s3"
    /\ pc'[p] = "recordMPU" => Used(mpu[p])'
    /\ pc'[p] \in {"markGet", "writeDelete"} => state'[obj'[p]] # "unused"
    /\ pc'[p] = "put" => content'[obj'[p]] = Digest[seen'[p]]
    /\ pc'[p] \in {"head", "mark"} => Retired(obj[p])' \/ Holds(obj[p])'
    /\ pc'[p] = "deleteKey" => Retired(obj[p])'
    /\ pc'[p] = "abort" /\ task'[p] # "uploads" => Retired(obj[p])'
    /\ task'[p] \in {"expire", "expireError", "keys"} => \A t \in batch'[p] : Retired(t[1])'
    /\ \A t \in todo'[p] : state'[t[1]] # "unused"

Authorised(p) ==
    \/ UNCHANGED storageVars
    \/ pc[p] \in {"sign", "put"} /\ Outstanding(obj[p])
    \/ pc[p] = "put" /\ Put(obj[p], seen[p])
    \/ Retired(obj[p]) /\ obj[p] \in Id /\ DeleteKey(obj[p])
    \/ pc[p] = "createMPU" /\ \E u \in UploadId : CreateMultipartUpload(obj[p], u)
    \/ \E u \in UploadId : PresignMultipartPart(u) \/ AbortMultipartUpload(u)
    \/ \E u \in UploadId, b \in Body : CompleteUpload(u, b)

ProcessMove(p) ==
    Entitled(p) /\ Authorised(p) /\ \A q \in Process \ {p} : Same(q)

(* Rows only move forward, and a declaration never changes.                 *)
LEMMA RowsForward ==
  ASSUME Typed, RegistryStep, NEW i \in Id
  PROVE  /\ Retired(i) => Retired(i)'
         /\ state[i] # "unused" => state'[i] # "unused" /\ content'[i] = content[i]
         /\ state'[i] = "available" /\ state[i] # "available" => MarkAvailable(i)
<1> USE DEF Typed, TypeOK, RegistryTypeOK, Retired
<1>1. CASE \E j \in Id, pf \in Prefix, c \in Content : CreatePending(j, pf, c)
  BY <1>1 DEF CreatePending
<1>2. CASE \E j \in Id, u \in UploadId :
             RecordMultipartUploadID(j, u) \/ ClearMultipartUploadID(j, u)
  BY <1>2 DEF RecordMultipartUploadID, ClearMultipartUploadID
<1>3. CASE \E j \in Id : MarkAvailable(j)
  <2> PICK j \in Id : MarkAvailable(j) BY <1>3
  <2>1. state'[i] # state[i] => i = j BY DEF MarkAvailable
  <2> QED BY <2>1 DEF MarkAvailable, Active
<1>4. CASE \E j \in Id : RefreshPending(j) \/ Attach(j) \/ Detach(j) \/ Age(j)
  BY <1>4 DEF RefreshPending, Attach, Detach, Age
<1>5. CASE \E j \in Id : Delete(j) \/ DeleteExpiredPending(j)
  BY <1>5 DEF Delete, DeleteExpiredPending, RemoveRow
<1>6. CASE \E B \in SUBSET Id : ClaimExpiredPending(B)
  BY <1>6 DEF ClaimExpiredPending, ClaimBatch, Retriable, Abandoned
<1>7. CASE UNCHANGED registryVars
  BY <1>7 DEF registryVars
<1> QED BY <1>1, <1>2, <1>3, <1>4, <1>5, <1>6, <1>7 DEF RegistryStep

(* A pair that a sweep may act on stays so.                                 *)
LEMMA PairsForward ==
  ASSUME Typed, RemovalOK, RegistryStep, NEW p \in Process
  PROVE  /\ task[p] \in {"expire", "expireError", "keys"} => \A t \in batch[p] : Retired(t[1])'
         /\ \A t \in todo[p] : state'[t[1]] # "unused"
<1>1. \A t \in batch[p] \cup todo[p] : t[1] \in Id
  BY DEF Typed, TypeOK, LocalTypeOK, Pair
<1>2. ASSUME task[p] \in {"expire", "expireError", "keys"}, NEW t \in batch[p]
      PROVE  Retired(t[1])'
  <2>1. Retired(t[1]) BY <1>2 DEF RemovalOK
  <2> QED BY <1>1, <2>1, RowsForward DEF Retired
<1>3. ASSUME NEW t \in todo[p] PROVE state'[t[1]] # "unused"
  <2>1. state[t[1]] # "unused" BY DEF RemovalOK
  <2> QED BY <1>1, <2>1, RowsForward
<1> QED BY <1>2, <1>3

(* A process that goes on to a call it is entitled to disturbs no other.    *)
LEMMA GotoMove ==
  ASSUME Typed, RemovalOK, RegistryStep, NEW p \in Process, NEW l, Goto(p, l),
         l \notin {"sign", "createMPU", "recordMPU", "put", "abort"},
         l \in {"head", "mark"} => Retired(obj[p])' \/ Holds(obj[p])',
         l = "deleteKey" => Retired(obj[p])',
         l \in {"markGet", "writeDelete"} => state'[obj[p]] # "unused"
  PROVE  Entitled(p) /\ \A q \in Process \ {p} : Same(q)
<1>1. /\ pc'[p] = l /\ task' = task /\ obj' = obj /\ batch' = batch /\ todo' = todo /\ seen' = seen
      /\ mpu' = mpu
      /\ \A q \in Process \ {p} : pc'[q] = pc[q]
  BY DEF Typed, TypeOK, LocalTypeOK, Goto
<1>2. \A q \in Process \ {p} : Same(q)
  BY <1>1 DEF Same
<1>3. /\ task'[p] \in {"expire", "expireError", "keys"} => \A t \in batch'[p] : Retired(t[1])'
      /\ \A t \in todo'[p] : state'[t[1]] # "unused"
  BY <1>1, PairsForward
<1>4. ~Starting(p)'
  BY <1>1 DEF Starting
<1>5. pc'[p] \in {"head", "mark"} => Retired(obj[p])' \/ Holds(obj[p])'
  BY <1>1 DEF Retired, Holds
<1>6. pc'[p] = "deleteKey" => Retired(obj[p])'
  BY <1>1 DEF Retired
<1>7. pc'[p] \notin {"put", "abort", "createMPU", "recordMPU"}
  BY <1>1
<1>8. pc'[p] \in {"markGet", "writeDelete"} => state'[obj'[p]] # "unused"
  BY <1>1
<1> QED BY <1>2, <1>3, <1>4, <1>5, <1>6, <1>7, <1>8 DEF Entitled

(* Returning entitles a process to nothing.                                 *)
LEMMA LeaveMove ==
  ASSUME Typed, RemovalOK, RegistryStep, NEW p \in Process, Leave(p)
  PROVE  Entitled(p) /\ \A q \in Process \ {p} : Same(q)
<1>1. /\ pc'[p] \in {"idle", "next"}
      /\ batch' = batch /\ todo' = todo
      /\ task'[p] \in {"expire", "expireError", "keys"}
            => task[p] \in {"expire", "expireError", "keys"}
  BY DEF Typed, TypeOK, LocalTypeOK, Leave
<1>2. \A q \in Process \ {p} : Same(q)
  BY DEF Typed, TypeOK, LocalTypeOK, Leave, Same
<1>3. /\ task'[p] \in {"expire", "expireError", "keys"} => \A t \in batch'[p] : Retired(t[1])'
      /\ \A t \in todo'[p] : state'[t[1]] # "unused"
  BY <1>1, PairsForward
<1> QED BY <1>1, <1>2, <1>3 DEF Entitled, Starting

(* A request takes up an object.                                            *)
LEMMA StartMove ==
  ASSUME Typed, RemovalOK, RegistryStep, NEW p \in Process, NEW i \in Id, NEW l, NEW t, Start(p, i, l, t),
         t \in {"begin", "finalize", "delete", "part"},
         l \notin {"recordMPU", "put", "head", "mark", "deleteKey", "abort", "markGet", "writeDelete"},
         l = "createMPU" => Backend = "s3",
         l \in {"sign", "createMPU"} =>
            UNCHANGED storageVars /\ state[i] = "unused" /\ state'[i] = "pending"
  PROVE  Entitled(p) /\ \A q \in Process \ {p} : Same(q)
<1>1. pc'[p] = l /\ task'[p] = t /\ obj'[p] = i /\ todo' = todo
  BY DEF Typed, TypeOK, LocalTypeOK, Start
<1>2. \A q \in Process \ {p} : Same(q)
  BY DEF Typed, TypeOK, LocalTypeOK, Start, Same
<1> QED BY <1>1, <1>2, PairsForward DEF Entitled, Starting

(* removeBytes is entered for a retired object only.                        *)
LEMMA RemoveBytesMove ==
  ASSUME Typed, RemovalOK, RegistryStep, NEW p \in Process, NEW u, RemoveBytes(p, u),
         obj[p] \in Id, Retired(obj[p])'
  PROVE  Entitled(p) /\ \A q \in Process \ {p} : Same(q)
<1>1. /\ pc'[p] \in {"deleteKey", "abort"}
      /\ task' = task /\ obj' = obj /\ batch' = batch /\ todo' = todo /\ seen' = seen
      /\ \A q \in Process \ {p} : pc'[q] = pc[q] /\ mpu'[q] = mpu[q]
  BY DEF Typed, TypeOK, LocalTypeOK, RemoveBytes
<1>2. \A q \in Process \ {p} : Same(q)
  BY <1>1 DEF Same
<1>3. /\ task'[p] \in {"expire", "expireError", "keys"} => \A t \in batch'[p] : Retired(t[1])'
      /\ \A t \in todo'[p] : state'[t[1]] # "unused"
  BY <1>1, PairsForward
<1>4. Retired(obj[p])'
  BY <1>1 DEF Retired
<1> QED BY <1>1, <1>2, <1>3, <1>4 DEF Entitled, Starting

(* A phase that removes bytes starts with retired objects only.             *)
LEMMA EnterPhaseMove ==
  ASSUME Typed, NEW s \in Process, NEW t, NEW B, NEW T, EnterPhase(s, t, B, T),
         t \in {"expire", "keys"} => \A x \in B : Retired(x[1])',
         t # "expireError",
         \A x \in T : state'[x[1]] # "unused"
  PROVE  Entitled(s) /\ \A q \in Process \ {s} : Same(q)
<1>1. pc'[s] = "next" /\ task'[s] = t /\ batch'[s] = B /\ todo'[s] = T
  BY DEF Typed, TypeOK, LocalTypeOK, EnterPhase
<1>2. \A q \in Process \ {s} : Same(q)
  BY DEF Typed, TypeOK, LocalTypeOK, EnterPhase, Same
<1> QED BY <1>1, <1>2 DEF Entitled, Starting

(* What verify accepts is what was declared: the file store looks at the    *)
(* size alone, but only a PUT ever fills its keys.                          *)
LEMMA VerifiedHolds ==
  ASSUME Typed, KeysOK, UploadsOK, NEW i \in Id, stored[i] # NoBlob,
         Verifies(content[i], stored[i])
  PROVE  Holds(i)
<1>1. stored[i] \in Blob
  BY DEF Typed, TypeOK, StorageTypeOK
<1>2. CASE stored[i].sum = "SHA256"
  BY <1>1, <1>2 DEF KeysOK, PutAdmits, Holds, Declared
<1>3. CASE stored[i].sum = "CRC64NVME"
  <2>1. Backend = "s3"
    BY <1>3 DEF KeysOK, UploadsOK, KeyUsed
  <2> QED BY <1>1, <1>3, <2>1 DEF Verifies, FileVerifies, S3Verifies, Holds, Declared
<1> QED BY <1>1, <1>2, <1>3 DEF Blob

(* Every step of a request is a move of it alone, within its rights:        *)
(* DeleteRow and the fallback of Write enter removeBytes after the row is   *)
(* gone, Verify enters MarkAvailable over the declared bytes.               *)
LEMMA RequestMove ==
  ASSUME Typed, Consistent, NEW p \in Process, RequestStep(p)
  PROVE  ProcessMove(p)
<1>0. RemovalOK /\ KeysOK /\ UploadsOK /\ StartersOK /\ VerifiedOK
  BY DEF Consistent
<1>r. RegistryStep
  BY RequestEffect
<1>a. Busy(p) => obj[p] \in Id
  BY DEF Typed, LocalsOK
<1>b. pc[p] \in UploadPc => mpu[p] \in UploadId
  BY DEF Typed, LocalsOK
<1>c. pc[p] \in {"put", "complete"} => seen[p] \in Body
  BY DEF Typed, LocalsOK
<1>s. UNCHANGED registryVars => state' = state /\ content' = content
  BY DEF registryVars
<1>t. UNCHANGED storageVars => stored' = stored
  BY DEF storageVars
<1>g. \A l : Goto(p, l) => obj' = obj
  BY DEF Goto
<1>d. ASSUME Delete(obj[p]), obj[p] \in Id, obj' = obj
      PROVE  Retired(obj[p])'
  BY <1>d DEF Delete, RemoveRow, Retired, Typed, TypeOK, RegistryTypeOK
<1>e. \A u : RemoveBytes(p, u) => obj' = obj
  BY DEF RemoveBytes
<1> USE <1>0, <1>r, <1>a, <1>b, <1>c, GotoMove, LeaveMove DEF Busy, UploadPc, ProcessMove, Authorised
<1>1. CASE Sign(p) BY <1>1 DEF Sign
<1>2. CASE CreateMPU(p)
  <2>1. Authorised(p) BY <1>2 DEF CreateMPU
  <2>2. CASE Goto(p, "deleteGet") BY <2>1, <2>2
  <2>3. CASE ~Goto(p, "deleteGet")
    <3>1. /\ pc'[p] = "recordMPU" /\ task' = task /\ obj' = obj /\ batch' = batch /\ todo' = todo /\ seen' = seen
          /\ \A q \in Process \ {p} : pc'[q] = pc[q] /\ mpu'[q] = mpu[q]
      BY <1>2, <2>3 DEF CreateMPU, Typed, TypeOK, LocalTypeOK
    <3>2. \A q \in Process \ {p} : Same(q) BY <3>1 DEF Same
    <3>3. Used(mpu[p])'
      BY <1>2, <2>3 DEF CreateMPU, CreateMultipartUpload, Used, Typed, TypeOK, LocalTypeOK,
         StorageTypeOK
    <3>4. Entitled(p) BY <3>1, <3>3, PairsForward DEF Entitled, Starting
    <3> QED BY <2>1, <3>2, <3>4
  <2> QED BY <2>2, <2>3
<1>3. CASE RecordMPU(p) BY <1>3 DEF RecordMPU
<1>4. CASE RecordAbort(p) BY <1>4 DEF RecordAbort, TryAbort
<1>5. CASE DeleteGet(p) BY <1>5 DEF DeleteGet
<1>6. CASE WritePut(p)
  <2>1. Authorised(p) BY <1>6 DEF WritePut
  <2>2. CASE Goto(p, "deleteRow") BY <2>1, <2>2
  <2>3. CASE Put(obj[p], seen[p]) /\ Goto(p, "mark")
    <3>1. stored'[obj[p]] = [body |-> seen[p], sum |-> "SHA256"] /\ content' = content /\ obj' = obj
      BY <1>6, <1>s, <1>g, <2>3 DEF WritePut, Put, Typed, TypeOK, StorageTypeOK
    <3>2. content[obj[p]] = Digest[seen[p]]
      BY <1>6 DEF WritePut, StartersOK
    <3>3. [body |-> seen[p], sum |-> "SHA256"] \in Blob
      BY <1>6 DEF WritePut, Blob
    <3>4. Holds(obj[p])'
      BY <3>1, <3>2, <3>3 DEF Holds, Declared
    <3> QED BY <2>1, <2>3, <3>4
  <2> QED BY <1>6, <2>2, <2>3 DEF WritePut
<1>7. CASE Mark(p)
  <2>1. Authorised(p) BY <1>7 DEF Mark
  <2>2. state[obj[p]] # "unused"
    BY <1>7 DEF Mark, VerifiedOK, Retired, Consistent, UnusedIsFresh
  <2>3. state'[obj[p]] # "unused"
    BY <1>7, <2>2, RowsForward DEF Mark
  <2> QED BY <1>7, <2>1, <2>3 DEF Mark, PublishFailed
<1>8. CASE MarkGet(p)
  <2>1. state'[obj[p]] # "unused"
    BY <1>8, <1>s DEF MarkGet, StartersOK
  <2> QED BY <1>8, <2>1 DEF MarkGet, PublishFailed
<1>9. CASE WriteDelete(p)
  <2>1. Authorised(p) BY <1>9 DEF WriteDelete
  <2>2. CASE Leave(p) BY <2>1, <2>2
  <2>3. CASE Delete(obj[p]) /\ RemoveBytes(p, uploadID[obj[p]])
    BY <1>9, <2>1, <2>3, <1>d, <1>e, RemoveBytesMove DEF WriteDelete
  <2>4. CASE ~Visible(obj[p]) /\ RemoveBytes(p, NoUpload) /\ UNCHANGED registryVars
    <3>1. state[obj[p]] \in {"unused", "pending", "available", "expired", "deleted"}
      BY <1>9 DEF WriteDelete, Typed, TypeOK, RegistryTypeOK
    <3>2. state[obj[p]] # "unused"
      BY <1>9 DEF WriteDelete, StartersOK
    <3>3. Retired(obj[p])'
      BY <2>4, <3>1, <3>2, <1>s, <1>e DEF Visible, Retired
    <3> QED BY <1>9, <2>1, <2>4, <3>3, RemoveBytesMove DEF WriteDelete
  <2> QED BY <1>9, <2>2, <2>3, <2>4 DEF WriteDelete
<1>10. CASE Return(p) BY <1>10 DEF Return
<1>11. CASE Refresh(p)
  <2>1. Authorised(p) BY <1>11 DEF Refresh
  <2>2. CASE Leave(p) \/ Goto(p, "reget") BY <2>1, <2>2
  <2>3. CASE ~(Leave(p) \/ Goto(p, "reget"))
    <3>1. /\ pc'[p] \in {"verify", "listParts"}
          /\ task' = task /\ obj' = obj /\ batch' = batch /\ todo' = todo /\ seen' = seen
          /\ \A q \in Process \ {p} : pc'[q] = pc[q] /\ mpu'[q] = mpu[q]
      BY <1>11, <2>3 DEF Refresh, Typed, TypeOK, LocalTypeOK
    <3>2. \A q \in Process \ {p} : Same(q) BY <3>1 DEF Same
    <3>3. Entitled(p) BY <3>1, PairsForward DEF Entitled, Starting
    <3> QED BY <2>1, <3>2, <3>3
  <2> QED BY <2>2, <2>3
<1>12. CASE Reget(p) BY <1>12 DEF Reget
<1>13. CASE ListParts(p)
  <2>1. Authorised(p) BY <1>13 DEF ListParts
  <2>2. CASE Leave(p) \/ Goto(p, "clear") BY <2>1, <2>2
  <2>3. CASE ~(Leave(p) \/ Goto(p, "clear"))
    <3>1. /\ pc'[p] = "complete" /\ task' = task /\ obj' = obj /\ mpu' = mpu /\ batch' = batch
          /\ todo' = todo
          /\ \A q \in Process \ {p} : pc'[q] = pc[q] /\ seen'[q] = seen[q]
      BY <1>13, <2>3 DEF ListParts, Typed, TypeOK, LocalTypeOK
    <3>2. \A q \in Process \ {p} : Same(q) BY <3>1 DEF Same
    <3>3. Entitled(p) BY <3>1, PairsForward DEF Entitled, Starting
    <3> QED BY <2>1, <3>2, <3>3
  <2> QED BY <2>2, <2>3
<1>14. CASE Complete(p) BY <1>14 DEF Complete
<1>15. CASE Clear(p) BY <1>15 DEF Clear
<1>16. CASE ClearGet(p) BY <1>16 DEF ClearGet
<1>17. CASE Verify(p)
  <2>1. Authorised(p) BY <1>17 DEF Verify
  <2>2. CASE Leave(p) BY <2>1, <2>2
  <2>3. CASE ~Leave(p)
    <3>1. Holds(obj[p])
      BY <1>17, <2>3, VerifiedHolds DEF Verify
    <3>2. PICK l \in {"mark", "head"} : Goto(p, l)
      BY <1>17, <2>3 DEF Verify
    <3>3. Holds(obj[p])'
      BY <1>17, <3>1, <3>2, <1>s, <1>t, <1>g DEF Verify, Holds, Declared
    <3> QED BY <2>1, <3>2, <3>3
  <2> QED BY <2>2, <2>3
<1>18. CASE Head(p)
  <2>1. Authorised(p) BY <1>18 DEF Head
  <2>2. CASE Leave(p) BY <2>1, <2>2
  <2>3. CASE Goto(p, "mark")
    <3>1. Retired(obj[p]) \/ Holds(obj[p])
      BY <1>18 DEF Head, VerifiedOK, Holds
    <3>2. Retired(obj[p])' \/ Holds(obj[p])'
      BY <1>18, <2>3, <3>1, <1>s, <1>t, <1>g DEF Head, Holds, Declared, Retired
    <3> QED BY <2>1, <2>3, <3>2
  <2> QED BY <1>18, <2>2, <2>3 DEF Head
<1>19. CASE PartRefresh(p)
  BY <1>19 DEF PartRefresh, Typed, TypeOK, RegistryTypeOK
<1>20. CASE DeleteRow(p)
  BY <1>20, <1>d, <1>e, RemoveBytesMove DEF DeleteRow
<1>21. CASE Abort(p)
  <2>1. Authorised(p) BY <1>21 DEF Abort, TryAbort
  <2>2. CASE Leave(p) BY <2>1, <2>2
  <2>3. CASE ~Leave(p)
    <3>1. /\ pc'[p] = "deleteKey" /\ obj' = obj /\ mpu' = mpu /\ batch' = batch /\ todo' = todo
          /\ seen' = seen
          /\ task'[p] \in {"expire", "expireError", "keys"}
                => task[p] \in {"expire", "expireError", "keys"}
          /\ \A q \in Process \ {p} : pc'[q] = pc[q] /\ task'[q] = task[q]
      BY <1>21, <2>3 DEF Abort, AfterAbort, Typed, TypeOK, LocalTypeOK
    <3>2. \A q \in Process \ {p} : Same(q) BY <3>1 DEF Same
    <3>3. Retired(obj[p])
      BY <1>21, <2>3 DEF Abort, AfterAbort, RemovalOK
    <3>4. Retired(obj[p])'
      BY <1>21, <3>1, <3>3, <1>s DEF Abort, Retired
    <3>5. Entitled(p) BY <3>1, <3>4, PairsForward DEF Entitled, Starting
    <3> QED BY <2>1, <3>2, <3>5
  <2> QED BY <2>2, <2>3
<1>22. CASE DeleteBytes(p)
  BY <1>22 DEF DeleteBytes, RemovalOK
<1> QED BY <1>1, <1>2, <1>3, <1>4, <1>5, <1>6, <1>7, <1>8, <1>9, <1>10, <1>11, <1>12, <1>13,
           <1>14, <1>15, <1>16, <1>17, <1>18, <1>19, <1>20, <1>21, <1>22 DEF RequestStep

(* Every step of a sweep is a move of it alone, within its rights: claimed  *)
(* rows are expired by the statement that returns them, and bytes that      *)
(* owners found without a visible row belong to a retired object.           *)
LEMMA SweeperMove ==
  ASSUME Typed, Consistent, NEW s \in Sweeper, SweeperStep(s)
  PROVE  ProcessMove(s)
<1>0. RemovalOK /\ UnusedIsFresh /\ s \in Process
  BY DEF Consistent, Process
<1>r. RegistryStep
  BY <1>0, SweeperEffect
<1>s. UNCHANGED registryVars => state' = state
  BY DEF registryVars
<1>1. CASE SweepClaim(s)
  <2>1. Authorised(s) BY <1>1 DEF SweepClaim, Authorised
  <2>2. ASSUME NEW B \in SUBSET Id, ClaimExpiredPending(B)
        PROVE  \A x \in {<<i, uploadID[i]>> : i \in B} : Retired(x[1])'
    BY <2>2 DEF ClaimExpiredPending, Retired
  <2> QED BY <1>0, <1>1, <2>1, <2>2, EnterPhaseMove DEF SweepClaim, ProcessMove
<1>2. CASE SweepTake(s)
  <2> PICK t \in batch[s] :
         /\ batch' = [batch EXCEPT ![s] = @ \ {t}]
         /\ obj' = [obj EXCEPT ![s] = t[1]]
         /\ mpu' = [mpu EXCEPT ![s] = t[2]]
         /\ pc' = [pc EXCEPT ![s] = IF task[s] = "unreferenced" THEN "deleteRow"
                                    ELSE IF t[2] = NoUpload THEN "deleteKey"
                                    ELSE "abort"]
    BY <1>2 DEF SweepTake
  <2>1. Authorised(s) BY <1>2 DEF SweepTake, Authorised
  <2>2. \A q \in Process \ {s} : Same(q)
    BY <1>2 DEF SweepTake, Same, Typed, TypeOK, LocalTypeOK
  <2>3. /\ pc'[s] \in {"deleteRow", "deleteKey", "abort"}
        /\ obj'[s] = t[1] /\ batch'[s] \subseteq batch[s] /\ task' = task /\ todo' = todo
        /\ task[s] = "uploads" => pc'[s] # "deleteKey"
        /\ task[s] = "unreferenced" => pc'[s] = "deleteRow"
    BY <1>0, <1>2 DEF SweepTake, Typed, TypeOK, LocalTypeOK, LocalsOK
  <2>4. task[s] \notin {"uploads", "unreferenced"} => task[s] \in {"expire", "expireError", "keys"}
    BY <1>0, <1>2 DEF SweepTake, Typed, LocalsOK, SweepTask
  <2>5. task[s] \in {"expire", "expireError", "keys"} => Retired(t[1])
    BY <1>0 DEF RemovalOK
  <2>6. task[s] \in {"expire", "expireError", "keys"} => Retired(obj[s])'
    BY <1>2, <1>s, <2>3, <2>5 DEF SweepTake, Retired
  <2>7. /\ task'[s] \in {"expire", "expireError", "keys"} => \A x \in batch'[s] : Retired(x[1])'
        /\ \A x \in todo'[s] : state'[x[1]] # "unused"
    BY <1>0, <1>r, <2>3, PairsForward
  <2>8. Entitled(s)
    BY <2>3, <2>4, <2>6, <2>7 DEF Entitled, Starting
  <2> QED BY <2>1, <2>2, <2>8 DEF ProcessMove
<1>3. CASE DeleteExpired(s)
  BY <1>0, <1>r, <1>3, LeaveMove DEF DeleteExpired, ProcessMove, Authorised
<1>4. CASE SweepAdvance(s)
  <2>1. Authorised(s) BY <1>4 DEF SweepAdvance, Authorised
  <2>2. \A q \in Process \ {s} : Same(q)
    BY <1>4 DEF SweepAdvance, Same, Typed, TypeOK, LocalTypeOK
  <2>3. /\ pc'[s] \in {"idle", "listUnreferenced", "listKeys", "listUploads"}
        /\ task'[s] = "none" /\ todo'[s] = {}
    BY <1>0, <1>4 DEF SweepAdvance, Typed, TypeOK, LocalTypeOK
  <2> QED BY <2>1, <2>2, <2>3 DEF ProcessMove, Entitled, Starting
<1>5. CASE SweepUnreferenced(s)
  BY <1>0, <1>5, EnterPhaseMove DEF SweepUnreferenced, ProcessMove, Authorised
<1>6. CASE ListKeys(s)
  <2> PICK K \in SUBSET {i \in Id : stored[i] # NoBlob} :
         EnterPhase(s, "keys", {}, K \X {NoUpload})
    BY <1>6 DEF ListKeys
  <2>1. \A x \in K \X {NoUpload} : state'[x[1]] # "unused"
    BY <1>0, <1>6, <1>s DEF ListKeys, UnusedIsFresh
  <2>2. Authorised(s) BY <1>6 DEF ListKeys, Authorised
  <2> QED BY <1>0, <2>1, <2>2, EnterPhaseMove DEF ProcessMove
<1>7. CASE ListUploads(s)
  <2> PICK U \in SUBSET {u \in UploadId : upStatus[u] = "open"} :
         EnterPhase(s, "uploads", {}, {<<upKey[u], u>> : u \in U})
    BY <1>7 DEF ListUploads
  <2>1. \A u \in U : upKey[u] \in Id /\ KeyUsed(upKey[u])
    BY DEF Typed, UploadKeysOK, KeyUsed, Used
  <2>2. \A u \in U : state[upKey[u]] # "unused"
    BY <1>0, <2>1 DEF UnusedIsFresh
  <2>3. \A x \in {<<upKey[u], u>> : u \in U} : state'[x[1]] # "unused"
    BY <1>7, <1>s, <2>2 DEF ListUploads
  <2>4. Authorised(s) BY <1>7 DEF ListUploads, Authorised
  <2> QED BY <1>0, <2>3, <2>4, EnterPhaseMove DEF ProcessMove
<1>8. CASE SweepOwners(s)
  <2>1. Authorised(s) BY <1>8 DEF SweepOwners, Authorised
  <2>2. \A q \in Process \ {s} : Same(q)
    BY <1>8 DEF SweepOwners, Same, Typed, TypeOK, LocalTypeOK
  <2>3. pc'[s] = "next" /\ task' = task /\ state' = state
    BY <1>8, <1>s DEF SweepOwners
  <2>4. /\ todo'[s] \subseteq todo[s]
        /\ \A t \in batch'[s] : t \in todo[s] /\ ~Owned(s, t)
    BY <1>0, <1>8 DEF SweepOwners, Typed, TypeOK, LocalTypeOK
  <2>5. \A t \in todo[s] : t[1] \in Id /\ state[t[1]] # "unused"
    BY <1>0 DEF Typed, TypeOK, LocalTypeOK, Pair, RemovalOK
  <2>6. task[s] # "uploads" => \A t \in batch'[s] : ~Visible(t[1])
    BY <2>4 DEF Owned
  <2>7. task[s] # "uploads" => \A t \in batch'[s] : Retired(t[1])
    BY <2>4, <2>5, <2>6 DEF Visible, Retired, Typed, TypeOK, RegistryTypeOK
  <2>8. task[s] # "uploads" => \A t \in batch'[s] : Retired(t[1])'
    BY <2>3, <2>7 DEF Retired
  <2> QED BY <2>1, <2>2, <2>3, <2>4, <2>5, <2>8 DEF ProcessMove, Entitled, Starting
<1>9. CASE DeleteRow(s) \/ Abort(s) \/ DeleteBytes(s)
  BY <1>0, <1>9, RequestMove DEF RequestStep
<1> QED BY <1>1, <1>2, <1>3, <1>4, <1>5, <1>6, <1>7, <1>8, <1>9 DEF SweeperStep

(* What clients do to storage on their own.                                 *)
ClientMove ==
    /\ UNCHANGED localVars
    /\ \/ UNCHANGED storageVars
       \/ \E i \in caps, b \in Body : PutAdmits(content[i], b) /\ Put(i, b)
       \/ \E i \in Id : ExpireCap(i)
       \/ \E u \in UploadId : UploadPart(u) \/ ExpirePartCap(u)

(* A request that starts uploads takes up an id nobody used before.         *)
LEMMA CallMove ==
  ASSUME Typed, Consistent, NEW p \in Request, RequestCalled(p)
  PROVE  ProcessMove(p) \/ ClientMove
<1>0. RemovalOK /\ RegistryStep /\ UNCHANGED storageVars /\ p \in Process
  BY CallEffect DEF Consistent, Process
<1>a. Authorised(p)
  BY <1>0 DEF Authorised
<1>1. CASE \E i \in Id, pf \in Prefix, c \in Content : Begin(p, i, pf, c) \/ BeginDirect(p, i, pf, c)
  <2> PICK i \in Id, pf \in Prefix, c \in Content, l \in {"sign", "createMPU"} :
         Reserve(p, i, pf, c, l) /\ (l = "createMPU" => Backend = "s3")
    BY <1>1 DEF Begin, BeginDirect, Multipart
  <2>1. state[i] = "unused" /\ state'[i] = "pending"
    BY DEF Reserve, CreatePending, Typed, TypeOK, RegistryTypeOK
  <2>2. CASE UNCHANGED localVars
    BY <1>0, <2>2 DEF ClientMove
  <2>3. CASE Start(p, i, l, "begin")
    BY <1>0, <1>a, <2>1, <2>3, StartMove DEF ProcessMove
  <2> QED BY <2>2, <2>3 DEF Reserve
<1>2. CASE \E i \in Id, pf \in Prefix, b \in Body : Write(p, i, pf, b)
  <2> PICK i \in Id, pf \in Prefix, b \in Body : Write(p, i, pf, b)
    BY <1>2
  <2>1. state[i] = "unused" /\ state'[i] = "pending" /\ content'[i] = Digest[b]
    BY DEF Write, CreatePending, Typed, TypeOK, RegistryTypeOK
  <2>2. CASE UNCHANGED localVars
    BY <1>0, <2>2 DEF ClientMove
  <2>3. CASE ~UNCHANGED localVars
    <3>1. /\ pc'[p] = "put" /\ task'[p] = "write" /\ obj'[p] = i /\ seen'[p] = b
          /\ batch' = batch /\ todo' = todo
      BY <1>0, <2>3 DEF Write, Typed, TypeOK, LocalTypeOK
    <3>2. \A q \in Process \ {p} : Same(q)
      BY <1>0, <2>3 DEF Write, Same, Typed, TypeOK, LocalTypeOK
    <3>3. Entitled(p)
      BY <1>0, <2>1, <3>1, PairsForward DEF Entitled, Starting
    <3> QED BY <1>a, <3>2, <3>3 DEF ProcessMove
  <2> QED BY <2>2, <2>3
<1>3. CASE \E i \in Id, pf \in Prefix :
             Finalize(p, i, pf) \/ PresignPart(p, i, pf) \/ DeleteObject(p, i, pf)
  BY <1>0, <1>a, <1>3, StartMove DEF Finalize, PresignPart, DeleteObject, ProcessMove
<1>4. CASE \E i \in Id : DeleteUnreferenced(p, i)
  BY <1>0, <1>a, <1>4, StartMove DEF DeleteUnreferenced, ProcessMove
<1> QED BY <1>1, <1>2, <1>3, <1>4 DEF RequestCalled

(* A crash takes a process out and entitles it to nothing.                  *)
LEMMA CrashMove ==
  ASSUME Typed, NEW p \in Process, Crash(p)
  PROVE  ProcessMove(p)
<1>1. Authorised(p)
  BY DEF Crash, Authorised
<1>2. \A q \in Process \ {p} : Same(q)
  BY DEF Crash, Same, Typed, TypeOK, LocalTypeOK
<1>3. pc'[p] = "idle" /\ task'[p] = "none" /\ todo'[p] = {}
  BY DEF Crash, Typed, TypeOK, LocalTypeOK
<1> QED BY <1>1, <1>2, <1>3 DEF ProcessMove, Entitled, Starting

(* Every step is the move of one process, or of a client.                   *)
LEMMA NextMove ==
  ASSUME Typed, Consistent, [Next]_vars
  PROVE  ClientMove \/ \E p \in Process : ProcessMove(p)
<1>1. CASE \E p \in Request : RequestCalled(p) \/ RequestStep(p)
  BY <1>1, CallMove, RequestMove DEF Process
<1>2. CASE \E s \in Sweeper : SweeperStep(s)
  BY <1>2, SweeperMove DEF Process
<1>3. CASE \E p \in Process : Crash(p)
  BY <1>3, CrashMove
<1>4. CASE ClientNext
  BY <1>4 DEF ClientNext, ClientMove, PutDirect
<1>5. CASE ApplicationNext \/ BecomeReliable \/ UNCHANGED vars
  BY <1>5 DEF ApplicationNext, BecomeReliable, vars, ClientMove
<1> QED BY <1>1, <1>2, <1>3, <1>4, <1>5 DEF Next, ProcessNext

-----------------------------------------------------------------------------
(* The same step seen from storage, with the owner of each change replaced  *)
(* by what its authority says of the key.                                   *)
StorageMove ==
    \/ UNCHANGED <<stored, upStatus, upKey>> /\ caps' \subseteq caps
    \/ \E i \in Id : state[i] # "unused" /\ ~KeyUsed(i) /\ Outstanding(i)
    \/ \E i \in Id, b \in Body : /\ state[i] # "unused" /\ ~KeyUsed(i)
                               /\ PutAdmits(content[i], b) /\ Put(i, b)
    \/ \E i \in Id : Retired(i) /\ DeleteKey(i)
    \/ \E i \in Id, u \in UploadId :
         /\ Backend = "s3"
         /\ state[i] # "unused" /\ ~KeyUsed(i) /\ i \notin caps /\ stored[i] = NoBlob
         /\ CreateMultipartUpload(i, u)
    \/ \E u \in UploadId : AbortMultipartUpload(u)
    \/ \E u \in UploadId, b \in Body : CompleteUpload(u, b)

(* Whatever changes storage, a process or a client, had the right to.       *)
LEMMA MoveOnStorage ==
  ASSUME Typed, Consistent, ClientMove \/ \E p \in Process : ProcessMove(p)
  PROVE  StorageMove
<1>0. StartersOK /\ KeysOK /\ UnusedIsFresh
  BY DEF Consistent
<1>1. CASE ClientMove
  <2>1. CASE \E i \in caps, b \in Body : PutAdmits(content[i], b) /\ Put(i, b)
    <3> PICK i \in caps, b \in Body : PutAdmits(content[i], b) /\ Put(i, b)
      BY <2>1
    <3>1. i \in Id /\ ~KeyUsed(i) /\ state[i] # "unused"
      BY <1>0 DEF KeysOK, UnusedIsFresh, Typed, TypeOK, StorageTypeOK
    <3> QED BY <3>1 DEF StorageMove
  <2>2. CASE ~\E i \in caps, b \in Body : PutAdmits(content[i], b) /\ Put(i, b)
    BY <1>1, <2>2 DEF ClientMove, StorageMove, ExpireCap, UploadPart, ExpirePartCap, storageVars
  <2> QED BY <2>1, <2>2
<1>2. CASE \E p \in Process : ProcessMove(p)
  <2> PICK p \in Process : ProcessMove(p)
    BY <1>2
  <2>1. Starting(p) => obj[p] \in Id /\ state[obj[p]] # "unused" /\ ~KeyUsed(obj[p])
    BY <1>0 DEF StartersOK, Starting, Typed, LocalsOK, Busy
  <2>2. CASE pc[p] \in {"sign", "put"} /\ Outstanding(obj[p])
    BY <2>1, <2>2 DEF Starting, StorageMove
  <2>3. CASE pc[p] = "put" /\ Put(obj[p], seen[p])
    <3>1. seen[p] \in Body /\ content[obj[p]] = Digest[seen[p]]
      BY <1>0, <2>3 DEF StartersOK, Typed, LocalsOK
    <3>2. PutAdmits(content[obj[p]], seen[p])
      BY <3>1 DEF PutAdmits
    <3> QED BY <2>1, <2>3, <3>1, <3>2 DEF Starting, StorageMove
  <2>4. CASE pc[p] = "createMPU" /\ \E u \in UploadId : CreateMultipartUpload(obj[p], u)
    <3>1. Backend = "s3" /\ obj[p] \notin caps /\ stored[obj[p]] = NoBlob
      BY <1>0, <2>4 DEF StartersOK
    <3> QED BY <2>1, <2>4, <3>1 DEF Starting, StorageMove
  <2>5. CASE \/ UNCHANGED storageVars
             \/ Retired(obj[p]) /\ obj[p] \in Id /\ DeleteKey(obj[p])
             \/ \E u \in UploadId : PresignMultipartPart(u) \/ AbortMultipartUpload(u)
             \/ \E u \in UploadId, b \in Body : CompleteUpload(u, b)
    BY <2>5 DEF StorageMove, PresignMultipartPart, storageVars
  <2> QED BY <2>2, <2>3, <2>4, <2>5 DEF ProcessMove, Authorised
<1> QED BY <1>1, <1>2

(* How one key may change: its upload route is chosen once, and its bytes   *)
(* arrive by that route alone or go because the object is retired.          *)
KeyMove(i) ==
    /\ KeyUsed(i) => KeyUsed(i)'
    /\ KeyUsed(i)' /\ ~KeyUsed(i) =>
          state[i] # "unused" /\ i \notin caps' /\ stored[i] = NoBlob /\ stored'[i] = NoBlob
    /\ i \in caps' /\ i \notin caps => state[i] # "unused" /\ ~KeyUsed(i) /\ ~KeyUsed(i)'
    /\ \/ stored'[i] = stored[i]
       \/ stored'[i] = NoBlob /\ Retired(i)
       \/ /\ state[i] # "unused" /\ ~KeyUsed(i) /\ ~KeyUsed(i)'
          /\ \E b \in Body : /\ PutAdmits(content[i], b)
                             /\ stored'[i] = [body |-> b, sum |-> "SHA256"]
       \/ /\ stored[i] = NoBlob /\ KeyUsed(i)
          /\ \E b \in Body : stored'[i] = [body |-> b, sum |-> "CRC64NVME"]

(* Every change of storage changes each key in one of these ways.           *)
LEMMA KeysMove ==
  ASSUME Typed, UploadsOK, StorageMove, NEW i \in Id
  PROVE  KeyMove(i)
<1> USE DEF Typed, TypeOK, StorageTypeOK
<1>1. CASE \/ UNCHANGED <<stored, upStatus, upKey>> /\ caps' \subseteq caps
           \/ \E j \in Id : state[j] # "unused" /\ ~KeyUsed(j) /\ Outstanding(j)
  BY <1>1 DEF KeyMove, KeyUsed, Used, Outstanding
<1>2. CASE \E j \in Id, b \in Body : /\ state[j] # "unused" /\ ~KeyUsed(j)
                                   /\ PutAdmits(content[j], b) /\ Put(j, b)
  <2> PICK j \in Id, b \in Body : /\ state[j] # "unused" /\ ~KeyUsed(j)
                                 /\ PutAdmits(content[j], b) /\ Put(j, b)
    BY <1>2
  <2>1. /\ KeyUsed(i)' <=> KeyUsed(i)
        /\ caps' = caps
        /\ stored'[i] = IF i = j THEN [body |-> b, sum |-> "SHA256"] ELSE stored[i]
    BY DEF Put, KeyUsed, Used
  <2> QED BY <2>1 DEF KeyMove
<1>3. CASE \E j \in Id : Retired(j) /\ DeleteKey(j)
  BY <1>3 DEF KeyMove, KeyUsed, Used, DeleteKey
<1>4. CASE \E j \in Id, u \in UploadId :
             /\ Backend = "s3"
             /\ state[j] # "unused" /\ ~KeyUsed(j) /\ j \notin caps /\ stored[j] = NoBlob
             /\ CreateMultipartUpload(j, u)
  <2> PICK j \in Id, u \in UploadId :
             /\ state[j] # "unused" /\ ~KeyUsed(j) /\ j \notin caps /\ stored[j] = NoBlob
             /\ CreateMultipartUpload(j, u)
    BY <1>4
  <2>1. stored' = stored /\ caps' = caps
    BY DEF CreateMultipartUpload
  <2>2. KeyUsed(i)' <=> KeyUsed(i) \/ i = j
    BY DEF CreateMultipartUpload, KeyUsed, Used
  <2> QED BY <2>1, <2>2 DEF KeyMove
<1>5. CASE \E u \in UploadId : AbortMultipartUpload(u)
  BY <1>5 DEF KeyMove, KeyUsed, Used, AbortMultipartUpload, CloseUpload
<1>6. CASE \E u \in UploadId, b \in Body : CompleteUpload(u, b)
  <2> PICK u \in UploadId, b \in Body : CompleteUpload(u, b)
    BY <1>6
  <2>1. caps' = caps /\ (KeyUsed(i)' <=> KeyUsed(i))
    BY DEF CompleteUpload, CloseUpload, KeyUsed, Used
  <2>2. KeyUsed(upKey[u]) /\ stored[upKey[u]] = NoBlob
    BY DEF CompleteUpload, KeyUsed, Used, UploadsOK
  <2>3. stored'[i] = IF i = upKey[u] THEN [body |-> b, sum |-> "CRC64NVME"] ELSE stored[i]
    BY DEF CompleteUpload
  <2> QED BY <2>1, <2>2, <2>3 DEF KeyMove
<1> QED BY <1>1, <1>2, <1>3, <1>4, <1>5, <1>6 DEF StorageMove

(* Only MarkAvailable, called by Finalize or Write, publishes an object.    *)
LEMMA Publisher ==
  ASSUME Typed, [Next]_vars, NEW i \in Id, state[i] # "available", state'[i] = "available"
  PROVE  \E p \in Process : pc[p] = "mark" /\ obj[p] = i /\ UNCHANGED storageVars
<1> USE DEF Typed, TypeOK, RegistryTypeOK
<1>s. ~UNCHANGED registryVars
  BY DEF registryVars
<1>d. ASSUME NEW j, Delete(j) \/ DeleteExpiredPending(j) \/ RefreshPending(j)
      PROVE  FALSE
  BY <1>d DEF Delete, DeleteExpiredPending, RemoveRow, RefreshPending
<1>m. ASSUME NEW j, NEW u, RecordMultipartUploadID(j, u) \/ ClearMultipartUploadID(j, u)
      PROVE  FALSE
  BY <1>m DEF RecordMultipartUploadID, ClearMultipartUploadID
<1>1. ASSUME NEW p \in Process, Mark(p)
      PROVE  pc[p] = "mark" /\ obj[p] = i /\ UNCHANGED storageVars
  BY <1>s, <1>1 DEF Mark, MarkAvailable
<1>2. ASSUME NEW p \in Process, RequestStep(p), ~Mark(p)
      PROVE  FALSE
  BY <1>s, <1>d, <1>m, <1>2 DEF RequestStep, Sign, CreateMPU, RecordMPU, RecordAbort, DeleteGet,
     WritePut, MarkGet, WriteDelete, Return, Refresh, Reget, ListParts, Complete, Clear, ClearGet,
     Verify, Head, PartRefresh, DeleteRow, Abort, DeleteBytes
<1>3. ASSUME NEW p \in Process, SweeperStep(p)
      PROVE  FALSE
  <2>1. ASSUME NEW B, ClaimExpiredPending(B) PROVE FALSE
    BY <2>1 DEF ClaimExpiredPending
  <2> QED BY <1>s, <1>d, <1>3, <2>1 DEF SweeperStep, SweepClaim, SweepTake, DeleteExpired,
         SweepAdvance, SweepUnreferenced, ListKeys, ListUploads, SweepOwners, DeleteRow, Abort,
         DeleteBytes
<1>4. ASSUME NEW p \in Process, RequestCalled(p)
      PROVE  FALSE
  BY <1>s, <1>4 DEF RequestCalled, Begin, BeginDirect, Reserve, Write, Finalize, PresignPart,
     DeleteObject, DeleteUnreferenced, CreatePending
<1>5. ASSUME ApplicationNext PROVE FALSE
  BY <1>5 DEF ApplicationNext, Attach, Detach, Age
<1>6. ASSUME ClientNext \/ BecomeReliable \/ UNCHANGED vars \/ \E p \in Process : Crash(p)
      PROVE  FALSE
  BY <1>s, <1>6 DEF ClientNext, BecomeReliable, vars, Crash
<1> QED BY <1>1, <1>2, <1>3, <1>4, <1>5, <1>6 DEF Next, ProcessNext, Process

-----------------------------------------------------------------------------
(* What every step gives the proof that the invariant is preserved.         *)
Step ==
    /\ Typed /\ Typed' /\ Consistent
    /\ RegistryStep /\ StorageMove
    /\ ClientMove \/ \E p \in Process : ProcessMove(p)

(* Every step of Next is such a step.                                       *)
LEMMA StepFacts == Typed /\ Consistent /\ [Next]_vars => Step
BY TypedNext, NextEffect, NextMove, MoveOnStorage DEF Step

(* An id that is still unused stays without a trace.                        *)
LEMMA FreshStep == Step => UnusedIsFresh'
<1> SUFFICES ASSUME Step, NEW i \in Id, state'[i] = "unused"
             PROVE  i \notin caps' /\ stored'[i] = NoBlob /\ ~KeyUsed(i)'
  BY DEF UnusedIsFresh
<1>1. state[i] = "unused"
  BY RowsForward DEF Step
<1>2. i \notin caps /\ stored[i] = NoBlob /\ ~KeyUsed(i)
  BY <1>1 DEF Step, Consistent, UnusedIsFresh
<1>3. KeyMove(i)
  BY KeysMove DEF Step, Consistent
<1> QED BY <1>1, <1>2, <1>3 DEF KeyMove, Retired

(* No object gets a second upload, and no upload stays open over bytes.     *)
LEMMA UploadsStep == Step => UploadsOK'
<1> SUFFICES ASSUME Step PROVE UploadsOK'
  OBVIOUS
<1>0. Typed /\ UploadsOK /\ StorageMove /\ UploadKeysOK
  BY DEF Step, Consistent
<1> USE DEF Typed, TypeOK, StorageTypeOK
<1>1. CASE \/ UNCHANGED <<stored, upStatus, upKey>> /\ caps' \subseteq caps
           \/ \E j \in Id : state[j] # "unused" /\ ~KeyUsed(j) /\ Outstanding(j)
  BY <1>0, <1>1 DEF UploadsOK, Used, Outstanding
<1>2. CASE \E j \in Id, b \in Body : /\ state[j] # "unused" /\ ~KeyUsed(j)
                                   /\ PutAdmits(content[j], b) /\ Put(j, b)
  BY <1>0, <1>2 DEF UploadsOK, UploadKeysOK, KeyUsed, Used, Put
<1>3. CASE \E j \in Id : Retired(j) /\ DeleteKey(j)
  BY <1>0, <1>3 DEF UploadsOK, UploadKeysOK, Used, DeleteKey
<1>4. CASE \E j \in Id, u \in UploadId :
             /\ Backend = "s3"
             /\ state[j] # "unused" /\ ~KeyUsed(j) /\ j \notin caps /\ stored[j] = NoBlob
             /\ CreateMultipartUpload(j, u)
  BY <1>0, <1>4 DEF UploadsOK, UploadKeysOK, KeyUsed, Used, CreateMultipartUpload
<1>5. CASE \E u \in UploadId : AbortMultipartUpload(u)
  BY <1>0, <1>5 DEF UploadsOK, UploadKeysOK, Used, AbortMultipartUpload, CloseUpload
<1>6. CASE \E u \in UploadId, b \in Body : CompleteUpload(u, b)
  <2> PICK u \in UploadId, b \in Body : CompleteUpload(u, b)
    BY <1>6
  <2>1. /\ upKey' = upKey /\ upStatus[u] = "open"
        /\ \A v \in UploadId : upStatus'[v] = IF v = u THEN "closed" ELSE upStatus[v]
        /\ \A i \in Id : i # upKey[u] => stored'[i] = stored[i]
    BY <1>0 DEF CompleteUpload, CloseUpload
  <2>2. ASSUME NEW v \in UploadId, upStatus'[v] = "open" PROVE stored'[upKey'[v]] = NoBlob
    <3>1. upStatus[v] = "open" /\ v # u /\ upKey[v] # upKey[u] /\ upKey[v] \in Id
      BY <1>0, <2>1, <2>2 DEF UploadsOK, UploadKeysOK, Used
    <3> QED BY <1>0, <2>1, <3>1 DEF UploadsOK
  <2> QED BY <1>0, <2>1, <2>2 DEF UploadsOK, Used
<1> QED BY <1>0, <1>1, <1>2, <1>3, <1>4, <1>5, <1>6 DEF StorageMove

(* No key is reached by both routes.                                        *)
LEMMA KeysStep == Step => KeysOK'
<1> SUFFICES ASSUME Step PROVE KeysOK'
  OBVIOUS
<1>0. Typed /\ KeysOK /\ UnusedIsFresh
  BY DEF Step, Consistent
<1>1. \A i \in Id : KeyMove(i)
  BY KeysMove DEF Step, Consistent
<1>2. \A i \in Id : state[i] # "unused" => content'[i] = content[i]
  BY RowsForward DEF Step
<1>3. \A i \in caps' : ~KeyUsed(i)'
  BY <1>0, <1>1 DEF KeysOK, KeyMove, Step, Typed, TypeOK, StorageTypeOK
<1>4. ASSUME NEW i \in Id, stored'[i] # NoBlob
      PROVE  IF stored'[i].sum = "SHA256"
             THEN PutAdmits(content'[i], stored'[i].body) /\ ~KeyUsed(i)'
             ELSE KeyUsed(i)'
  <2>1. CASE stored'[i] = stored[i]
    <3>1. content'[i] = content[i] /\ (KeyUsed(i)' <=> KeyUsed(i))
      BY <1>0, <1>1, <1>2, <1>4, <2>1 DEF KeyMove, UnusedIsFresh
    <3> QED BY <1>0, <1>4, <2>1, <3>1 DEF KeysOK
  <2>2. CASE /\ state[i] # "unused" /\ ~KeyUsed(i)'
             /\ \E b \in Body : /\ PutAdmits(content[i], b)
                                /\ stored'[i] = [body |-> b, sum |-> "SHA256"]
    <3> PICK b \in Body : PutAdmits(content[i], b) /\ stored'[i] = [body |-> b, sum |-> "SHA256"]
      BY <2>2
    <3>1. stored'[i].sum = "SHA256" /\ stored'[i].body = b
      OBVIOUS
    <3> QED BY <1>2, <2>2, <3>1
  <2>3. CASE KeyUsed(i)' /\ \E b \in Body : stored'[i] = [body |-> b, sum |-> "CRC64NVME"]
    BY <2>3
  <2> QED BY <1>1, <1>4, <2>1, <2>2, <2>3 DEF KeyMove
<1> QED BY <1>3, <1>4 DEF KeysOK, PutAdmits

(* The object a process has just reserved is its own, and nobody else       *)
(* touches the key of an object that is being started.                      *)
LEMMA StartersStep == Step => StartersOK'
<1> SUFFICES ASSUME Step PROVE StartersOK'
  OBVIOUS
<1>0. Typed /\ Typed' /\ StartersOK /\ KeysOK /\ UnusedIsFresh /\ UploadKeysOK
  BY DEF Step, Consistent
<1>k. \A i \in Id : KeyMove(i)
  BY KeysMove DEF Step, Consistent
<1>r. \A i \in Id : state[i] # "unused" => state'[i] # "unused" /\ content'[i] = content[i]
  BY RowsForward DEF Step
<1>b. \A q \in Process : /\ Starting(q) \/ pc[q] \in {"markGet", "writeDelete"} => obj[q] \in Id
                         /\ Starting(q)' => obj'[q] \in Id
  BY <1>0 DEF Starting, Typed, LocalsOK, Busy
(* A process that did not move, with the one that did, if any.              *)
<1>1. ASSUME NEW q \in Process, NEW i \in Id, i = obj[q], Starting(q),
             ClientMove \/ \E p \in Process \ {q} : ProcessMove(p)
      PROVE  /\ ~KeyUsed(i)'
             /\ pc[q] = "createMPU" => i \notin caps' /\ stored'[i] = NoBlob
  <2>0. /\ ~KeyUsed(i) /\ state[i] # "unused"
        /\ pc[q] = "createMPU" => i \notin caps /\ stored[i] = NoBlob
    BY <1>0, <1>b, <1>1 DEF StartersOK
  <2>1. CASE ClientMove
    <3>1. upStatus' = upStatus /\ upKey' = upKey /\ caps' \subseteq caps
      BY <2>1 DEF ClientMove, Put, ExpireCap, UploadPart, ExpirePartCap, storageVars
    <3>2. i \notin caps => stored'[i] = stored[i]
      BY <1>0, <2>0, <2>1 DEF ClientMove, Put, ExpireCap, UploadPart, ExpirePartCap, storageVars,
         Typed, TypeOK, StorageTypeOK
    <3> QED BY <2>0, <3>1, <3>2 DEF KeyUsed, Used
  <2>2. CASE \E p \in Process \ {q} : ProcessMove(p)
    <3> PICK p \in Process \ {q} : ProcessMove(p)
      BY <2>2
    <3>1. Starting(p) => obj[p] # i
      BY <1>0, <1>1 DEF StartersOK
    <3>2. Authorised(p)
      BY DEF ProcessMove
    <3>3. CASE UNCHANGED storageVars
      BY <2>0, <3>3 DEF storageVars, KeyUsed, Used
    <3>4. CASE pc[p] \in {"sign", "put"} /\ Outstanding(obj[p])
      BY <2>0, <3>1, <3>4 DEF Starting, Outstanding, KeyUsed, Used
    <3>5. CASE pc[p] = "put" /\ Put(obj[p], seen[p])
      BY <1>0, <2>0, <3>1, <3>5 DEF Starting, Put, KeyUsed, Used, Typed, TypeOK, StorageTypeOK
    <3>6. CASE Retired(obj[p]) /\ obj[p] \in Id /\ DeleteKey(obj[p])
      BY <1>0, <2>0, <3>6 DEF DeleteKey, KeyUsed, Used, Typed, TypeOK, StorageTypeOK
    <3>7. CASE pc[p] = "createMPU" /\ \E u \in UploadId : CreateMultipartUpload(obj[p], u)
      BY <1>0, <2>0, <3>1, <3>7 DEF Starting, CreateMultipartUpload, KeyUsed, Used, Typed, TypeOK,
         StorageTypeOK
    <3>8. CASE \E u \in UploadId : PresignMultipartPart(u) \/ AbortMultipartUpload(u)
      BY <1>0, <2>0, <3>8 DEF PresignMultipartPart, AbortMultipartUpload, CloseUpload, KeyUsed,
         Used, Typed, TypeOK, StorageTypeOK
    <3>9. CASE \E u \in UploadId, b \in Body : CompleteUpload(u, b)
      BY <1>0, <2>0, <3>9 DEF CompleteUpload, CloseUpload, KeyUsed, Used, Typed, TypeOK,
         StorageTypeOK
    <3> QED BY <3>2, <3>3, <3>4, <3>5, <3>6, <3>7, <3>8, <3>9 DEF Authorised
  <2> QED BY <1>1, <2>1, <2>2
(* The process that moved.                                                  *)
<1>2. ASSUME NEW p \in Process, ProcessMove(p), Starting(p)'
      PROVE  /\ ~KeyUsed(obj[p])' /\ state[obj'[p]] = "unused" /\ state'[obj'[p]] = "pending"
             /\ obj'[p] \notin caps' /\ stored'[obj'[p]] = NoBlob
  <2>1. /\ UNCHANGED storageVars
        /\ state[obj'[p]] = "unused" /\ state'[obj'[p]] = "pending"
    BY <1>2 DEF ProcessMove, Entitled
  <2>2. obj'[p] \in Id
    BY <1>b, <1>2
  <2>3. ~KeyUsed(obj'[p]) /\ obj'[p] \notin caps /\ stored[obj'[p]] = NoBlob
    BY <1>0, <2>1, <2>2 DEF UnusedIsFresh
  <2> QED BY <2>1, <2>3 DEF storageVars, KeyUsed, Used
<1>3. ASSUME NEW q \in Process
      PROVE  \/ Same(q) /\ (ClientMove \/ \E p \in Process \ {q} : ProcessMove(p))
             \/ ProcessMove(q)
  BY DEF Step, ClientMove, ProcessMove, Same, localVars
<1>4. \A q \in Process : Starting(q)' => state'[obj'[q]] # "unused" /\ ~KeyUsed(obj[q])'
  <2> SUFFICES ASSUME NEW q \in Process, Starting(q)'
               PROVE  state'[obj'[q]] # "unused" /\ ~KeyUsed(obj[q])'
    OBVIOUS
  <2>1. CASE ProcessMove(q) BY <1>2, <2>1
  <2>2. CASE Same(q) /\ (ClientMove \/ \E p \in Process \ {q} : ProcessMove(p))
    <3>1. Starting(q) /\ obj'[q] = obj[q] /\ obj[q] \in Id
      BY <1>b, <2>2 DEF Same, Starting
    <3>2. \A i \in Id : i = obj[q] => ~KeyUsed(i)'
      BY <1>1, <2>2, <3>1
    <3> QED BY <1>0, <1>r, <3>1, <3>2 DEF StartersOK, KeyUsed
  <2> QED BY <1>3, <2>1, <2>2
<1>5. \A q \in Process : pc'[q] \in {"markGet", "writeDelete"} => state'[obj'[q]] # "unused"
  BY <1>0, <1>3, <1>r, <1>b DEF ProcessMove, Entitled, Same, StartersOK
<1>6. \A q \in Process : pc'[q] = "createMPU" =>
          Backend = "s3" /\ obj'[q] \notin caps' /\ stored'[obj'[q]] = NoBlob
  <2> SUFFICES ASSUME NEW q \in Process, pc'[q] = "createMPU"
               PROVE  Backend = "s3" /\ obj'[q] \notin caps' /\ stored'[obj'[q]] = NoBlob
    OBVIOUS
  <2>1. CASE ProcessMove(q) BY <1>2, <2>1 DEF Starting, ProcessMove, Entitled
  <2>2. CASE Same(q) /\ (ClientMove \/ \E p \in Process \ {q} : ProcessMove(p))
    BY <1>0, <1>1, <1>b, <2>2 DEF Same, Starting, StartersOK
  <2> QED BY <1>3, <2>1, <2>2
<1>7. \A q \in Process : pc'[q] = "put" => content'[obj'[q]] = Digest[seen'[q]]
  <2> SUFFICES ASSUME NEW q \in Process, pc'[q] = "put"
               PROVE  content'[obj'[q]] = Digest[seen'[q]]
    OBVIOUS
  <2>1. CASE ProcessMove(q) BY <2>1 DEF ProcessMove, Entitled
  <2>2. CASE Same(q)
    BY <1>0, <1>b, <1>r, <2>2 DEF Same, Starting, StartersOK
  <2> QED BY <1>3, <2>1, <2>2
<1>8. ASSUME NEW p \in Process, NEW q \in Process, Starting(p)', Starting(q)', obj'[p] = obj'[q]
      PROVE  p = q
  <2>1. ASSUME NEW x \in Process, NEW y \in Process, x # y, ProcessMove(x), Starting(x)',
               Starting(y)', obj'[x] = obj'[y]
        PROVE  FALSE
    <3>1. Same(y) BY <2>1 DEF ProcessMove
    <3>2. Starting(y) /\ obj'[y] = obj[y]
      BY <2>1, <3>1 DEF Same, Starting
    <3> QED BY <1>0, <1>2, <2>1, <3>2 DEF StartersOK
  <2>2. CASE Same(p) /\ Same(q)
    BY <1>0, <1>8, <2>2 DEF Same, Starting, StartersOK
  <2> QED BY <1>3, <1>8, <2>1, <2>2
<1> QED BY <1>4, <1>5, <1>6, <1>7, <1>8 DEF StartersOK

(* A key that holds what was declared goes on holding it until the object   *)
(* is retired.                                                              *)
LEMMA HoldsForward ==
  ASSUME Step, NEW i \in Id, Retired(i) \/ Holds(i)
  PROVE  (Retired(i) \/ Holds(i))'
<1>1. CASE Retired(i)
  BY <1>1, RowsForward DEF Step
<1>2. CASE Holds(i) /\ ~Retired(i)
  <2>1. KeyMove(i) /\ Typed /\ Typed' /\ UnusedIsFresh
    BY KeysMove DEF Step, Consistent
  <2>2. content'[i] = content[i]
    BY <1>2, <2>1, RowsForward DEF Step, Holds, UnusedIsFresh
  <2>3. CASE stored'[i] = stored[i]
    BY <1>2, <2>2, <2>3 DEF Holds, Declared
  <2>4. CASE \E b \in Body : /\ PutAdmits(content[i], b)
                            /\ stored'[i] = [body |-> b, sum |-> "SHA256"]
    <3> PICK b \in Body : PutAdmits(content[i], b) /\ stored'[i] = [body |-> b, sum |-> "SHA256"]
      BY <2>4
    <3>1. stored'[i].sum = "SHA256" /\ stored'[i].body = b /\ stored'[i] \in Blob
      BY DEF Blob
    <3> QED BY <2>2, <3>1 DEF Holds, Declared, PutAdmits
  <2> QED BY <1>2, <2>1, <2>3, <2>4 DEF KeyMove, Holds
<1> QED BY <1>1, <1>2

(* What verify saw is still there when MarkAvailable is called, or the      *)
(* object is retired and MarkAvailable will refuse it.                      *)
LEMMA VerifiedStep == Step => VerifiedOK'
<1> SUFFICES ASSUME Step, NEW q \in Process, pc'[q] \in {"head", "mark"}
             PROVE  (Retired(obj[q]) \/ Holds(obj[q]))'
  BY DEF VerifiedOK, Holds
<1>1. CASE ProcessMove(q)
  BY <1>1 DEF ProcessMove, Entitled
<1>2. CASE Same(q)
  <2>1. pc[q] \in {"head", "mark"} /\ obj'[q] = obj[q] /\ obj[q] \in Id
    BY <1>2 DEF Same, Step, Typed, LocalsOK, Busy
  <2>2. Retired(obj[q]) \/ Holds(obj[q])
    BY <2>1 DEF Step, Consistent, VerifiedOK, Holds
  <2>3. \A i \in Id : Retired(i) \/ Holds(i) => (Retired(i) \/ Holds(i))'
    BY HoldsForward
  <2> QED BY <2>1, <2>2, <2>3 DEF Retired, Holds, Declared
<1> QED BY <1>1, <1>2 DEF Step, ClientMove, ProcessMove, Same, localVars

(* Only keys of retired objects are about to be emptied.                    *)
LEMMA RemovalStep == Step => RemovalOK'
<1> SUFFICES ASSUME Step, NEW q \in Process
             PROVE  /\ pc'[q] = "deleteKey" => Retired(obj[q])'
                    /\ pc'[q] = "abort" /\ task'[q] # "uploads" => Retired(obj[q])'
                    /\ task'[q] \in {"expire", "expireError", "keys"} =>
                           \A t \in batch'[q] : Retired(t[1])'
                    /\ \A t \in todo'[q] : state'[t[1]] # "unused"
  BY DEF RemovalOK
<1>1. CASE ProcessMove(q)
  BY <1>1 DEF ProcessMove, Entitled
<1>2. CASE Same(q)
  <2>0. Typed /\ RemovalOK /\ RegistryStep
    BY DEF Step, Consistent
  <2>1. pc[q] \in {"deleteKey", "abort"} => obj[q] \in Id
    BY <2>0 DEF Typed, LocalsOK, Busy
  <2>2. /\ pc[q] = "deleteKey" => Retired(obj[q])
        /\ pc[q] = "abort" /\ task[q] # "uploads" => Retired(obj[q])
    BY <2>0 DEF RemovalOK
  <2>3. \A i \in Id : Retired(i) => Retired(i)'
    BY <2>0, RowsForward
  <2>4. /\ pc'[q] = "deleteKey" => Retired(obj[q])'
        /\ pc'[q] = "abort" /\ task'[q] # "uploads" => Retired(obj[q])'
    BY <1>2, <2>1, <2>2, <2>3 DEF Same, Retired
  <2> QED BY <1>2, <2>0, <2>4, PairsForward DEF Same
<1> QED BY <1>1, <1>2 DEF Step, ClientMove, ProcessMove, Same, localVars

(* A row becomes available over the bytes that were verified, and keeps     *)
(* them.                                                                    *)
LEMMA PublishedBytesStep == Step /\ [Next]_vars => PublishedBytesIntact'
<1> SUFFICES ASSUME Step, [Next]_vars, NEW i \in Id, state'[i] = "available"
             PROVE  Holds(i)'
  BY DEF PublishedBytesIntact, Holds
<1>1. Holds(i) /\ ~Retired(i)
  <2>1. CASE state[i] = "available"
    BY <2>1 DEF Step, Consistent, PublishedBytesIntact, Holds, Retired
  <2>2. CASE state[i] # "available"
    <3> PICK p \in Process : pc[p] = "mark" /\ obj[p] = i
      BY <2>2, Publisher DEF Step
    <3>1. Retired(i) \/ Holds(i)
      BY DEF Step, Consistent, VerifiedOK, Holds
    <3>2. ~Retired(i)
      BY RowsForward DEF Step, Retired
    <3> QED BY <3>1, <3>2
  <2> QED BY <2>1, <2>2
<1>2. ~Retired(i)'
  BY DEF Retired
<1> QED BY <1>1, <1>2, HoldsForward

-----------------------------------------------------------------------------
(* The upload of an expired row is not changed any more, and what is used   *)
(* or closed stays so.                                                      *)
LEMMA ExpiredForward ==
  ASSUME Typed, RegistryStep, NEW i \in Id, state'[i] = "expired"
  PROVE  uploadID'[i] = uploadID[i] /\ (Retired(i) => state[i] = "expired")
<1> USE DEF Typed, TypeOK, RegistryTypeOK, Retired
<1>1. CASE \E j \in Id, u \in UploadId :
             RecordMultipartUploadID(j, u) \/ ClearMultipartUploadID(j, u)
  BY <1>1 DEF RecordMultipartUploadID, ClearMultipartUploadID, Active, Visible
<1>2. CASE \E j \in Id : Delete(j) \/ DeleteExpiredPending(j)
  BY <1>2 DEF Delete, DeleteExpiredPending, RemoveRow
<1>3. CASE \E B \in SUBSET Id : ClaimExpiredPending(B)
  BY <1>3 DEF ClaimExpiredPending, ClaimBatch, Retriable, Abandoned
<1>4. CASE \/ \E j \in Id, pf \in Prefix, c \in Content : CreatePending(j, pf, c)
           \/ \E j \in Id : MarkAvailable(j)
  BY <1>4 DEF CreatePending, MarkAvailable
<1>5. CASE \/ \E j \in Id : RefreshPending(j) \/ Attach(j) \/ Detach(j) \/ Age(j)
           \/ UNCHANGED registryVars
  BY <1>5 DEF RefreshPending, Attach, Detach, Age, registryVars
<1> QED BY <1>1, <1>2, <1>3, <1>4, <1>5 DEF RegistryStep

LEMMA UploadsForward ==
  ASSUME Typed, StorageMove, NEW u \in UploadId
  PROVE  (Used(u) => Used(u)') /\ (Gone(u) => Gone(u)')
BY DEF Typed, TypeOK, StorageTypeOK, StorageMove, Used, Gone, Outstanding, Put, DeleteKey,
       CreateMultipartUpload, AbortMultipartUpload, CompleteUpload, CloseUpload

(* An upload id enters a row only by RecordMPU,                             *)
LEMMA Recorder ==
  ASSUME Typed, [Next]_vars, NEW i \in Id, uploadID'[i] \notin {NoUpload, uploadID[i]}
  PROVE  \E p \in Process : pc[p] = "recordMPU" /\ uploadID'[i] = mpu[p]
<1> USE DEF Typed, TypeOK, RegistryTypeOK
<1>s. ~UNCHANGED registryVars
  BY DEF registryVars
<1>d. ASSUME NEW j, \/ Delete(j) \/ DeleteExpiredPending(j) \/ RefreshPending(j)
                   \/ MarkAvailable(j)
      PROVE  FALSE
  BY <1>d DEF Delete, DeleteExpiredPending, RemoveRow, RefreshPending, MarkAvailable
<1>m. ASSUME NEW j, NEW u, ClearMultipartUploadID(j, u)
      PROVE  FALSE
  BY <1>m DEF ClearMultipartUploadID
<1>1. ASSUME NEW p \in Process, RecordMPU(p)
      PROVE  pc[p] = "recordMPU" /\ uploadID'[i] = mpu[p]
  BY <1>s, <1>1 DEF RecordMPU, RecordMultipartUploadID
<1>2. ASSUME NEW p \in Process, RequestStep(p), ~RecordMPU(p)
      PROVE  FALSE
  BY <1>s, <1>d, <1>m, <1>2 DEF RequestStep, Sign, CreateMPU, RecordAbort, DeleteGet,
     WritePut, Mark, MarkGet, WriteDelete, Return, Refresh, Reget, ListParts, Complete, Clear,
     ClearGet, Verify, Head, PartRefresh, DeleteRow, Abort, DeleteBytes
<1>3. ASSUME NEW p \in Process, SweeperStep(p)
      PROVE  FALSE
  <2>1. ASSUME NEW B, ClaimExpiredPending(B) PROVE FALSE
    BY <2>1 DEF ClaimExpiredPending
  <2> QED BY <1>s, <1>d, <1>3, <2>1 DEF SweeperStep, SweepClaim, SweepTake, DeleteExpired,
         SweepAdvance, SweepUnreferenced, ListKeys, ListUploads, SweepOwners, DeleteRow, Abort,
         DeleteBytes
<1>4. ASSUME NEW p \in Process, RequestCalled(p)
      PROVE  FALSE
  BY <1>s, <1>4 DEF RequestCalled, Begin, BeginDirect, Reserve, Write, Finalize, PresignPart,
     DeleteObject, DeleteUnreferenced, CreatePending
<1>5. ASSUME ApplicationNext PROVE FALSE
  BY <1>5 DEF ApplicationNext, Attach, Detach, Age
<1>6. ASSUME ClientNext \/ BecomeReliable \/ UNCHANGED vars \/ \E p \in Process : Crash(p)
      PROVE  FALSE
  BY <1>s, <1>6 DEF ClientNext, BecomeReliable, vars, Crash
<1> QED BY <1>1, <1>2, <1>3, <1>4, <1>5, <1>6 DEF Next, ProcessNext, Process

(* and an expired row is removed only by the sweep that removed its bytes.  *)
LEMMA Remover ==
  ASSUME Typed, [Next]_vars, NEW i \in Id, state[i] = "expired", state'[i] = "deleted"
  PROVE  \E s \in Sweeper : pc[s] = "deleteExpired" /\ obj[s] = i
<1> USE DEF Typed, TypeOK, RegistryTypeOK
<1>s. ~UNCHANGED registryVars
  BY DEF registryVars
<1>d. ASSUME NEW j, Delete(j) \/ RefreshPending(j) \/ MarkAvailable(j)
      PROVE  FALSE
  BY <1>d DEF Delete, RemoveRow, RefreshPending, MarkAvailable, Visible
<1>m. ASSUME NEW j, NEW u, RecordMultipartUploadID(j, u) \/ ClearMultipartUploadID(j, u)
      PROVE  FALSE
  BY <1>m DEF RecordMultipartUploadID, ClearMultipartUploadID
<1>1. ASSUME NEW s \in Sweeper, DeleteExpired(s)
      PROVE  pc[s] = "deleteExpired" /\ obj[s] = i
  BY <1>s, <1>1 DEF DeleteExpired, DeleteExpiredPending, RemoveRow
<1>2. ASSUME NEW p \in Process, RequestStep(p)
      PROVE  FALSE
  BY <1>s, <1>d, <1>m, <1>2 DEF RequestStep, Sign, CreateMPU, RecordMPU, RecordAbort, DeleteGet,
     WritePut, Mark, MarkGet, WriteDelete, Return, Refresh, Reget, ListParts, Complete, Clear,
     ClearGet, Verify, Head, PartRefresh, DeleteRow, Abort, DeleteBytes
<1>3. ASSUME NEW s \in Sweeper, SweeperStep(s), ~DeleteExpired(s)
      PROVE  FALSE
  <2>1. ASSUME NEW B, ClaimExpiredPending(B) PROVE FALSE
    BY <2>1 DEF ClaimExpiredPending
  <2> QED BY <1>s, <1>d, <1>3, <2>1 DEF SweeperStep, SweepClaim, SweepTake,
         SweepAdvance, SweepUnreferenced, ListKeys, ListUploads, SweepOwners, DeleteRow, Abort,
         DeleteBytes
<1>4. ASSUME NEW p \in Process, RequestCalled(p)
      PROVE  FALSE
  BY <1>s, <1>4 DEF RequestCalled, Begin, BeginDirect, Reserve, Write, Finalize, PresignPart,
     DeleteObject, DeleteUnreferenced, CreatePending
<1>5. ASSUME ApplicationNext PROVE FALSE
  BY <1>5 DEF ApplicationNext, Attach, Detach, Age
<1>6. ASSUME ClientNext \/ BecomeReliable \/ UNCHANGED vars \/ \E p \in Process : Crash(p)
      PROVE  FALSE
  BY <1>s, <1>6 DEF ClientNext, BecomeReliable, vars, Crash
<1> QED BY <1>1, <1>2, <1>3, <1>4, <1>5, <1>6 DEF Next, ProcessNext, Process

(* What a sweep has yet to take of its claim, as rows and uploads are after *)
(* a step of its own.                                                       *)
LEMMA ExpiringBatch ==
  ASSUME Typed, RegistryStep, RemovalOK, NEW s \in Sweeper, ExpiringOK(s),
         task[s] \in {"expire", "expireError"}
  PROVE  /\ todo[s] = {}
         /\ \A t \in batch[s] : state'[t[1]] = "expired" => uploadID'[t[1]] = t[2]
<1>1. todo[s] = {}
  BY DEF ExpiringOK
<1>2. \A t \in batch[s] : t[1] \in Id
  BY DEF Typed, TypeOK, LocalTypeOK, Pair, Process
<1>3. ASSUME NEW t \in batch[s], state'[t[1]] = "expired" PROVE uploadID'[t[1]] = t[2]
  <2>1. \A i \in Id : state'[i] = "expired" =>
            uploadID'[i] = uploadID[i] /\ (Retired(i) => state[i] = "expired")
    BY ExpiredForward
  <2>2. PICK i \in Id : i = t[1]
    BY <1>2, <1>3
  <2>3. s \in Process
    BY DEF Process
  <2>4. Retired(t[1]) /\ (state[t[1]] = "expired" => uploadID[t[1]] = t[2])
    BY <1>3, <2>3 DEF ExpiringOK, RemovalOK
  <2>5. uploadID'[i] = uploadID[i] /\ state[i] = "expired"
    BY <1>3, <2>1, <2>2, <2>4 DEF Retired
  <2> QED BY <2>2, <2>4, <2>5
<1> QED BY <1>1, <1>3

(* A sweep under way is not disturbed by the others.                        *)
LEMMA ExpiringUndisturbed ==
  ASSUME Step, NEW s \in Sweeper, Same(s)
  PROVE  ExpiringOK(s)'
<1>0. /\ Typed /\ RegistryStep /\ StorageMove /\ RemovalOK /\ ExpiringOK(s) /\ s \in Process
      /\ ExpiryOK
  BY DEF Step, Consistent, ExpiryOK, Process
<1>2. pc[s] \in {"abort", "deleteKey", "deleteExpired"} => obj[s] \in Id
  BY <1>0 DEF Typed, LocalsOK, Busy
<1>3. \A i \in Id : Retired(i) => Retired(i)'
  BY <1>0, RowsForward
<1>4. \A i \in Id : Retired(i) /\ state'[i] = "expired" =>
                     state[i] = "expired" /\ uploadID'[i] = uploadID[i]
  BY <1>0, ExpiredForward
<1>5. \A i \in Id : Gone(uploadID[i]) /\ uploadID'[i] = uploadID[i] => Gone(uploadID[i])'
  <2> SUFFICES ASSUME NEW i \in Id, Gone(uploadID[i]), uploadID'[i] = uploadID[i],
                      uploadID[i] # NoUpload
               PROVE  Gone(uploadID[i])'
    BY DEF Gone
  <2>1. uploadID[i] \in UploadId
    BY <1>0 DEF Typed, TypeOK, RegistryTypeOK
  <2>2. Gone(uploadID[i]) => upStatus'[uploadID[i]] = "closed"
    BY <1>0, <2>1, UploadsForward DEF Gone
  <2> QED BY <2>2 DEF Gone
<1>6. pc'[s] = "deleteExpired" => task'[s] = "expire" /\ Retired(obj[s])'
  BY <1>0, <1>2, <1>3 DEF Same, ExpiringOK, Retired
<1>7. ASSUME task'[s] \in {"expire", "expireError"}
      PROVE  /\ todo'[s] = {}
             /\ \A t \in batch'[s] : state'[t[1]] = "expired" => uploadID'[t[1]] = t[2]
  <2>1. task[s] \in {"expire", "expireError"} /\ todo'[s] = todo[s] /\ batch'[s] = batch[s]
    BY <1>7 DEF Same
  <2>2. /\ todo[s] = {}
        /\ \A t \in batch[s] : state'[t[1]] = "expired" => uploadID'[t[1]] = t[2]
    BY <1>0, <2>1, ExpiringBatch
  <2> QED BY <2>1, <2>2
<1>8. ASSUME task'[s] = "expire", pc'[s] = "abort", state'[obj'[s]] = "expired"
      PROVE  uploadID'[obj'[s]] = mpu'[s]
  <2>1. Retired(obj[s]) /\ obj[s] \in Id
    BY <1>0, <1>2, <1>8 DEF Same, RemovalOK
  <2> QED BY <1>0, <1>4, <1>8, <2>1 DEF Same, ExpiringOK
<1>9. ASSUME task'[s] = "expire", pc'[s] \in {"deleteKey", "deleteExpired"},
             state'[obj'[s]] = "expired"
      PROVE  Gone(uploadID[obj[s]])'
  <2>1. Retired(obj[s]) /\ obj[s] \in Id
    BY <1>0, <1>2, <1>9 DEF Same, RemovalOK, ExpiringOK
  <2>2. Gone(uploadID[obj[s]]) /\ uploadID'[obj[s]] = uploadID[obj[s]]
    BY <1>0, <1>4, <1>9, <2>1 DEF Same, ExpiringOK
  <2> QED BY <1>5, <2>1, <2>2 DEF Same, Gone
<1> QED BY <1>6, <1>7, <1>8, <1>9 DEF ExpiringOK

(* A sweep still means to delete the row only after an abort that worked.   *)
LEMMA AbortSucceeds ==
  ASSUME Typed, NEW s \in Process, Abort(s), ~Leave(s), task'[s] = "expire"
  PROVE  task[s] = "expire" /\ TryAbort(mpu[s])
<1>1. CASE TryAbort(mpu[s]) /\ AfterAbort(s, TRUE)
  BY <1>1 DEF AfterAbort, Typed, TypeOK, LocalTypeOK
<1>2. CASE AfterAbort(s, FALSE)
  BY <1>2 DEF AfterAbort, Typed, TypeOK, LocalTypeOK
<1> QED BY <1>1, <1>2 DEF Abort

(* A sweep takes a step, crashes, or is left alone.                         *)
LEMMA OwnStep ==
  ASSUME Typed, Consistent, [Next]_vars, NEW s \in Sweeper
  PROVE  SweeperStep(s) \/ Crash(s) \/ Same(s)
<1>1. ASSUME NEW p \in Process \ {s}, ProcessMove(p) PROVE Same(s)
  BY <1>1 DEF ProcessMove, Process
<1>2. ASSUME ClientMove PROVE Same(s)
  BY <1>2 DEF ClientMove, Same, localVars
<1>3. CASE \E p \in Request : RequestCalled(p) \/ RequestStep(p)
  <2> PICK p \in Request : RequestCalled(p) \/ RequestStep(p)
    BY <1>3
  <2>1. p \in Process \ {s}
    BY DEF Process
  <2> QED BY <1>1, <1>2, <2>1, CallMove, RequestMove
<1>4. CASE \E q \in Sweeper : SweeperStep(q)
  BY <1>1, <1>4, SweeperMove DEF Process
<1>5. CASE \E p \in Process : Crash(p)
  BY <1>1, <1>5, CrashMove
<1>6. CASE ClientNext
  BY <1>6 DEF ClientNext, Same, localVars
<1>7. CASE ApplicationNext \/ BecomeReliable \/ UNCHANGED vars
  BY <1>7 DEF ApplicationNext, BecomeReliable, vars, Same, localVars
<1> QED BY <1>3, <1>4, <1>5, <1>6, <1>7 DEF Next, ProcessNext

(* A sweep finds the upload of a row it claimed closed before it comes to   *)
(* delete the row.                                                          *)
LEMMA ExpiringStep ==
  ASSUME Step, NEW s \in Sweeper, SweeperStep(s)
  PROVE  ExpiringOK(s)'
<1>0. /\ Typed /\ RegistryStep /\ RemovalOK /\ ExpiringOK(s) /\ s \in Process /\ ExpiryOK
  BY DEF Step, Consistent, ExpiryOK, Process
<1>s. UNCHANGED registryVars => state' = state /\ uploadID' = uploadID
  BY DEF registryVars
<1> USE <1>0 DEF Typed, TypeOK, LocalTypeOK
<1>1. CASE SweepClaim(s)
  <2>1. PICK B \in SUBSET Id :
            /\ pc'[s] = "next" /\ task'[s] = "expire" /\ todo'[s] = {}
            /\ batch'[s] \subseteq {<<i, uploadID[i]>> : i \in B}
            /\ uploadID' = uploadID
    <3>1. CASE \E B \in SUBSET Id : /\ ClaimExpiredPending(B)
                                   /\ EnterPhase(s, "expire", {<<i, uploadID[i]>> : i \in B}, {})
      <4> PICK B \in SUBSET Id : /\ ClaimExpiredPending(B)
                                 /\ EnterPhase(s, "expire", {<<i, uploadID[i]>> : i \in B}, {})
        BY <3>1
      <4> QED BY DEF EnterPhase, ClaimExpiredPending
    <3>2. CASE EnterPhase(s, "expire", {}, {})
      <4>1. uploadID' = uploadID
        BY <1>1, <1>s DEF SweepClaim, ClaimExpiredPending
      <4> QED BY <3>2, <4>1 DEF EnterPhase
    <3> QED BY <1>1, <3>1, <3>2 DEF SweepClaim
  <2> QED BY <2>1 DEF ExpiringOK
<1>2. CASE SweepTake(s)
  <2>1. PICK t \in batch[s] :
         /\ batch'[s] = batch[s] \ {t} /\ obj'[s] = t[1] /\ mpu'[s] = t[2]
         /\ pc'[s] = IF task[s] = "unreferenced" THEN "deleteRow"
                     ELSE IF t[2] = NoUpload THEN "deleteKey"
                     ELSE "abort"
    BY <1>2 DEF SweepTake
  <2>2. task' = task /\ todo' = todo /\ state' = state /\ uploadID' = uploadID
    BY <1>2, <1>s DEF SweepTake
  <2> QED BY <2>1, <2>2 DEF ExpiringOK, Gone
<1>3. CASE DeleteExpired(s) \/ (DeleteRow(s) /\ Leave(s)) \/ (Abort(s) /\ Leave(s))
           \/ (DeleteBytes(s) /\ Leave(s))
  <2>1. Leave(s)
    BY <1>3 DEF DeleteExpired
  <2>2. /\ pc'[s] = "next" /\ todo' = todo /\ batch' = batch
        /\ task'[s] \in {"expire", "expireError"} => task[s] \in {"expire", "expireError"}
    BY <2>1 DEF Leave
  <2> QED BY <2>2, ExpiringBatch DEF ExpiringOK
<1>4. CASE SweepAdvance(s)
  <2>1. task'[s] = "none" /\ pc'[s] \in {"listUnreferenced", "listUploads", "listKeys", "idle"}
    BY <1>4 DEF SweepAdvance
  <2> QED BY <2>1 DEF ExpiringOK
<1>5. CASE SweepUnreferenced(s) \/ ListKeys(s) \/ ListUploads(s)
  <2>1. task'[s] \in {"unreferenced", "keys", "uploads"} /\ pc'[s] = "next"
    BY <1>5 DEF SweepUnreferenced, ListKeys, ListUploads, EnterPhase
  <2> QED BY <2>1 DEF ExpiringOK
<1>6. CASE SweepOwners(s)
  <2>1. task[s] \notin {"expire", "expireError"} /\ task' = task /\ pc' = pc /\ pc[s] = "next"
    BY <1>6 DEF SweepOwners, ExpiringOK
  <2> QED BY <2>1 DEF ExpiringOK
<1>7. CASE DeleteRow(s) /\ ~Leave(s)
  <2>1. /\ Delete(obj[s]) /\ RemoveBytes(s, uploadID[obj[s]]) /\ pc[s] = "deleteRow"
    BY <1>7 DEF DeleteRow
  <2>2. obj[s] \in Id /\ obj' = obj /\ state'[obj[s]] = "deleted" /\ task' = task
        /\ pc'[s] \in {"deleteKey", "abort"} /\ batch' = batch /\ todo' = todo
    BY <2>1 DEF LocalsOK, Busy, Delete, RemoveRow, RemoveBytes, RegistryTypeOK
  <2> QED BY <2>2, ExpiringBatch DEF ExpiringOK
<1>8. CASE Abort(s) /\ ~Leave(s)
  <2>1. /\ pc[s] = "abort" /\ pc'[s] = "deleteKey" /\ obj' = obj /\ batch' = batch /\ todo' = todo
        /\ state' = state /\ uploadID' = uploadID /\ mpu[s] \in UploadId
        /\ task'[s] \in {"expire", "expireError"} => task[s] \in {"expire", "expireError"}
    BY <1>8, <1>s DEF Abort, AfterAbort, LocalsOK, UploadPc
  <2>2. ASSUME task'[s] = "expire", state'[obj'[s]] = "expired"
        PROVE  Gone(uploadID[obj[s]])'
    <3>1. task[s] = "expire" /\ TryAbort(mpu[s])
      BY <1>8, <2>2, AbortSucceeds
    <3>2. uploadID[obj[s]] = mpu[s]
      BY <2>1, <2>2, <3>1 DEF ExpiringOK
    <3>3. obj[s] \in Id
      BY <2>1 DEF LocalsOK, Busy
    <3>4. Used(mpu[s])
      BY <2>1, <3>2, <3>3 DEF ExpiryOK
    <3>5. upStatus'[mpu[s]] = "closed"
      BY <2>1, <3>1, <3>4 DEF TryAbort, AbortMultipartUpload, CloseUpload, Used, StorageTypeOK,
         storageVars
    <3> QED BY <2>1, <3>2, <3>5 DEF Gone
  <2> QED BY <2>1, <2>2, ExpiringBatch DEF ExpiringOK, Gone
<1>9. CASE DeleteBytes(s) /\ ~Leave(s)
  <2>1. /\ pc[s] = "deleteKey" /\ pc'[s] = "deleteExpired" /\ task[s] = "expire" /\ task' = task
        /\ obj' = obj /\ batch' = batch /\ todo' = todo /\ state' = state /\ uploadID' = uploadID
        /\ upStatus' = upStatus
    BY <1>9, <1>s DEF DeleteBytes, Goto, DeleteKey
  <2>2. Retired(obj[s])'
    BY <2>1 DEF RemovalOK, Retired
  <2>3. state'[obj'[s]] = "expired" => Gone(uploadID[obj[s]])'
    BY <2>1 DEF ExpiringOK, Gone
  <2> QED BY <2>1, <2>2, <2>3, ExpiringBatch DEF ExpiringOK
<1> QED BY <1>1, <1>2, <1>3, <1>4, <1>5, <1>6, <1>7, <1>8, <1>9 DEF SweeperStep

LEMMA ExpiryStep == Step /\ [Next]_vars => ExpiryOK'
<1> SUFFICES ASSUME Step, [Next]_vars PROVE ExpiryOK'
  OBVIOUS
<1>0. Typed /\ Typed' /\ StorageMove /\ ExpiryOK
  BY DEF Step, Consistent
<1>1. ASSUME NEW i \in Id, uploadID'[i] # NoUpload PROVE Used(uploadID[i])'
  <2>1. uploadID'[i] \in UploadId
    BY <1>0, <1>1 DEF Typed, TypeOK, RegistryTypeOK
  <2>2. Used(uploadID'[i])
    <3>1. CASE uploadID'[i] = uploadID[i]
      BY <1>0, <1>1, <3>1 DEF ExpiryOK
    <3>2. CASE uploadID'[i] # uploadID[i]
      <4>1. PICK p \in Process : pc[p] = "recordMPU" /\ uploadID'[i] = mpu[p]
        BY <1>0, <1>1, <3>2, Recorder
      <4>2. Used(mpu[p])
        BY <1>0, <4>1 DEF ExpiryOK
      <4> QED BY <4>1, <4>2
    <3> QED BY <3>1, <3>2
  <2>3. upStatus'[uploadID'[i]] # "unused"
    BY <1>0, <2>1, <2>2, UploadsForward DEF Used
  <2> QED BY <2>3 DEF Used
<1>2. ASSUME NEW p \in Process, pc'[p] = "recordMPU" PROVE Used(mpu[p])'
  <2>1. CASE ProcessMove(p)
    BY <1>2, <2>1 DEF ProcessMove, Entitled
  <2>2. CASE Same(p)
    <3>1. pc[p] = "recordMPU" /\ mpu'[p] = mpu[p] /\ mpu[p] \in UploadId
      BY <1>0, <1>2, <2>2 DEF Same, Typed, LocalsOK, UploadPc
    <3>2. Used(mpu[p])
      BY <1>0, <3>1 DEF ExpiryOK
    <3>3. upStatus'[mpu[p]] # "unused"
      BY <1>0, <3>1, <3>2, UploadsForward DEF Used
    <3> QED BY <3>1, <3>3 DEF Used
  <2> QED BY <2>1, <2>2 DEF Step, ClientMove, ProcessMove, Same, localVars
<1>3. ASSUME NEW s \in Sweeper PROVE ExpiringOK(s)'
  <2>0. s \in Process
    BY DEF Process
  <2>1. CASE SweeperStep(s)
    BY <2>1, ExpiringStep
  <2>2. CASE Crash(s)
    <3>1. pc'[s] = "idle" /\ task'[s] = "none"
      BY <1>0, <2>0, <2>2 DEF Crash, Typed, TypeOK, LocalTypeOK
    <3> QED BY <3>1 DEF ExpiringOK
  <2>3. CASE Same(s)
    BY <2>3, ExpiringUndisturbed
  <2> QED BY <2>0, <2>1, <2>2, <2>3, OwnStep DEF Step
<1> QED BY <1>1, <1>2, <1>3 DEF ExpiryOK

(* The invariant holds of the empty service.                                *)
LEMMA ConsistentInit == Init => Consistent
<1> SUFFICES ASSUME Init PROVE Consistent
  OBVIOUS
<1>1. /\ UnusedIsFresh /\ LocalsOK /\ UploadKeysOK /\ StartersOK /\ UploadsOK /\ KeysOK
      /\ VerifiedOK /\ RemovalOK /\ PublishedBytesIntact
  BY DEF Init, RegistryInit, StorageInit, UnusedIsFresh, LocalsOK, UploadKeysOK, StartersOK,
         UploadsOK, KeysOK, VerifiedOK, RemovalOK, PublishedBytesIntact, Busy, UploadPc,
         Starting, KeyUsed, Used
<1>2. ExpiryOK
  <2>1. /\ \A i \in Id : uploadID[i] = NoUpload
        /\ \A p \in Process : pc[p] = "idle" /\ task[p] = "none"
    BY DEF Init, RegistryInit
  <2> QED BY <2>1 DEF ExpiryOK, ExpiringOK, Process
<1> QED BY <1>1, <1>2 DEF Consistent

(* Every step preserves it.                                                 *)
LEMMA ConsistentNext == Typed /\ Consistent /\ [Next]_vars => Consistent'
<1> SUFFICES ASSUME Typed, Consistent, [Next]_vars PROVE Consistent'
  OBVIOUS
<1>1. Step
  BY StepFacts
<1>2. LocalsOK' /\ UploadKeysOK'
  BY TypedNext DEF Typed
<1> QED BY <1>1, <1>2, FreshStep, UploadsStep, KeysStep, StartersStep, VerifiedStep, RemovalStep,
           ExpiryStep, PublishedBytesStep DEF Consistent

(* The invariant holds in every reachable state: an object's bytes arrive   *)
(* by one route, and no sweep, deletion or late upload empties or mixes the *)
(* key of an object that can still be published.                            *)
THEOREM AlwaysConsistent == Spec => []Consistent
<1>1. Spec => []Typed
  BY TypedInit, TypedNext, PTL DEF Spec
<1> QED BY <1>1, ConsistentInit, ConsistentNext, PTL DEF Spec

(* A sweep that gives a row up leaves no upload of it open behind, whatever *)
(* fails or crashes and however many sweeps there are at once.              *)
THEOREM NoUploadForgotten == Spec => RowsOutliveUploads
<1>1. Typed /\ Consistent /\ [Next]_vars => [GiveUpStep]_vars
  <2> SUFFICES ASSUME Typed, Consistent, [Next]_vars, NEW i \in Id,
                      state[i] = "expired", state'[i] = "deleted"
               PROVE  uploadID[i] = NoUpload \/ upStatus[uploadID[i]] # "open"
    BY DEF GiveUpStep
  <2>1. PICK s \in Sweeper : pc[s] = "deleteExpired" /\ obj[s] = i
    BY Remover
  <2>2. Gone(uploadID[i])
    BY <2>1 DEF Consistent, ExpiryOK, ExpiringOK
  <2> QED BY <2>2 DEF Gone
<1>2. Spec => []Typed
  BY TypedInit, TypedNext, PTL DEF Spec
<1> QED BY <1>1, <1>2, AlwaysConsistent, PTL DEF Spec, RowsOutliveUploads

(* The key of an available object holds the bytes its uploader declared, on *)
(* either backend, whatever fails, crashes, retries or arrives late.        *)
THEOREM PublishedIntact == Spec => []PublishedBytesIntact
<1>1. Consistent => PublishedBytesIntact
  BY DEF Consistent
<1> QED BY <1>1, AlwaysConsistent, PTL

-----------------------------------------------------------------------------
(* A published row stays, or is deleted while nothing references it.        *)
LEMMA PublishedRow ==
  ASSUME Typed, RegistryStep, NEW i \in Id, state[i] = "available"
  PROVE  state'[i] = "available" \/ (state'[i] = "deleted" /\ i \notin attached)
<1> USE DEF Typed, TypeOK, RegistryTypeOK
<1>1. CASE \E j \in Id : Delete(j)
  BY <1>1 DEF Delete, RemoveRow
<1>2. CASE \E B \in SUBSET Id : ClaimExpiredPending(B)
  BY <1>2 DEF ClaimExpiredPending, ClaimBatch, Retriable, Abandoned
<1>3. CASE \E j \in Id : DeleteExpiredPending(j)
  BY <1>3 DEF DeleteExpiredPending, RemoveRow
<1>4. CASE \/ \E j \in Id, pf \in Prefix, c \in Content : CreatePending(j, pf, c)
           \/ \E j \in Id : MarkAvailable(j)
  BY <1>4 DEF CreatePending, MarkAvailable
<1>5. CASE \/ \E j \in Id, u \in UploadId :
                  RecordMultipartUploadID(j, u) \/ ClearMultipartUploadID(j, u)
           \/ \E j \in Id : RefreshPending(j) \/ Attach(j) \/ Detach(j) \/ Age(j)
           \/ UNCHANGED registryVars
  BY <1>5 DEF RecordMultipartUploadID, ClearMultipartUploadID, RefreshPending, Attach, Detach, Age,
     registryVars
<1> QED BY <1>1, <1>2, <1>3, <1>4, <1>5 DEF RegistryStep

(* No step replaces or withdraws published bytes: a late PUT can only repeat *)
(* the body already there, since its signature binds the SHA-256, and a      *)
(* completion finds its upload gone.                                         *)
LEMMA PublishedNext == Typed /\ Consistent /\ [Next]_vars => PublishedStep
<1> SUFFICES ASSUME Typed, Consistent, [Next]_vars, NEW i \in Id, state[i] = "available"
             PROVE  \/ state'[i] = "available" /\ stored'[i] = stored[i]
                    \/ state'[i] = "deleted" /\ i \notin attached
  BY DEF PublishedStep
<1>0. Step
  BY StepFacts
<1>1. KeyMove(i)
  BY <1>0, KeysMove DEF Step, Consistent
<1>2. stored[i] # NoBlob /\ stored[i] \in Blob /\ ~Retired(i)
  BY DEF Consistent, PublishedBytesIntact, Retired, Typed, TypeOK, StorageTypeOK
<1>3. ASSUME NEW b \in Body, ~KeyUsed(i), PutAdmits(content[i], b),
             stored'[i] = [body |-> b, sum |-> "SHA256"]
      PROVE  stored'[i] = stored[i]
  <2>1. stored[i].sum = "SHA256" /\ PutAdmits(content[i], stored[i].body)
    BY <1>2, <1>3 DEF Consistent, KeysOK
  <2>2. stored[i].body \in Body
    BY <1>2 DEF Blob
  <2>3. stored[i].body = b
    BY <1>3, <2>1, <2>2 DEF PutAdmits
  <2>4. stored[i] = [body |-> stored[i].body, sum |-> stored[i].sum]
    BY <1>2 DEF Blob
  <2> QED BY <1>3, <2>1, <2>3, <2>4
<1>4. stored'[i] = stored[i]
  BY <1>1, <1>2, <1>3 DEF KeyMove
<1> QED BY <1>0, <1>4, PublishedRow DEF Step

(* Publication is immutable: no late PUT, stale completion, retry or sweep  *)
(* replaces the bytes of an available object, and only the deletion of an   *)
(* unattached row withdraws it.                                             *)
THEOREM PublicationImmutable == Spec => PublishedImmutable
<1>1. Spec => []Typed
  BY TypedInit, TypedNext, PTL DEF Spec
<1>2. Typed /\ Consistent /\ [Next]_vars => [PublishedStep]_vars
  BY PublishedNext
<1> QED BY <1>1, <1>2, AlwaysConsistent, PTL DEF Spec, PublishedImmutable

-----------------------------------------------------------------------------
(* A request that comes to answer with success has just seen its object     *)
(* available, or made it so.                                                *)
LEMMA AnswerStep ==
  ASSUME Typed, NEW p \in Process, RequestStep(p), pc'[p] = "published"
  PROVE  obj'[p] \in Id /\ state'[obj'[p]] = "available"
<1>0. Busy(p) => obj[p] \in Id
  BY DEF Typed, LocalsOK
<1>g. \A l : Goto(p, l) => pc'[p] = l /\ obj' = obj
  BY DEF Goto, Typed, TypeOK, LocalTypeOK
<1>l. ~Leave(p)
  BY DEF Leave, Typed, TypeOK, LocalTypeOK
<1>r. \A u : ~RemoveBytes(p, u)
  BY DEF RemoveBytes, Typed, TypeOK, LocalTypeOK
<1>s. UNCHANGED registryVars => state' = state
  BY DEF registryVars
<1>1. CASE Mark(p)
  <2>1. MarkAvailable(obj[p]) /\ Goto(p, "published")
    BY <1>1, <1>g, <1>l DEF Mark, PublishFailed
  <2> QED BY <1>0, <1>1, <1>g, <2>1 DEF Mark, Busy, MarkAvailable, Typed, TypeOK, RegistryTypeOK
<1>2. CASE MarkGet(p)
  BY <1>0, <1>2, <1>g, <1>l, <1>s DEF MarkGet, PublishFailed, Busy
<1>3. CASE Reget(p)
  BY <1>0, <1>3, <1>g, <1>l, <1>s DEF Reget, Busy
<1>4. CASE Sign(p) \/ RecordMPU(p) \/ RecordAbort(p) \/ DeleteGet(p) \/ WritePut(p)
           \/ WriteDelete(p) \/ Return(p) \/ Complete(p) \/ Clear(p) \/ ClearGet(p)
           \/ Verify(p) \/ Head(p) \/ PartRefresh(p) \/ DeleteRow(p) \/ DeleteBytes(p)
  BY <1>4, <1>g, <1>l, <1>r DEF Sign, RecordMPU, RecordAbort, DeleteGet, WritePut, WriteDelete,
     Return, Complete, Clear, ClearGet, Verify, Head, PartRefresh, DeleteRow, DeleteBytes
<1>5. CASE CreateMPU(p) \/ Refresh(p) \/ ListParts(p) \/ Abort(p)
  BY <1>5, <1>g, <1>l DEF CreateMPU, Refresh, ListParts, Abort, AfterAbort, Typed, TypeOK,
     LocalTypeOK
<1> QED BY <1>1, <1>2, <1>3, <1>4, <1>5 DEF RequestStep

(* Finalize answers at once for an object that is available already; no     *)
(* other call does.                                                         *)
LEMMA AnswerCall ==
  ASSUME Typed, NEW p \in Process, RequestCalled(p), pc'[p] = "published"
  PROVE  obj'[p] \in Id /\ state'[obj'[p]] = "available"
<1>1. pc[p] = "idle"
  BY DEF RequestCalled, Begin, BeginDirect, Reserve, Write, Finalize, PresignPart,
     DeleteObject, DeleteUnreferenced
<1>2. CASE \E i \in Id, pf \in Prefix : Finalize(p, i, pf)
  BY <1>2 DEF Finalize, Start, registryVars, Typed, TypeOK, LocalTypeOK
<1>3. CASE ~\E i \in Id, pf \in Prefix : Finalize(p, i, pf)
  BY <1>1, <1>3 DEF RequestCalled, Begin, BeginDirect, Reserve, Write, PresignPart,
     DeleteObject, DeleteUnreferenced, Start, localVars, Typed, TypeOK, LocalTypeOK
<1> QED BY <1>2, <1>3

(* No sweep answers anybody.                                                *)
LEMMA NoAnswerSweep ==
  ASSUME Typed, NEW s \in Sweeper, SweeperStep(s), pc'[s] = "published"
  PROVE  obj'[s] \in Id /\ state'[obj'[s]] = "available"
<1>0. s \in Process
  BY DEF Process
<1>1. CASE DeleteRow(s) \/ Abort(s) \/ DeleteBytes(s)
  BY <1>0, <1>1, AnswerStep DEF RequestStep
<1>2. CASE SweepTake(s) \/ DeleteExpired(s) \/ SweepAdvance(s) \/ SweepOwners(s)
  BY <1>0, <1>2 DEF SweepTake, DeleteExpired, Leave, SweepAdvance, SweepOwners, Typed, TypeOK,
     LocalTypeOK
<1>3. CASE SweepClaim(s) \/ SweepUnreferenced(s) \/ ListKeys(s) \/ ListUploads(s)
  BY <1>0, <1>3 DEF SweepClaim, SweepUnreferenced, ListKeys, ListUploads, EnterPhase, Typed,
     TypeOK, LocalTypeOK
<1> QED BY <1>1, <1>2, <1>3 DEF SweeperStep

(* Every answer is true when it is given.                                   *)
LEMMA SuccessNext == Typed /\ Consistent /\ [Next]_vars => SuccessStep
<1> SUFFICES ASSUME Typed, Consistent, [Next]_vars,
                    NEW q \in Process, pc'[q] = "published", pc[q] # "published"
             PROVE  /\ state'[obj'[q]] = "available"
                    /\ stored'[obj'[q]] # NoBlob
                    /\ Declared(content'[obj'[q]], stored'[obj'[q]])
  BY DEF SuccessStep
<1>0. ~Same(q)
  BY DEF Same
<1>1. obj'[q] \in Id /\ state'[obj'[q]] = "available"
  <2>1. CASE \E p \in Request : RequestStep(p)
    <3> PICK p \in Request : RequestStep(p) BY <2>1
    <3>1. p = q
      BY <1>0, RequestMove DEF Process, ProcessMove
    <3> QED BY <3>1, AnswerStep
  <2>2. CASE \E p \in Request : RequestCalled(p)
    <3> PICK p \in Request : RequestCalled(p) BY <2>2
    <3>1. p = q
      BY <1>0, CallMove DEF Process, ProcessMove, ClientMove, localVars, Same
    <3> QED BY <3>1, AnswerCall
  <2>3. CASE \E s \in Sweeper : SweeperStep(s)
    <3> PICK s \in Sweeper : SweeperStep(s) BY <2>3
    <3>1. s = q
      BY <1>0, SweeperMove DEF Process, ProcessMove
    <3> QED BY <3>1, NoAnswerSweep
  <2>4. CASE \E p \in Process : Crash(p)
    BY <1>0, <2>4, CrashMove DEF ProcessMove, Crash, Typed, TypeOK, LocalTypeOK
  <2>5. CASE UNCHANGED localVars
    BY <1>0, <2>5 DEF localVars, Same
  <2> QED BY <2>1, <2>2, <2>3, <2>4, <2>5
          DEF Next, ProcessNext, ClientNext, ApplicationNext, BecomeReliable, vars
<1>2. Consistent'
  BY ConsistentNext
<1>3. PublishedBytesIntact'
  BY <1>2 DEF Consistent
<1> QED BY <1>1, <1>3 DEF PublishedBytesIntact, Declared

(* Finalize and Write answer with success only for an object that is        *)
(* available over the declared bytes, whichever of their fallbacks they     *)
(* took.                                                                    *)
THEOREM SuccessIsTrue == Spec => SuccessMeansPublished
<1>1. Spec => []Typed
  BY TypedInit, TypedNext, PTL DEF Spec
<1>2. Typed /\ Consistent /\ [Next]_vars => [SuccessStep]_vars
  BY SuccessNext
<1> QED BY <1>1, <1>2, AlwaysConsistent, PTL DEF Spec, SuccessMeansPublished

-----------------------------------------------------------------------------
(* The empty service offers nothing.                                        *)
LEMMA PublicationStarts == Init => P!PublicationInit
BY DEF Init, RegistryInit, StorageInit, P!PublicationInit, PhaseOf, Readable

(* Readers see a change only where a row comes to be or ceases to be        *)
(* available.                                                               *)
LEMMA ReadersUndisturbed ==
  ASSUME Typed, Consistent, [Next]_vars, NEW i \in Id,
         state'[i] = "available" <=> state[i] = "available"
  PROVE  Readable(i)' = Readable(i)
<1>1. CASE state[i] = "available"
  <2>1. stored'[i] = stored[i]
    BY <1>1, PublishedNext DEF PublishedStep
  <2> QED BY <1>1, <2>1 DEF Readable
<1>2. CASE state[i] # "available"
  BY <1>2 DEF Readable
<1> QED BY <1>1, <1>2

(* Every step of the service is a step of Publication, or none.             *)
LEMMA PublicationStep ==
  Typed /\ Consistent /\ [Next]_vars => [P!PublicationNext]_(P!publicationVars)
<1> SUFFICES ASSUME Typed, Consistent, [Next]_vars
             PROVE  [P!PublicationNext]_(P!publicationVars)
  OBVIOUS
<1> DEFINE ph == [i \in Id |-> PhaseOf(state[i])]
           bd == [i \in Id |-> Readable(i)]
<1>0. RegistryStep /\ Typed' /\ Consistent'
  BY NextEffect, TypedNext, ConsistentNext
<1>t. /\ state \in [Id -> {"unused", "pending", "available", "expired", "deleted"}]
      /\ state' \in [Id -> {"unused", "pending", "available", "expired", "deleted"}]
      /\ content \in [Id -> Content \cup {NoContent}]
  BY <1>0 DEF Typed, TypeOK, RegistryTypeOK
<1>b. ASSUME \A i \in Id : state'[i] = "available" <=> state[i] = "available"
      PROVE  bd' = bd
  BY <1>b, ReadersUndisturbed
<1>p. ASSUME \A i \in Id : PhaseOf(state'[i]) = PhaseOf(state[i])
      PROVE  ph' = ph /\ bd' = bd
  <2>1. \A i \in Id : state'[i] = "available" <=> state[i] = "available"
    BY <1>t, <1>p DEF PhaseOf
  <2> QED BY <1>b, <1>p, <2>1
<1>1. CASE \E i \in Id, pf \in Prefix, c \in Content : CreatePending(i, pf, c)
  <2> PICK i \in Id, pf \in Prefix, c \in Content : CreatePending(i, pf, c)
    BY <1>1
  <2>1. /\ state[i] = "unused" /\ state' = [state EXCEPT ![i] = "pending"]
        /\ content' = [content EXCEPT ![i] = c] /\ attached' = attached
    BY DEF CreatePending
  <2>2. bd' = bd
    BY <1>t, <1>b, <2>1
  <2>3. ph[i] = "absent" /\ ph' = [ph EXCEPT ![i] = "reserved"]
    BY <1>t, <2>1 DEF PhaseOf
  <2>4. P!ReserveObject(i, c)
    BY <2>1, <2>2, <2>3 DEF P!ReserveObject
  <2> QED BY <2>4 DEF P!PublicationNext
<1>2. CASE \E i \in Id : MarkAvailable(i)
  <2> PICK i \in Id : MarkAvailable(i)
    BY <1>2
  <2>1. /\ state[i] = "pending" /\ state' = [state EXCEPT ![i] = "available"]
        /\ content' = content /\ attached' = attached
    BY DEF MarkAvailable, Active
  <2>2. /\ stored'[i] # NoBlob /\ stored'[i] \in Blob
        /\ Declared(content[i], stored'[i])
    BY <1>0, <1>t, <2>1 DEF Consistent, PublishedBytesIntact, Declared, Typed, TypeOK, StorageTypeOK
  <2> DEFINE b == stored'[i].body
  <2>3. b \in Body /\ P!Matches(content[i], b)
    BY <2>2 DEF Blob, Declared, P!Matches
  <2>4. ph[i] = "reserved" /\ ph' = [ph EXCEPT ![i] = "published"]
    BY <1>t, <2>1 DEF PhaseOf
  <2>5. bd' = [bd EXCEPT ![i] = b]
    <3>1. Readable(i)' = b
      BY <1>t, <2>1, <2>2 DEF Readable
    <3>2. \A j \in Id \ {i} : Readable(j)' = Readable(j)
      BY <1>t, <2>1, ReadersUndisturbed
    <3> QED BY <3>1, <3>2
  <2>6. P!PublishObject(i, b)
    BY <2>1, <2>3, <2>4, <2>5 DEF P!PublishObject
  <2> QED BY <2>3, <2>6 DEF P!PublicationNext
<1>3. CASE \E i \in Id : Delete(i)
  <2> PICK i \in Id : Delete(i)
    BY <1>3
  <2>1. /\ state[i] \in {"pending", "available"} /\ i \notin attached
        /\ state' = [state EXCEPT ![i] = "deleted"]
        /\ content' = content /\ attached' = attached
    BY DEF Delete, RemoveRow, Visible
  <2>2. CASE state[i] = "pending"
    <3>1. bd' = bd
      BY <1>t, <1>b, <2>1, <2>2
    <3>2. ph[i] = "reserved" /\ ph' = [j \in Id |-> IF j \in {i} THEN "withdrawn" ELSE ph[j]]
      BY <1>t, <2>1, <2>2 DEF PhaseOf
    <3>3. P!AbandonObjects({i})
      BY <2>1, <3>1, <3>2 DEF P!AbandonObjects
    <3> QED BY <3>3 DEF P!PublicationNext
  <2>3. CASE state[i] = "available"
    <3>1. ph[i] = "published" /\ ph' = [ph EXCEPT ![i] = "withdrawn"]
      BY <1>t, <2>1, <2>3 DEF PhaseOf
    <3>2. bd' = [bd EXCEPT ![i] = NoBody]
      <4>1. Readable(i)' = NoBody
        BY <1>t, <2>1 DEF Readable
      <4>2. \A j \in Id \ {i} : Readable(j)' = Readable(j)
        BY <1>t, <2>1, ReadersUndisturbed
      <4> QED BY <4>1, <4>2
    <3>3. P!WithdrawObject(i)
      BY <2>1, <3>1, <3>2 DEF P!WithdrawObject
    <3> QED BY <3>3 DEF P!PublicationNext
  <2> QED BY <2>1, <2>2, <2>3
<1>4. CASE \E B \in SUBSET Id : ClaimExpiredPending(B)
  <2> PICK B \in SUBSET Id : ClaimExpiredPending(B)
    BY <1>4
  <2>1. /\ \A i \in B : state[i] \in {"pending", "expired"}
        /\ state' = [i \in Id |-> IF i \in B THEN "expired" ELSE state[i]]
        /\ content' = content /\ attached' = attached
    BY DEF ClaimExpiredPending, ClaimBatch, Retriable, Abandoned
  <2>2. bd' = bd
    BY <1>t, <1>b, <2>1
  <2>3. /\ \A i \in B : ph[i] \in {"reserved", "withdrawn"}
        /\ ph' = [i \in Id |-> IF i \in B THEN "withdrawn" ELSE ph[i]]
    BY <1>t, <2>1 DEF PhaseOf
  <2>4. P!AbandonObjects(B)
    BY <2>1, <2>2, <2>3 DEF P!AbandonObjects
  <2> QED BY <2>4 DEF P!PublicationNext
<1>5. CASE \E i \in Id : Attach(i) \/ Detach(i)
  <2>1. state' = state /\ content' = content /\ attached' \in SUBSET Id
    BY <1>0, <1>5 DEF Attach, Detach, Typed, TypeOK, RegistryTypeOK
  <2>2. ph' = ph /\ bd' = bd
    BY <1>p, <2>1
  <2>3. P!Refer(attached')
    BY <2>1, <2>2 DEF P!Refer
  <2> QED BY <2>1, <2>3 DEF P!PublicationNext
<1>6. CASE \/ \E i \in Id : RefreshPending(i) \/ DeleteExpiredPending(i) \/ Age(i)
           \/ \E i \in Id, u \in UploadId :
                RecordMultipartUploadID(i, u) \/ ClearMultipartUploadID(i, u)
           \/ UNCHANGED registryVars
  <2>1. \A i \in Id : PhaseOf(state'[i]) = PhaseOf(state[i])
    BY <1>t, <1>6 DEF RefreshPending, DeleteExpiredPending, RemoveRow, Age,
       RecordMultipartUploadID, ClearMultipartUploadID, registryVars, PhaseOf
  <2>2. content' = content /\ attached' = attached
    BY <1>6 DEF RefreshPending, DeleteExpiredPending, RemoveRow, Age, RecordMultipartUploadID,
       ClearMultipartUploadID, registryVars
  <2>3. ph' = ph /\ bd' = bd
    BY <1>p, <2>1
  <2> QED BY <2>2, <2>3 DEF P!publicationVars
<1> QED BY <1>0, <1>1, <1>2, <1>3, <1>4, <1>5, <1>6 DEF RegistryStep

(* Bloby implements Publication: to a reader, objects are published once,   *)
(* with a body matching the declaration, keep it, and go only while         *)
(* unreferenced, for any number of requests, sweepers and objects.          *)
THEOREM BlobyImplementsPublication == Spec => ImplementsPublication
<1>1. Spec => []Typed
  BY TypedInit, TypedNext, PTL DEF Spec
<1> QED BY <1>1, AlwaysConsistent, PublicationStarts, PublicationStep, PTL
        DEF Spec, ImplementsPublication, P!PublicationSpec

=============================================================================
