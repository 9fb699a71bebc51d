-------------------------- MODULE FileStoreProofs ---------------------------
(***************************************************************************)
(* The file backend implements AtomicKey while no power is lost, for any    *)
(* number of calls, senders and temporary files.                            *)
(***************************************************************************)
EXTENDS FileStore, TLAPS

USE FileStoreAssumption DEF putVars, deleteVars, fileVars, Name, Data, Delete

(* The temporary file of a Put under way is its own, and holds what was     *)
(* sent once it is copied; only a body that matched gets to the rename.     *)
OwnTemps ==
    /\ \A p \in PutCall : tmp[p] \in drawn \cup {None}
    /\ \A p \in PutCall : pc[p] \in {"copy", "check", "rename", "cleanup"} => tmp[p] \in Temp
    /\ \A p, q \in PutCall : tmp[p] = tmp[q] /\ tmp[p] # None => p = q
    /\ \A t \in Temp \ drawn : disk[t] = None
    /\ \A p \in PutCall : pc[p] \in {"check", "rename"} =>
           disk[tmp[p]] \in {None, body[p]}
    /\ \A p \in PutCall : pc[p] = "rename" => body[p] = declared
    /\ \A p \in PutCall : pc[p] = "cleanup" => result[p] \in {"ok", "failed"}

(* A directory stays as long as there is a file in it.                      *)
DirKept == (\E n \in Name : Exists(n)) => dir

(* Only the sweep removes anything but the key.                             *)
KeyDeletes == \A d \in DeleteCall : target[d] = Key

Safe == TypeOK /\ OwnTemps /\ DirKept /\ KeyDeletes

-----------------------------------------------------------------------------
LEMMA StepCases ==
  ASSUME [Next]_vars
  PROVE  \/ \E p \in PutCall : PutNext(p)
         \/ \E d \in Delete : DeleteNext(d)
         \/ \E n \in Name : Age(n)
         \/ DropRow \/ ListExpired \/ SweepOrphan
         \/ UNCHANGED vars
BY DEF Next

LEMMA TypeNext == TypeOK /\ OwnTemps /\ [Next]_vars => TypeOK'
<1> SUFFICES ASSUME TypeOK, OwnTemps, [Next]_vars PROVE TypeOK'
  OBVIOUS
<1> USE DEF TypeOK, Exists, Goto
<1>1. ASSUME NEW p \in PutCall, PutNext(p) PROVE TypeOK'
  <2>1. CASE BeginPut(p) \/ KillPut(p)
    BY <2>1 DEF BeginPut, KillPut, Return
  <2>2. CASE MkdirAll(p)
    <3>1. dir' \in BOOLEAN
      BY <2>2 DEF MkdirAll
    <3> QED BY <2>2, <3>1 DEF MkdirAll, Return
  <2>7. CASE CreateTemp(p)
    <3>1. disk' \in [Name -> Data \cup {None}] /\ drawn' \subseteq Temp
      BY <2>7 DEF CreateTemp
    <3> QED BY <2>7, <3>1 DEF CreateTemp, Return
  <2>3. CASE Copy(p)
    <3>1. tmp[p] \in Temp
      BY <2>3 DEF Copy, OwnTemps
    <3> QED BY <2>3, <3>1 DEF Copy, Fail
  <2>4. CASE Check(p)
    BY <2>4 DEF Check, Fail
  <2>5. CASE Rename(p)
    <3>1. tmp[p] \in Temp
      BY <2>5 DEF Rename, OwnTemps
    <3>2. disk' \in [Name -> Data \cup {None}]
      BY <2>5, <3>1 DEF Rename
    <3>3. old' \subseteq Name
      BY <2>5, <3>1 DEF Rename, Moved
    <3> QED BY <2>5, <3>2, <3>3 DEF Rename, Fail
  <2>6. CASE Cleanup(p)
    BY <2>6 DEF Cleanup, Return
  <2> QED BY <1>1, <2>1, <2>2, <2>3, <2>4, <2>5, <2>6, <2>7 DEF PutNext
<1>2. ASSUME NEW d \in Delete, DeleteNext(d) PROVE TypeOK'
  BY <1>2 DEF DeleteNext, BeginDelete, Unlink, Prune, KillDelete
<1>3. CASE (\E n \in Name : Age(n)) \/ DropRow \/ ListExpired
  BY <1>3 DEF Age, DropRow, ListExpired, Expired
<1>4. CASE SweepOrphan
  BY <1>4 DEF SweepOrphan
<1>5. CASE UNCHANGED vars
  BY <1>5 DEF vars
<1> QED BY <1>1, <1>2, <1>3, <1>4, <1>5, StepCases

(* What a step of one Put leaves alone.                                     *)
LEMMA OthersKept ==
  ASSUME TypeOK, NEW p \in PutCall, PutNext(p)
  PROVE  /\ \A q \in PutCall \ {p} :
                /\ pc'[q] = pc[q] /\ tmp'[q] = tmp[q]
                /\ body'[q] = body[q] /\ result'[q] = result[q]
         /\ UNCHANGED <<deleteVars, listed, owned>>
BY DEF TypeOK, PutNext, BeginPut, MkdirAll, CreateTemp, Copy, Check, Rename, Cleanup,
       KillPut, Goto, Return, Fail

(* A step of a Put draws a fresh name, or keeps the one it has.             *)
LEMMA DrawnNext ==
  ASSUME TypeOK, OwnTemps, NEW p \in PutCall, PutNext(p)
  PROVE  \/ drawn' = drawn /\ tmp'[p] \in {tmp[p], None}
         \/ tmp'[p] \in Temp \ drawn /\ drawn' = drawn \cup {tmp'[p]}
<1> USE DEF TypeOK, Goto, Return, Fail
<1>1. CASE BeginPut(p) \/ MkdirAll(p) \/ CreateTemp(p) \/ KillPut(p)
  BY <1>1 DEF BeginPut, MkdirAll, CreateTemp, KillPut
<1>2. CASE Copy(p) \/ Check(p) \/ Rename(p) \/ Cleanup(p)
  BY <1>2 DEF Copy, Check, Rename, Cleanup
<1> QED BY <1>1, <1>2 DEF PutNext

(* It writes to no other name than its own and the key.                     *)
LEMMA DiskNext ==
  ASSUME TypeOK, OwnTemps, NEW p \in PutCall, PutNext(p)
  PROVE  \A n \in Name : disk'[n] # disk[n] =>
             n = Key \/ n = tmp[p] \/ (n = tmp'[p] /\ n \notin drawn)
<1> USE DEF TypeOK
<1>1. CASE BeginPut(p) \/ MkdirAll(p) \/ KillPut(p) \/ Check(p)
  BY <1>1 DEF BeginPut, MkdirAll, KillPut, Check
<1>2. CASE CreateTemp(p)
  BY <1>2 DEF CreateTemp
<1>3. CASE Copy(p) \/ Rename(p) \/ Cleanup(p)
  BY <1>3 DEF Copy, Rename, Cleanup
<1> QED BY <1>1, <1>2, <1>3 DEF PutNext

LEMMA OwnTempsNext == TypeOK /\ OwnTemps /\ [Next]_vars => OwnTemps'
<1> SUFFICES ASSUME TypeOK, OwnTemps, [Next]_vars PROVE OwnTemps'
  OBVIOUS
<1>1. ASSUME NEW p \in PutCall, PutNext(p) PROVE OwnTemps'
  <2> USE DEF OwnTemps
  <2>1. \A q \in PutCall : tmp'[q] \in drawn' \cup {None}
    BY <1>1, OthersKept, DrawnNext
  <2>2. \A q, r \in PutCall : tmp'[q] = tmp'[r] /\ tmp'[q] # None => q = r
    BY <1>1, OthersKept, DrawnNext
  <2>3. \A t \in Temp \ drawn' : disk'[t] = None
    BY <1>1, DrawnNext, DiskNext
  <2>4. \A q \in PutCall \ {p} : pc[q] \in {"copy", "check", "rename", "cleanup"} =>
            disk'[tmp[q]] = disk[tmp[q]]
    BY <1>1, DiskNext
  <2>5. /\ pc'[p] \in {"copy", "check", "rename", "cleanup"} => tmp'[p] \in Temp
        /\ pc'[p] = "cleanup" => result'[p] \in {"ok", "failed"}
    BY <1>1 DEF TypeOK, PutNext, BeginPut, MkdirAll, CreateTemp, Copy, Check, Rename,
                Cleanup, KillPut, Goto, Return, Fail
  <2>6. /\ pc'[p] \in {"check", "rename"} => disk'[tmp'[p]] \in {None, body'[p]}
        /\ pc'[p] = "rename" => body'[p] = declared
    <3>1. CASE Copy(p)
      BY <3>1 DEF TypeOK, Copy, Goto, Fail, Exists
    <3>2. CASE Check(p)
      BY <3>2 DEF TypeOK, Check, Goto, Fail
    <3>3. CASE BeginPut(p) \/ MkdirAll(p) \/ CreateTemp(p) \/ Rename(p) \/ Cleanup(p) \/ KillPut(p)
      BY <3>3 DEF TypeOK, BeginPut, MkdirAll, CreateTemp, Rename, Cleanup, KillPut,
                  Goto, Return, Fail
    <3> QED BY <1>1, <3>1, <3>2, <3>3 DEF PutNext
  <2> QED BY <1>1, <2>1, <2>2, <2>3, <2>4, <2>5, <2>6, OthersKept
<1>2. ASSUME NEW d \in Delete, DeleteNext(d) PROVE OwnTemps'
  <2>1. UNCHANGED <<pc, tmp, body, result, drawn>>
    BY <1>2 DEF DeleteNext, BeginDelete, Unlink, Prune, KillDelete
  <2>2. \A n \in Name : disk'[n] \in {disk[n], None}
    BY <1>2 DEF DeleteNext, BeginDelete, Unlink, Prune, KillDelete, TypeOK
  <2> QED BY <2>1, <2>2 DEF OwnTemps
<1>3. CASE (\E n \in Name : Age(n)) \/ DropRow \/ ListExpired \/ SweepOrphan
  BY <1>3 DEF Age, DropRow, ListExpired, SweepOrphan, OwnTemps
<1>4. CASE UNCHANGED vars
  BY <1>4 DEF vars, OwnTemps
<1> QED BY <1>1, <1>2, <1>3, <1>4, StepCases

LEMMA DirNext == Safe /\ [Next]_vars => DirKept'
<1> SUFFICES ASSUME Safe, [Next]_vars PROVE DirKept'
  OBVIOUS
<1> USE DEF Safe, DirKept, Exists
<1>0. ASSUME dir' = dir, \A n \in Name : disk[n] = None => disk'[n] = None
      PROVE  DirKept'
  BY <1>0
<1>1. ASSUME NEW p \in PutCall, PutNext(p) PROVE DirKept'
  <2>1. CASE BeginPut(p) \/ Check(p) \/ KillPut(p)
    BY <2>1, <1>0 DEF BeginPut, Check, KillPut
  <2>2. CASE MkdirAll(p) \/ CreateTemp(p)
    BY <2>2 DEF MkdirAll, CreateTemp, TypeOK
  <2>3. CASE Copy(p) \/ Rename(p) \/ Cleanup(p)
    <3>1. tmp[p] \in Temp
      BY <2>3 DEF Copy, Rename, Cleanup, OwnTemps
    <3> QED BY <2>3, <3>1 DEF Copy, Rename, Cleanup, TypeOK
  <2> QED BY <1>1, <2>1, <2>2, <2>3 DEF PutNext
<1>2. ASSUME NEW d \in Delete, DeleteNext(d) PROVE DirKept'
  <2>1. CASE BeginDelete(d) \/ Unlink(d) \/ KillDelete(d)
    BY <2>1, <1>0 DEF BeginDelete, Unlink, KillDelete, TypeOK
  <2>2. CASE Prune(d)
    BY <2>2 DEF Prune
  <2> QED BY <1>2, <2>1, <2>2 DEF DeleteNext
<1>3. CASE (\E n \in Name : Age(n)) \/ DropRow \/ ListExpired \/ SweepOrphan
  BY <1>3, <1>0 DEF Age, DropRow, ListExpired, SweepOrphan
<1>4. CASE UNCHANGED vars
  BY <1>4, <1>0 DEF vars
<1> QED BY <1>1, <1>2, <1>3, <1>4, StepCases

LEMMA KeyDeletesNext == TypeOK /\ KeyDeletes /\ [Next]_vars => KeyDeletes'
<1> SUFFICES ASSUME TypeOK, KeyDeletes, [Next]_vars PROVE KeyDeletes'
  OBVIOUS
<1>1. ASSUME NEW d \in Delete, DeleteNext(d) PROVE KeyDeletes'
  BY <1>1 DEF DeleteNext, BeginDelete, Unlink, Prune, KillDelete, TypeOK, KeyDeletes
<1>2. CASE SweepOrphan
  BY <1>2 DEF SweepOrphan, TypeOK, KeyDeletes
<1>3. CASE (\E p \in PutCall : PutNext(p)) \/ (\E n \in Name : Age(n)) \/ DropRow
           \/ ListExpired \/ UNCHANGED vars
  BY <1>3, OthersKept DEF Age, DropRow, ListExpired, KeyDeletes, vars
<1> QED BY <1>1, <1>2, <1>3, StepCases

LEMMA SafeInvariant == Spec => []Safe
<1>1. Init => Safe
  BY DEF Init, Safe, TypeOK, OwnTemps, DirKept, KeyDeletes, Exists
<1>2. Safe /\ [Next]_vars => Safe'
  BY TypeNext, OwnTempsNext, DirNext, KeyDeletesNext DEF Safe
<1> QED BY <1>1, <1>2, PTL DEF Spec

-----------------------------------------------------------------------------
(* No delete of the key takes a Put's temporary file or directory away.     *)
THEOREM TempsAreKept == Spec => PutsKeepTheirTemps
<1> DEFINE Kept ==
        \A p \in PutCall :
           /\ pc[p] \in {"copy", "check", "rename"} /\ Exists(tmp[p])
           /\ pc'[p] = pc[p]
           => \/ dir' /\ disk'[tmp[p]] # None
              \/ target[Sweeper] = tmp[p] /\ dpc[Sweeper] = "unlink"
<1>1. Safe /\ Safe' /\ [Next]_vars => Kept
  <2> SUFFICES ASSUME Safe, Safe', [Next]_vars, NEW p \in PutCall,
                      pc[p] \in {"copy", "check", "rename"}, Exists(tmp[p]), pc'[p] = pc[p],
                      ~(target[Sweeper] = tmp[p] /\ dpc[Sweeper] = "unlink")
               PROVE  disk'[tmp[p]] # None /\ dir'
    OBVIOUS
  <2>1. SUFFICES disk'[tmp[p]] # None
    BY <2>1 DEF Safe, DirKept, Exists, OwnTemps
  <2>t. tmp[p] \in Temp /\ TypeOK /\ disk[tmp[p]] # None
    BY DEF Safe, OwnTemps, Exists
  <2>2. ASSUME NEW q \in PutCall, PutNext(q) PROVE disk'[tmp[p]] # None
    <3>1. CASE q = p
      BY <2>2, <2>t, <3>1 DEF PutNext, BeginPut, MkdirAll, CreateTemp, Copy, Check, Rename,
                  Cleanup, KillPut, Goto, Return, Fail, TypeOK
    <3>2. CASE q # p
      BY <2>2, <2>t, <3>2, DiskNext DEF Safe, OwnTemps
    <3> QED BY <3>1, <3>2
  <2>3. ASSUME NEW d \in Delete, DeleteNext(d) PROVE disk'[tmp[p]] # None
    <3>1. CASE Unlink(d)
      BY <2>t, <3>1 DEF Unlink, TypeOK, Safe, KeyDeletes
    <3>2. CASE BeginDelete(d) \/ Prune(d) \/ KillDelete(d)
      BY <2>t, <3>2 DEF BeginDelete, Prune, KillDelete
    <3> QED BY <2>3, <3>1, <3>2 DEF DeleteNext
  <2>4. CASE (\E n \in Name : Age(n)) \/ DropRow \/ ListExpired \/ SweepOrphan
    BY <2>4, <2>t DEF Age, DropRow, ListExpired, SweepOrphan
  <2>5. CASE UNCHANGED vars
    BY <2>5, <2>t DEF vars
  <2> QED BY <2>2, <2>3, <2>4, <2>5, StepCases
<1>2. Safe /\ Safe' /\ [Next]_vars => [Kept]_vars
  BY <1>1
<1> QED BY <1>2, SafeInvariant, PTL DEF Spec, PutsKeepTheirTemps

-----------------------------------------------------------------------------
(* What a step does to the key, to the calls' phases and to nothing else.   *)
PutNow(p) == PutPhase(pc[p], result[p])
DeleteNow(d) == DeletePhase(dpc[d], target[d])

LEMMA PutPhases ==
  ASSUME NEW p \in PutCall, UNCHANGED deleteVars,
         \A q \in PutCall \ {p} : pc'[q] = pc[q] /\ result'[q] = result[q],
         \/ disk'[Key] = disk[Key] /\ PutNow(p)' = PutNow(p)
         \/ disk'[Key] = disk[Key] /\ PutNow(p)' = "idle"
         \/ disk'[Key] = disk[Key] /\ PutNow(p) = "idle" /\ PutNow(p)' = "called"
         \/ disk'[Key] = disk[Key] /\ PutNow(p) = "called" /\ PutNow(p)' = "failed"
         \/ disk'[Key] = declared /\ PutNow(p) = "called" /\ PutNow(p)' = "ok"
  PROVE  [K!AtomicNext]_(K!keyVars)
<1> DEFINE ph == [q \in PutCall |-> PutPhase(pc[q], result[q])]
           dp == [d \in Delete |-> DeletePhase(dpc[d], target[d])]
<1>1. ph' = [ph EXCEPT ![p] = PutNow(p)']
  BY DEF PutPhase, PutNow
<1>2. dp' = dp /\ ph[p] = PutNow(p)
  BY DEF PutNow
<1>3. CASE disk'[Key] = disk[Key] /\ PutNow(p)' = PutNow(p)
  <2>1. ph' = ph
    BY <1>1, <1>2, <1>3
  <2> QED BY <1>2, <1>3, <2>1 DEF K!keyVars
<1>4. CASE disk'[Key] = disk[Key] /\ PutNow(p)' = "idle"
  <2>1. K!PutMoves(p)
    BY <1>1, <1>2, <1>4 DEF K!PutMoves
  <2> QED BY <2>1 DEF K!AtomicNext
<1>5. CASE disk'[Key] = disk[Key] /\ PutNow(p) = "idle" /\ PutNow(p)' = "called"
  <2>1. K!PutMoves(p)
    BY <1>1, <1>2, <1>5 DEF K!PutMoves
  <2> QED BY <2>1 DEF K!AtomicNext
<1>6. CASE disk'[Key] = disk[Key] /\ PutNow(p) = "called" /\ PutNow(p)' = "failed"
  <2>1. K!PutMoves(p)
    BY <1>1, <1>2, <1>6 DEF K!PutMoves
  <2> QED BY <2>1 DEF K!AtomicNext
<1>7. CASE disk'[Key] = declared /\ PutNow(p) = "called" /\ PutNow(p)' = "ok"
  <2>1. K!PutTakesEffect(p)
    BY <1>1, <1>2, <1>7 DEF K!PutTakesEffect
  <2> QED BY <2>1 DEF K!AtomicNext
<1> QED BY <1>3, <1>4, <1>5, <1>6, <1>7

LEMMA DeletePhases ==
  ASSUME NEW d \in Delete, UNCHANGED putVars,
         \A e \in Delete \ {d} : dpc'[e] = dpc[e] /\ target'[e] = target[e],
         \/ disk'[Key] = disk[Key] /\ DeleteNow(d)' = DeleteNow(d)
         \/ disk'[Key] = disk[Key] /\ DeleteNow(d)' = "idle"
         \/ disk'[Key] = disk[Key] /\ DeleteNow(d) = "idle" /\ DeleteNow(d)' = "called"
         \/ disk'[Key] = None /\ DeleteNow(d) = "called" /\ DeleteNow(d)' = "ok"
  PROVE  [K!AtomicNext]_(K!keyVars)
<1> DEFINE ph == [q \in PutCall |-> PutPhase(pc[q], result[q])]
           dp == [e \in Delete |-> DeletePhase(dpc[e], target[e])]
<1>1. dp' = [dp EXCEPT ![d] = DeleteNow(d)']
  BY DEF DeletePhase, DeleteNow
<1>2. ph' = ph /\ dp[d] = DeleteNow(d)
  BY DEF DeleteNow
<1>3. CASE disk'[Key] = disk[Key] /\ DeleteNow(d)' = DeleteNow(d)
  <2>1. dp' = dp
    BY <1>1, <1>2, <1>3
  <2> QED BY <1>2, <1>3, <2>1 DEF K!keyVars
<1>4. CASE disk'[Key] = disk[Key] /\ DeleteNow(d)' = "idle"
  <2>1. K!DeleteMoves(d)
    BY <1>1, <1>2, <1>4 DEF K!DeleteMoves
  <2> QED BY <2>1 DEF K!AtomicNext
<1>5. CASE disk'[Key] = disk[Key] /\ DeleteNow(d) = "idle" /\ DeleteNow(d)' = "called"
  <2>1. K!DeleteMoves(d)
    BY <1>1, <1>2, <1>5 DEF K!DeleteMoves
  <2> QED BY <2>1 DEF K!AtomicNext
<1>6. CASE disk'[Key] = None /\ DeleteNow(d) = "called" /\ DeleteNow(d)' = "ok"
  <2>1. K!DeleteTakesEffect(d)
    BY <1>1, <1>2, <1>6 DEF K!DeleteTakesEffect
  <2> QED BY <2>1 DEF K!AtomicNext
<1> QED BY <1>3, <1>4, <1>5, <1>6

LEMMA AtomicStep ==
  ASSUME Safe, [Next]_vars
  PROVE  [K!AtomicNext]_(K!keyVars)
<1> USE DEF Safe
<1>t. TypeOK /\ OwnTemps
  OBVIOUS
<1>1. ASSUME NEW p \in PutCall, PutNext(p) PROVE [K!AtomicNext]_(K!keyVars)
  <2> USE DEF PutNow, PutPhase, Goto, Return, Fail
  <2>1. \/ disk'[Key] = disk[Key] /\ PutNow(p)' \in {PutNow(p), "idle"}
        \/ disk'[Key] = disk[Key] /\ PutNow(p) = "idle" /\ PutNow(p)' = "called"
        \/ disk'[Key] = disk[Key] /\ PutNow(p) = "called" /\ PutNow(p)' = "failed"
        \/ disk'[Key] = declared /\ PutNow(p) = "called" /\ PutNow(p)' = "ok"
    <3>1. CASE BeginPut(p) \/ KillPut(p) \/ Check(p)
      BY <3>1, <1>t DEF BeginPut, KillPut, Check, TypeOK
    <3>2. CASE MkdirAll(p) \/ CreateTemp(p)
      BY <3>2, <1>t DEF MkdirAll, CreateTemp, TypeOK
    <3>3. CASE Copy(p)
      BY <3>3, <1>t DEF Copy, TypeOK, OwnTemps
    <3>4. CASE Rename(p)
      BY <3>4, <1>t DEF Rename, TypeOK, OwnTemps, Exists
    <3>5. CASE Cleanup(p)
      BY <3>5, <1>t DEF Cleanup, TypeOK, OwnTemps
    <3> QED BY <1>1, <3>1, <3>2, <3>3, <3>4, <3>5 DEF PutNext
  <2> HIDE DEF PutNow, PutPhase
  <2> QED BY <1>1, <1>t, <2>1, OthersKept, PutPhases
<1>2. ASSUME NEW d \in Delete, DeleteNext(d) PROVE [K!AtomicNext]_(K!keyVars)
  <2>1. /\ UNCHANGED putVars
        /\ \A e \in Delete \ {d} : dpc'[e] = dpc[e] /\ target'[e] = target[e]
    BY <1>2, <1>t DEF DeleteNext, BeginDelete, Unlink, Prune, KillDelete, TypeOK
  <2>2. \/ disk'[Key] = disk[Key] /\ DeleteNow(d)' \in {DeleteNow(d), "idle"}
        \/ disk'[Key] = disk[Key] /\ DeleteNow(d) = "idle" /\ DeleteNow(d)' = "called"
        \/ disk'[Key] = None /\ DeleteNow(d) = "called" /\ DeleteNow(d)' = "ok"
    <3>1. CASE BeginDelete(d) \/ Prune(d) \/ KillDelete(d)
      BY <3>1, <1>t DEF BeginDelete, Prune, KillDelete, DeleteNow, DeletePhase, TypeOK
    <3>2. CASE Unlink(d)
      BY <3>2, <1>t DEF Unlink, DeleteNow, DeletePhase, TypeOK
    <3> QED BY <1>2, <3>1, <3>2 DEF DeleteNext
  <2> QED BY <2>1, <2>2, DeletePhases
<1>3. CASE SweepOrphan
  <2>1. CASE UNCHANGED deleteVars
    BY <1>3, <2>1 DEF SweepOrphan, K!keyVars
  <2>2. CASE dpc' = [dpc EXCEPT ![Sweeper] = "unlink"] /\ dpc[Sweeper] = "idle"
    <3>1. /\ \A e \in Delete \ {Sweeper} : dpc'[e] = dpc[e] /\ target'[e] = target[e]
          /\ disk' = disk /\ UNCHANGED putVars
      BY <1>3, <2>2, <1>t DEF SweepOrphan, TypeOK
    <3>2. DeleteNow(Sweeper) = "idle" /\ DeleteNow(Sweeper)' \in {"idle", "called"}
      BY <2>2, <1>t DEF DeleteNow, DeletePhase, TypeOK
    <3> QED BY <3>1, <3>2, DeletePhases
  <2> QED BY <1>3, <2>1, <2>2 DEF SweepOrphan
<1>4. CASE (\E n \in Name : Age(n)) \/ DropRow \/ ListExpired \/ UNCHANGED vars
  BY <1>4 DEF Age, DropRow, ListExpired, vars, K!keyVars
<1> QED BY <1>1, <1>2, <1>3, <1>4, StepCases

(* Every put and every delete of a key is atomic.                           *)
THEOREM FileStoreImplementsAtomicKey == Spec => AtomicSpec
<1>1. Init => K!AtomicInit
  BY DEF Init, K!AtomicInit, PutPhase, DeletePhase
<1>2. Safe /\ [Next]_vars => [K!AtomicNext]_(K!keyVars)
  BY AtomicStep
<1> QED BY <1>1, <1>2, SafeInvariant, PTL DEF Spec, AtomicSpec, K!AtomicSpec

=============================================================================
