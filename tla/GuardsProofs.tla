---------------------------- MODULE GuardsProofs ----------------------------
(***************************************************************************)
(* What the guards decide, for every catalogue, every list of grants and of *)
(* requirements, and any number of principals and keys.                     *)
(*                                                                          *)
(* The loop invariant of EffectivePermissions is Folded: the permissions    *)
(* are the highest among the grants seen so far, all of which are valid.    *)
(***************************************************************************)
EXTENDS Guards, TLAPS

Folded(n) ==
    /\ \A i \in 1..n : Valid(gs[i])
    /\ \A i \in 1..n : level[gs[i].access] <= level[perms[gs[i].resource]]
    /\ \A r \in Catalogue :
           \/ perms[r] = "none"
           \/ \E i \in 1..n : gs[i].resource = r /\ gs[i].access = perms[r]

ReqsValid == \A i \in DOMAIN op.reqs : Valid(op.reqs[i])

LoopOK ==
    /\ pc = "authenticate" => gs = <<>>
    /\ pc = "fold" => k \in 1..(Len(gs) + 1) /\ Folded(k - 1)
    /\ pc = "decide" => Folded(Len(gs))

StageOK ==
    /\ pc = "authenticate" => stage = "admit"
    /\ stage = "guard" /\ pc \in {"load", "fold", "decide"} => who # None /\ ReqsValid

AnswerOK ==
    /\ pc # "done" => answer = "none"
    /\ answer \in {"served", "forbidden"} =>
           Folded(Len(gs)) /\ ReqsValid /\ (answer = "served" <=> CanAll)
    /\ answer = "served" => who # None

(* From the grants that admission loads to the principal at the guard.      *)
AdmissionOK ==
    /\ stage = "admit" /\ pc \in {"authenticate", "load"} => ~cleared
    /\ stage = "admit" /\ pc \in {"fold", "decide"} => (cleared <=> GivesAccess(gs))
    /\ stage = "admit" /\ pc \in {"load", "fold", "decide"} => who # None
    /\ admits /\ (pc = "guard" \/ stage = "guard" \/ answer = "unauthorized") =>
           (who # None <=> cleared)

(* Keys are drawn anew each time, so one that was given up stays so.        *)
KeysOK ==
    /\ \A u \in Principal : owner[u] # None => holder[owner[u]] = u
    /\ late => bearer # None /\ holder[bearer] # None /\ \A u \in Principal : owner[u] # bearer
    /\ pc # "authenticate" /\ who # None /\ bearer # None => holder[bearer] = who /\ ~late
    /\ pc = "authenticate" => who = None

Inv == TypeOK /\ LoopOK /\ StageOK /\ AnswerOK /\ AdmissionOK /\ KeysOK

-----------------------------------------------------------------------------
LEMMA Levels ==
    /\ level["none"] = 0 /\ level["view"] = 1 /\ level["edit"] = 2 /\ level["other"] = -1
    /\ \A a \in Access \cup {"other"} : level[a] \in Int
  BY DEF level, Access

LEMMA OperationReqs ==
  ASSUME NEW o \in Operation PROVE o.reqs \in Seq(Permission)
<1>1. CASE o \in [optional : BOOLEAN, method : {None}, reqs : Requirements]
  BY <1>1, GuardsAssumption
<1>2. ASSUME NEW b \in BOOLEAN, NEW m \in Method, NEW r \in Resource,
             o = [optional |-> b, method |-> m,
                  reqs |-> <<[resource |-> r, access |-> Required(m)]>>]
      PROVE  o.reqs \in Seq(Permission)
  <2>1. [resource |-> r, access |-> Required(m)] \in Permission
    BY DEF Permission, Required, Access
  <2> QED BY <2>1, <1>2
<1> QED BY <1>1, <1>2 DEF Operation

LEMMA InitInv == Init => Inv
<1> SUFFICES ASSUME Init PROVE Inv
  OBVIOUS
<1>1. TypeOK
  <2>1. perms \in [Catalogue -> Access] /\ gs \in Seq(Permission) /\ k \in Nat
    BY DEF Init, NoPermissions, Access
  <2>2. owner \in [Principal -> Key \cup {None}] /\ holder \in [Key -> Principal \cup {None}]
    BY DEF Init
  <2> QED BY <2>1, <2>2 DEF Init, TypeOK
<1>2. LoopOK /\ StageOK /\ AnswerOK /\ AdmissionOK /\ KeysOK
  BY DEF Init, LoopOK, StageOK, AnswerOK, AdmissionOK, KeysOK
<1> QED BY <1>1, <1>2 DEF Inv

-----------------------------------------------------------------------------
(* Keys are rotated and revoked under a request in progress.                *)
LEMMA KeyStepsKeep ==
  ASSUME Inv, NEW u \in Principal, RotateAPIKey(u) \/ RevokeAPIKey(u)
  PROVE  Inv'
<1> USE DEF Inv
<1>1. UNCHANGED <<admits, pc, inputVars, who, stage, evalVars, cleared, answer>>
  BY DEF RotateAPIKey, RevokeAPIKey
<1>2. TypeOK'
  <2>1. owner' \in [Principal -> Key \cup {None}] /\ holder' \in [Key -> Principal \cup {None}]
    BY DEF RotateAPIKey, RevokeAPIKey, TypeOK
  <2> QED BY <2>1, <1>1 DEF TypeOK, inputVars, evalVars
<1>3. LoopOK' /\ StageOK' /\ AnswerOK' /\ AdmissionOK'
  BY <1>1 DEF LoopOK, StageOK, AnswerOK, AdmissionOK, inputVars, evalVars, Folded, ReqsValid,
              CanAll, GivesAccess
<1>4. KeysOK'
  <2>1. CASE RevokeAPIKey(u)
    BY <2>1, <1>1, GuardsAssumption DEF RevokeAPIKey, TypeOK, KeysOK, inputVars
  <2>2. CASE RotateAPIKey(u)
    <3>1. PICK c \in Key : /\ holder[c] = None
                           /\ holder' = [holder EXCEPT ![c] = u]
                           /\ owner' \in {owner, [owner EXCEPT ![u] = c]}
      BY <2>2 DEF RotateAPIKey
    <3>2. \A v \in Principal : owner'[v] # None => holder'[owner'[v]] = v
      BY <3>1, GuardsAssumption DEF TypeOK, KeysOK
    <3>3. late => bearer # None /\ holder'[bearer] # None /\ \A v \in Principal : owner'[v] # bearer
      BY <3>1, GuardsAssumption DEF TypeOK, KeysOK
    <3>4. pc # "authenticate" /\ who # None /\ bearer # None => holder'[bearer] = who /\ ~late
      BY <3>1, GuardsAssumption DEF TypeOK, KeysOK
    <3> QED BY <3>2, <3>3, <3>4, <1>1 DEF KeysOK, inputVars
  <2> QED BY <2>1, <2>2
<1> QED BY <1>2, <1>3, <1>4

LEMMA ArriveKeeps == ASSUME Inv, Arrive PROVE Inv'
<1> USE DEF Inv, Arrive
<1>1. TypeOK'
  <2>1. late' \in BOOLEAN /\ cleared' \in BOOLEAN
    OBVIOUS
  <2>2. perms' \in [Catalogue -> Access] /\ gs' \in Seq(Permission) /\ k' \in Nat
    BY DEF NoPermissions, Access
  <2> QED BY <2>1, <2>2 DEF TypeOK, keyVars
<1>2. LoopOK' /\ StageOK' /\ AnswerOK' /\ AdmissionOK'
  BY DEF LoopOK, StageOK, AnswerOK, AdmissionOK
<1>3. KeysOK'
  BY DEF KeysOK, keyVars
<1> QED BY <1>1, <1>2, <1>3

LEMMA AuthenticateKeeps == ASSUME Inv, Authenticate PROVE Inv'
<1> USE DEF Inv, Authenticate, Answer, Goto, NotAuthenticated
<1>1. TypeOK'
  BY DEF TypeOK, keyVars, inputVars, evalVars
<1>2. LoopOK' /\ StageOK'
  BY DEF LoopOK, StageOK, evalVars, Folded, TypeOK
<1>3. AnswerOK'
  BY DEF AnswerOK, LoopOK, StageOK, evalVars, TypeOK
<1>4. KeysOK'
  BY GuardsAssumption DEF KeysOK, Names, keyVars, inputVars, TypeOK
<1>5. AdmissionOK'
  <2>1. stage = "admit" /\ stage' = "admit" /\ ~cleared /\ ~cleared' /\ admits' = admits
    BY DEF StageOK, AdmissionOK
  <2>2. pc' \in {"guard", "load", "done"} /\ (pc' = "load" => who' # None)
    BY GuardsAssumption
  <2>3. admits /\ (pc' = "guard" \/ answer' = "unauthorized") => who' = None
    BY DEF AnswerOK
  <2> HIDE DEF Inv, Authenticate, Answer, Goto, NotAuthenticated
  <2> QED BY <2>1, <2>2, <2>3 DEF AdmissionOK
<1> QED BY <1>1, <1>2, <1>3, <1>4, <1>5

LEMMA GuardKeeps == ASSUME Inv, Guard PROVE Inv'
<1> USE DEF Inv, Guard, Answer, Goto
<1>1. TypeOK'
  BY DEF TypeOK, keyVars, inputVars, evalVars
<1>2. LoopOK'
  BY DEF LoopOK
<1>3. StageOK'
  BY DEF StageOK, ReqsValid, Valid, inputVars
<1>4. AnswerOK' /\ AdmissionOK'
  BY DEF AnswerOK, AdmissionOK
<1>5. KeysOK'
  BY DEF KeysOK, keyVars, inputVars
<1> QED BY <1>1, <1>2, <1>3, <1>4, <1>5

LEMMA LoadKeeps == ASSUME Inv, Load PROVE Inv'
<1> USE DEF Inv, Load, Answer, Goto
<1>1. TypeOK'
  <2>1. cleared' \in BOOLEAN
    BY DEF TypeOK, GivesAccess
  <2>2. gs' \in Seq(Permission) /\ perms' \in [Catalogue -> Access] /\ k' \in Nat
    BY GuardsAssumption DEF TypeOK, evalVars, NoPermissions, Access
  <2>3. pc' \in {"fold", "done"} /\ answer' \in {answer, "error"}
        /\ UNCHANGED <<admits, keyVars, inputVars, who, stage>>
    OBVIOUS
  <2> HIDE DEF Load, Answer, Goto
  <2> QED BY <2>1, <2>2, <2>3 DEF TypeOK, keyVars, inputVars
<1>2. LoopOK'
  <2>1. CASE pc' = "done"
    BY <2>1 DEF LoopOK
  <2>2. CASE pc' = "fold"
    <3>1. k' = 1 /\ perms' = NoPermissions
      BY <2>2
    <3>2. Len(gs') \in Nat
      BY <1>1 DEF TypeOK
    <3>3. k' \in 1..(Len(gs') + 1)
      BY <3>1, <3>2
    <3>4. Folded(k - 1)'
      BY <3>1 DEF Folded, NoPermissions
    <3> QED BY <2>2, <3>3, <3>4 DEF LoopOK
  <2> QED BY <2>1, <2>2
<1>3. StageOK'
  BY DEF StageOK, ReqsValid, Valid, inputVars
<1>4. AnswerOK'
  BY DEF AnswerOK
<1>5. KeysOK'
  BY DEF KeysOK, keyVars, inputVars
<1>6. AdmissionOK'
  BY DEF AdmissionOK, AnswerOK, TypeOK, GivesAccess
<1> QED BY <1>1, <1>2, <1>3, <1>4, <1>5, <1>6

(* A turn of the loop: the permission of the grant's resource is now the    *)
(* higher of the two, and every other one is as before.                     *)
LEMMA TurnKeeps ==
  ASSUME Inv, Fold, k <= Len(gs), Valid(gs[k])
  PROVE  perms' \in [Catalogue -> Access] /\ k' = k + 1 /\ Folded(k - 1)'
<1> USE DEF Inv
<1>1. pc = "fold" /\ k \in 1..Len(gs) /\ Folded(k - 1) /\ gs' = gs /\ Raise(gs[k])
  BY DEF Fold, LoopOK, TypeOK
<1>2. gs[k].resource \in Catalogue /\ gs[k].access \in Access
  <2>1. gs[k] \in Permission
    BY <1>1 DEF TypeOK
  <2> HIDE DEF Inv
  <2> QED BY <2>1, Levels DEF Valid, Permission
<1>3. perms' \in [Catalogue -> Access]
  BY <1>1, <1>2 DEF Raise, TypeOK
<1>4. \A r \in Catalogue : level[perms[r]] <= level[perms'[r]]
  BY <1>1, <1>2, <1>3, Levels DEF Raise, TypeOK, Access
<1>5. level[gs[k].access] <= level[perms'[gs[k].resource]]
  BY <1>1, <1>2, <1>3, Levels DEF Raise, TypeOK, Access
<1>6. \A i \in 1..k : Valid(gs[i]) /\ level[gs[i].access] <= level[perms'[gs[i].resource]]
  <2> SUFFICES ASSUME NEW i \in 1..k
               PROVE  Valid(gs[i]) /\ level[gs[i].access] <= level[perms'[gs[i].resource]]
    OBVIOUS
  <2>1. CASE i = k
    BY <2>1, <1>5
  <2>2. CASE i # k
    <3>1. i \in 1..(k - 1)
      BY <2>2, <1>1
    <3>2. Valid(gs[i]) /\ level[gs[i].access] <= level[perms[gs[i].resource]]
      BY <3>1, <1>1 DEF Folded
    <3>3. gs[i] \in Permission
      BY <3>1, <1>1 DEF TypeOK
    <3>4. /\ gs[i].resource \in Catalogue
          /\ level[gs[i].access] \in Int
          /\ level[perms[gs[i].resource]] \in Int
          /\ level[perms'[gs[i].resource]] \in Int
      BY <3>2, <3>3, <1>3, Levels DEF Valid, Permission, TypeOK
    <3> HIDE DEF Inv
    <3>5. level[perms[gs[i].resource]] <= level[perms'[gs[i].resource]]
      BY <3>4, <1>4
    <3> QED BY <3>2, <3>4, <3>5
  <2> QED BY <2>1, <2>2
<1>7. \A r \in Catalogue :
          \/ perms'[r] = "none"
          \/ \E i \in 1..k : gs[i].resource = r /\ gs[i].access = perms'[r]
  <2> SUFFICES ASSUME NEW r \in Catalogue, perms'[r] # "none"
               PROVE  \E i \in 1..k : gs[i].resource = r /\ gs[i].access = perms'[r]
    OBVIOUS
  <2>1. CASE perms'[r] = perms[r]
    BY <2>1, <1>1 DEF Folded
  <2>2. CASE perms'[r] # perms[r]
    <3>1. r = gs[k].resource /\ perms'[r] = gs[k].access
      BY <2>2, <1>1, <1>2 DEF Raise, TypeOK
    <3> QED BY <3>1, <1>1
  <2> QED BY <2>1, <2>2
<1>8. k' = k + 1
  BY <1>1 DEF Fold
<1>9. Folded(k - 1)'
  <2>1. k' - 1 = k
    BY <1>8, <1>1
  <2>2. gs' = gs
    BY <1>1
  <2> QED BY <2>1, <2>2, <1>6, <1>7 DEF Folded, Valid
<1> QED BY <1>3, <1>8, <1>9

LEMMA FoldKeeps == ASSUME Inv, Fold PROVE Inv'
<1>1. CASE k > Len(gs)
  <2>1. pc = "fold" /\ pc' = "decide" /\ UNCHANGED <<admits, keyVars, inputVars, who, stage, evalVars,
                                                      cleared, answer>>
    BY <1>1 DEF Fold, Goto, evalVars
  <2>2. Folded(Len(gs))
    <3>1. Len(gs) \in Nat /\ k \in 1..(Len(gs) + 1) /\ Folded(k - 1)
      BY <2>1 DEF Inv, LoopOK, TypeOK
    <3>2. k - 1 = Len(gs)
      BY <3>1, <1>1
    <3> QED BY <3>1, <3>2
  <2>3. TypeOK'
    BY <2>1 DEF Inv, TypeOK, keyVars, inputVars, evalVars
  <2>4. LoopOK'
    BY <2>1, <2>2 DEF LoopOK, Folded, evalVars
  <2>5. StageOK' /\ AnswerOK' /\ AdmissionOK' /\ KeysOK'
    BY <2>1 DEF Inv, StageOK, AnswerOK, AdmissionOK, KeysOK, ReqsValid, GivesAccess,
                keyVars, inputVars, evalVars
  <2> QED BY <2>3, <2>4, <2>5 DEF Inv
<1>2. CASE ~(k > Len(gs)) /\ Valid(gs[k])
  <2>1. pc = "fold" /\ pc' = "fold" /\ UNCHANGED <<admits, keyVars, inputVars, who, stage, gs,
                                                    cleared, answer>>
    BY <1>2 DEF Fold
  <2>2. k \in Nat /\ Len(gs) \in Nat /\ k \in 1..(Len(gs) + 1)
    BY <2>1 DEF Inv, TypeOK, LoopOK
  <2>3. perms' \in [Catalogue -> Access] /\ k' = k + 1 /\ Folded(k - 1)'
    BY <1>2, <2>2, TurnKeeps
  <2>4. TypeOK'
    BY <2>1, <2>2, <2>3 DEF Inv, TypeOK, keyVars, inputVars
  <2>5. LoopOK'
    BY <1>2, <2>1, <2>2, <2>3 DEF LoopOK
  <2>6. StageOK' /\ AnswerOK' /\ AdmissionOK' /\ KeysOK'
    BY <2>1 DEF Inv, StageOK, AnswerOK, AdmissionOK, KeysOK, ReqsValid, GivesAccess,
                keyVars, inputVars
  <2> QED BY <2>4, <2>5, <2>6 DEF Inv
<1>3. CASE ~(k > Len(gs)) /\ ~Valid(gs[k])
  <2>1. pc = "fold" /\ pc' = "done" /\ answer' = "error"
        /\ UNCHANGED <<admits, keyVars, inputVars, who, stage, evalVars, cleared>>
    BY <1>3 DEF Fold, Answer, evalVars
  <2>2. TypeOK'
    BY <2>1 DEF Inv, TypeOK, keyVars, inputVars, evalVars
  <2>3. LoopOK' /\ StageOK' /\ AnswerOK' /\ AdmissionOK'
    BY <2>1 DEF Inv, LoopOK, StageOK, AnswerOK, AdmissionOK
  <2>4. KeysOK'
    BY <2>1 DEF Inv, KeysOK, keyVars, inputVars
  <2> QED BY <2>2, <2>3, <2>4 DEF Inv
<1> QED BY <1>1, <1>2, <1>3

(* The permissions say what the list of grants says.                        *)
LEMMA AccessIsGiven ==
  ASSUME TypeOK, Folded(Len(gs)) PROVE HasAccess <=> GivesAccess(gs)
<1>1. Len(gs) \in Nat /\ DOMAIN gs = 1..Len(gs)
  BY DEF TypeOK
<1>2. \A i \in DOMAIN gs : Valid(gs[i])
  BY <1>1 DEF Folded
<1>3. ASSUME HasAccess PROVE GivesAccess(gs)
  <2>1. PICK r \in Catalogue : perms[r] \in {"view", "edit"}
    BY <1>3 DEF HasAccess
  <2>2. PICK i \in 1..Len(gs) : gs[i].access = perms[r]
    BY <2>1 DEF Folded
  <2> QED BY <1>1, <1>2, <2>1, <2>2 DEF GivesAccess
<1>4. ASSUME GivesAccess(gs) PROVE HasAccess
  <2>1. PICK i \in DOMAIN gs : gs[i].access # "none"
    BY <1>4 DEF GivesAccess
  <2>2. gs[i] \in Permission
    BY <2>1 DEF TypeOK
  <2>3. gs[i].resource \in Catalogue /\ gs[i].access \in {"view", "edit"}
    BY <1>2, <2>1, <2>2, Levels DEF Valid, Permission, Access
  <2>4. level[gs[i].access] <= level[perms[gs[i].resource]]
    BY <1>1, <2>1 DEF Folded
  <2>5. perms[gs[i].resource] \in Access
    BY <2>3 DEF TypeOK
  <2>6. perms[gs[i].resource] # "none"
    BY <2>3, <2>4, Levels
  <2> QED BY <2>3, <2>5, <2>6 DEF HasAccess, Access
<1> QED BY <1>3, <1>4

LEMMA AdmitKeeps == ASSUME Inv, AdmitPrincipal PROVE Inv'
<1>1. /\ pc = "decide" /\ stage = "admit" /\ who # None
      /\ UNCHANGED <<admits, keyVars, inputVars, stage, evalVars, cleared>>
  BY DEF Inv, AdmissionOK, AdmitPrincipal
<1>2. HasAccess <=> cleared
  BY <1>1, AccessIsGiven DEF Inv, LoopOK, AdmissionOK
<1>3. TypeOK'
  BY <1>1 DEF Inv, TypeOK, AdmitPrincipal, Answer, Goto, NotAuthenticated,
              keyVars, inputVars, evalVars
<1>4. pc' \in {"guard", "done"} /\ answer' \in {answer, "unauthorized"}
  BY DEF AdmitPrincipal, Answer, Goto, NotAuthenticated
<1>5. LoopOK' /\ StageOK'
  BY <1>4 DEF LoopOK, StageOK
<1>6. AnswerOK'
  BY <1>1, <1>4 DEF Inv, AnswerOK, AdmitPrincipal, Answer, Goto, NotAuthenticated
<1>7. AdmissionOK'
  <2>1. who' # None <=> cleared
    BY <1>1, <1>2 DEF AdmitPrincipal, NotAuthenticated
  <2> QED BY <1>1, <1>4, <2>1 DEF AdmissionOK
<1>8. KeysOK'
  BY <1>1 DEF Inv, KeysOK, AdmitPrincipal, Answer, Goto, NotAuthenticated, keyVars, inputVars
<1> QED BY <1>3, <1>5, <1>6, <1>7, <1>8 DEF Inv

LEMMA DecideKeeps == ASSUME Inv, Decide PROVE Inv'
<1>1. /\ pc = "decide" /\ stage = "guard" /\ Folded(Len(gs))
      /\ UNCHANGED <<admits, keyVars, inputVars, who, stage, evalVars, cleared>>
      /\ pc' = "done" /\ answer' = IF CanAll THEN "served" ELSE "forbidden"
  BY DEF Inv, LoopOK, Decide, Answer
<1>2. Folded(Len(gs))'
  BY <1>1 DEF Folded, evalVars
<1>3. TypeOK'
  BY <1>1 DEF Inv, TypeOK, keyVars, inputVars, evalVars
<1>4. LoopOK' /\ StageOK' /\ AdmissionOK'
  BY <1>1 DEF Inv, LoopOK, StageOK, AdmissionOK
<1>5. AnswerOK'
  <2>1. UNCHANGED <<op, gs, perms>>
    BY <1>1 DEF inputVars, evalVars
  <2>2. who # None /\ ReqsValid
    BY <1>1 DEF Inv, StageOK
  <2>3. ReqsValid'
    BY <2>1, <2>2 DEF ReqsValid, Valid
  <2>4. CanAll' <=> CanAll
    BY <2>1 DEF CanAll
  <2> QED BY <1>1, <1>2, <2>2, <2>3, <2>4 DEF AnswerOK
<1>6. KeysOK'
  BY <1>1 DEF Inv, KeysOK, keyVars, inputVars
<1> QED BY <1>3, <1>4, <1>5, <1>6 DEF Inv

LEMMA NextInv == Inv /\ [Next]_vars => Inv'
<1> SUFFICES ASSUME Inv, [Next]_vars PROVE Inv'
  OBVIOUS
<1>1. ASSUME NEW u \in Principal, RotateAPIKey(u) \/ RevokeAPIKey(u) PROVE Inv'
  BY <1>1, KeyStepsKeep
<1>2. CASE Arrive
  BY <1>2, ArriveKeeps
<1>3. CASE Authenticate
  BY <1>3, AuthenticateKeeps
<1>4. CASE Guard
  BY <1>4, GuardKeeps
<1>5. CASE Load
  BY <1>5, LoadKeeps
<1>6. CASE Fold
  BY <1>6, FoldKeeps
<1>7. CASE AdmitPrincipal
  BY <1>7, AdmitKeeps
<1>8. CASE Decide
  BY <1>8, DecideKeeps
<1>9. CASE UNCHANGED vars
  <2>1. TypeOK'
    BY <1>9 DEF Inv, TypeOK, vars, keyVars, inputVars, evalVars
  <2>2. LoopOK' /\ StageOK' /\ AnswerOK' /\ AdmissionOK' /\ KeysOK'
    BY <1>9 DEF Inv, LoopOK, StageOK, AnswerOK, AdmissionOK, KeysOK, ReqsValid, Folded, CanAll,
                GivesAccess, vars, keyVars, inputVars, evalVars
  <2> QED BY <2>1, <2>2 DEF Inv
<1> QED BY <1>1, <1>2, <1>3, <1>4, <1>5, <1>6, <1>7, <1>8, <1>9 DEF Next

LEMMA AlwaysInv == Spec => []Inv
  BY InitInv, NextInv, PTL DEF Spec

-----------------------------------------------------------------------------
(* The highest grant decides for a requirement that is valid.               *)
LEMMA HighestDecides ==
  ASSUME TypeOK, Folded(Len(gs)), NEW q \in Permission, Valid(q)
  PROVE  Granted(q) <=> level[perms[q.resource]] >= level[q.access]
<1>1. Len(gs) \in Nat /\ DOMAIN gs = 1..Len(gs)
  BY DEF TypeOK
<1>2. q.resource \in Catalogue /\ q.access \in Access
  BY Levels DEF Valid, Permission
<1>3. perms[q.resource] \in Access
  BY <1>2 DEF TypeOK
<1>4. ASSUME Granted(q) PROVE level[perms[q.resource]] >= level[q.access]
  <2>1. CASE q.access = "none"
    BY <2>1, <1>3, Levels DEF Access
  <2>2. ASSUME NEW i \in DOMAIN gs, gs[i].resource = q.resource,
               level[gs[i].access] >= level[q.access]
        PROVE  level[perms[q.resource]] >= level[q.access]
    <3>1. level[gs[i].access] <= level[perms[q.resource]]
      BY <2>2, <1>1 DEF Folded
    <3>2. gs[i] \in Permission
      BY <2>2 DEF TypeOK
    <3>3. /\ level[gs[i].access] \in Int /\ level[perms[q.resource]] \in Int
          /\ level[q.access] \in Int
      BY <3>2, <1>2, <1>3, Levels DEF Permission
    <3> QED BY <3>1, <3>3, <2>2
  <2> QED BY <1>4, <2>1, <2>2 DEF Granted
<1>5. ASSUME level[perms[q.resource]] >= level[q.access] PROVE Granted(q)
  <2>1. CASE perms[q.resource] = "none"
    BY <2>1, <1>5, <1>2, Levels DEF Granted, Access
  <2>2. CASE perms[q.resource] # "none"
    <3>1. PICK i \in 1..Len(gs) : gs[i].resource = q.resource /\ gs[i].access = perms[q.resource]
      BY <2>2, <1>2 DEF Folded
    <3> QED BY <3>1, <1>1, <1>5 DEF Granted
  <2> QED BY <2>1, <2>2
<1> QED BY <1>4, <1>5

LEMMA ServedGranted ==
  ASSUME Inv, answer \in {"served", "forbidden"}
  PROVE  /\ answer = "served" <=> \A i \in DOMAIN op.reqs : Granted(op.reqs[i])
         /\ \A i \in DOMAIN gs : Valid(gs[i])
<1>1. Folded(Len(gs)) /\ ReqsValid /\ (answer = "served" <=> CanAll) /\ TypeOK
  BY DEF Inv, AnswerOK
<1>2. \A i \in DOMAIN op.reqs : op.reqs[i] \in Permission
  BY <1>1, OperationReqs DEF TypeOK
<1>3. \A i \in DOMAIN op.reqs :
          Granted(op.reqs[i]) <=> level[perms[op.reqs[i].resource]] >= level[op.reqs[i].access]
  BY <1>1, <1>2, HighestDecides DEF ReqsValid
<1>4. \A i \in DOMAIN gs : Valid(gs[i])
  BY <1>1 DEF Folded, TypeOK
<1> QED BY <1>1, <1>3, <1>4 DEF CanAll

(* The guards answer by the grants as a whole, in whatever order            *)
(* EffectivePermissions meets them.                                         *)
THEOREM DecisionIsRight == Spec => []GrantsDecide
<1>1. Inv => GrantsDecide
  BY ServedGranted DEF GrantsDecide
<1> QED BY <1>1, AlwaysInv, PTL

(* Under Config.Admit the principal that reaches the guard, behind          *)
(* OptionalAuth and RequireAuth alike, is one whose grants at admission     *)
(* gave access, and whoever had such grants is admitted.                    *)
THEOREM AdmissionIsRight == Spec => []AdmissionDecides
<1>1. Inv => AdmissionDecides
  BY DEF Inv, AdmissionOK, AdmissionDecides
<1> QED BY <1>1, AlwaysInv, PTL

(* The TypeScript check and the service agree.                              *)
THEOREM ClientIsRight == Spec => []ClientAgrees
<1>1. Inv => ClientAgrees
  <2> SUFFICES ASSUME Inv, answer \in {"served", "forbidden"}
               PROVE  CanAll <=> ClientCanAll(perms)
    BY DEF ClientAgrees, Inv, AnswerOK
  <2>1. ReqsValid /\ TypeOK
    BY DEF Inv, AnswerOK
  <2>2. ASSUME NEW i \in DOMAIN op.reqs
        PROVE  Can(perms, op.reqs[i]) <=>
                   level[perms[op.reqs[i].resource]] >= level[op.reqs[i].access]
    <3>1. op.reqs[i] \in Permission /\ Valid(op.reqs[i])
      BY <2>1, <2>2, OperationReqs DEF ReqsValid, TypeOK
    <3>2. op.reqs[i].resource \in Catalogue /\ op.reqs[i].access \in Access
      BY <3>1, Levels DEF Valid, Permission
    <3>3. DOMAIN perms = Catalogue /\ perms[op.reqs[i].resource] \in Access
      BY <2>1, <3>2 DEF TypeOK
    <3> QED BY <3>2, <3>3 DEF Can
  <2> QED BY <2>2 DEF CanAll, ClientCanAll
<1> QED BY <1>1, AlwaysInv, PTL

(* ResourceAPI serves no writing operation to a viewer.                     *)
THEOREM WritesAreGuarded == Spec => []WritesNeedEdit
<1>1. Inv => WritesNeedEdit
  <2> SUFFICES ASSUME Inv, answer = "served", op.method \in Method \ {"GET", "HEAD"}
               PROVE  \E i \in DOMAIN gs : gs[i] = [resource |-> op.reqs[1].resource, access |-> "edit"]
    BY DEF WritesNeedEdit
  <2>1. op.method # None
    BY GuardsAssumption
  <2>2. PICK m \in Method, r \in Resource :
            op.method = m /\ op.reqs = <<[resource |-> r, access |-> Required(m)]>>
    BY <2>1 DEF Inv, TypeOK, Operation
  <2>3. Required(m) = "edit"
    BY <2>2 DEF Method, Required
  <2>4. Granted(op.reqs[1])
    BY <2>2, ServedGranted
  <2>5. PICK i \in DOMAIN gs : gs[i].resource = r /\ level[gs[i].access] >= 2
    BY <2>2, <2>3, <2>4, Levels DEF Granted
  <2>6. gs[i] \in Permission
    BY <2>5 DEF Inv, TypeOK
  <2>7. gs[i].access = "edit"
    BY <2>5, <2>6, Levels DEF Permission, Access
  <2>8. gs[i] = [resource |-> r, access |-> "edit"]
    BY <2>5, <2>6, <2>7 DEF Permission
  <2> QED BY <2>2, <2>5, <2>8
<1> QED BY <1>1, AlwaysInv, PTL

(* An API key is served as its principal, and not after it was given up.    *)
THEOREM KeysDecide == Spec => []KeyDecides
<1>1. Inv => KeyDecides
  BY DEF Inv, KeyDecides, KeysOK, AnswerOK
<1> QED BY <1>1, AlwaysInv, PTL

=============================================================================
