------------------------------- MODULE Guards -------------------------------
(***************************************************************************)
(* The guards of a protected operation: the adapters of auth/http and       *)
(* auth/huma around authn.Authenticate and authz.CanAll, the API keys that  *)
(* authenticate, and the evaluation of grants in auth/authz, grant by       *)
(* grant.  Beside it, the check that @woodleighschool/authz makes in the    *)
(* browser.                                                                 *)
(*                                                                          *)
(* Requests share nothing but what the application stores, so one request   *)
(* at a time stands for all; keys are rotated and revoked, and grants       *)
(* change, at any moment of it.  Config.Admit is absent or HasAccess.       *)
(***************************************************************************)
EXTENDS Integers, Sequences

CONSTANTS
    Resource,      \* resources that grants and requirements name
    Catalogue,     \* those the service knows
    Principal,
    Key,           \* API keys
    GrantLists,    \* what Store.Grants may return
    Requirements,  \* requirement lists of operations under RequireAPI
    None

Access == {"none", "view", "edit"}
Method == {"GET", "HEAD", "POST", "PUT", "PATCH", "DELETE"}
Permission == [resource : Resource, access : Access \cup {"other"}]

ASSUME GuardsAssumption ==
    /\ Catalogue \subseteq Resource
    /\ GrantLists \subseteq Seq(Permission)
    /\ Requirements \subseteq Seq(Permission)
    /\ None \notin Principal \cup Key \cup Method

(* Access.level.                                                            *)
level == [a \in Access \cup {"other"} |->
              CASE a = "none" -> 0 [] a = "view" -> 1 [] a = "edit" -> 2 [] OTHER -> -1]

(* Service.validate.                                                        *)
Valid(p) == p.resource \in Catalogue /\ level[p.access] >= 0

(* Faulty: PATCH is taken for a read.                                       *)
RequiredWithoutPatch(method) ==
    IF method \in {"POST", "PUT", "DELETE"} THEN "edit" ELSE "view"

(* ResourceAPI.                                                             *)
Required(method) == IF method \in {"POST", "PUT", "PATCH", "DELETE"} THEN "edit" ELSE "view"

(* An operation: whether OptionalAuth or RequireAuth is before it, its      *)
(* method, None for one under RequireAPI, and its requirements.             *)
Operation ==
    [optional : BOOLEAN, method : {None}, reqs : Requirements]
    \cup {[optional |-> o, method |-> m,
           reqs |-> <<[resource |-> r, access |-> Required(m)]>>] :
              o \in BOOLEAN, m \in Method, r \in Resource}

VARIABLES
    admits,  \* whether Config.Admit is HasAccess
    owner,   \* the API key of each principal
    holder,  \* the principal for whom a key was generated        (history)
    pc,      \* what the request does next
    op,      \* the operation it is for
    user,    \* the principal its session names
    bearer,  \* the API key it presents
    late,    \* whether that key was replaced or revoked before   (history)
    who,     \* the principal in its context
    stage,   \* who asks for permissions: "admit" or "guard"
    gs,      \* the grants of this evaluation
    k,       \* the next grant
    perms,   \* permissions so far
    cleared, \* whether the grants at admission gave access       (history)
    answer   \* how the request ended

keyVars == <<owner, holder>>
inputVars == <<op, user, bearer, late>>
evalVars == <<gs, k, perms>>
vars == <<admits, keyVars, pc, inputVars, who, stage, evalVars, cleared, answer>>

NoPermissions == [r \in Catalogue |-> "none"]

Init ==
    /\ admits \in BOOLEAN
    /\ owner = [u \in Principal |-> None]
    /\ holder = [c \in Key |-> None]
    /\ pc = "idle"
    /\ op \in Operation
    /\ user = None
    /\ bearer = None
    /\ late = FALSE
    /\ who = None
    /\ stage = "admit"
    /\ gs = <<>>
    /\ k = 1
    /\ perms = NoPermissions
    /\ cleared = FALSE
    /\ answer = "none"

-----------------------------------------------------------------------------
(* RotateAPIKey draws a new key and sets it; the write may fail, with or    *)
(* without effect.                                                          *)
RotateAPIKey(u) ==
    /\ \E c \in Key :
           /\ holder[c] = None
           /\ holder' = [holder EXCEPT ![c] = u]
           /\ owner' \in {owner, [owner EXCEPT ![u] = c]}
    /\ UNCHANGED <<admits, pc, inputVars, who, stage, evalVars, cleared, answer>>

RevokeAPIKey(u) ==
    /\ owner' = [owner EXCEPT ![u] = None]
    /\ UNCHANGED <<admits, holder, pc, inputVars, who, stage, evalVars, cleared, answer>>

(* A request, for any operation, with a session or not, with a well-formed  *)
(* bearer token or not.                                                     *)
Arrive ==
    /\ pc \in {"idle", "done"}
    /\ pc' = "authenticate"
    /\ user' \in Principal \cup {None}
    /\ bearer' \in Key \cup {None}
    /\ late' = (bearer' # None /\ holder[bearer'] # None
                /\ \A u \in Principal : owner[u] # bearer')
    /\ who' = None
    /\ stage' = "admit"
    /\ gs' = <<>> /\ k' = 1 /\ perms' = NoPermissions
    /\ cleared' = FALSE
    /\ answer' = "none"
    /\ UNCHANGED <<admits, keyVars, op>>

Answer(a) == pc' = "done" /\ answer' = a
Goto(l) == pc' = l /\ UNCHANGED answer

(* ErrNotAuthenticated, as RequireAuth and OptionalAuth take it.            *)
NotAuthenticated ==
    /\ who' = None
    /\ IF op.optional THEN Goto("guard") ELSE Answer("unauthorized")

(* Faulty: a key that nobody holds leaves the session to identify the user. *)
NamesOrSession(u) ==
    IF bearer # None /\ \E v \in Principal : owner[v] = bearer
    THEN owner[u] = bearer ELSE u = user

(* authenticateAPIKey and currentPrincipal: the credential names u.         *)
Names(u) == IF bearer # None THEN owner[u] = bearer ELSE u = user

(* Authenticate up to admission: the credential names a principal that the  *)
(* application still knows, or nobody, or the lookup fails.                 *)
Authenticate ==
    /\ pc = "authenticate"
    /\ \/ Answer("error") /\ UNCHANGED who
       \/ NotAuthenticated
       \/ \E u \in Principal :
              Names(u) /\ who' = u /\ Goto(IF admits THEN "load" ELSE "guard")
    /\ UNCHANGED <<admits, keyVars, inputVars, stage, evalVars, cleared>>

(* The guard of require and RequirePermission, and the first loop of CanAll.*)
Guard ==
    /\ pc = "guard"
    /\ IF who = None THEN Answer("unauthorized")
       ELSE IF \E i \in DOMAIN op.reqs : ~Valid(op.reqs[i]) THEN Answer("error")
       ELSE Goto("load")
    /\ stage' = "guard"
    /\ UNCHANGED <<admits, keyVars, inputVars, who, evalVars, cleared>>

(* The reference for admission: every grant is valid and one is above none. *)
GivesAccess(grants) ==
    /\ \A i \in DOMAIN grants : Valid(grants[i])
    /\ \E i \in DOMAIN grants : grants[i].access # "none"

(* EffectivePermissions: the application returns the grants, or an error.   *)
Load ==
    /\ pc = "load"
    /\ \/ Answer("error") /\ UNCHANGED <<evalVars, cleared>>
       \/ /\ gs' \in GrantLists /\ k' = 1 /\ perms' = NoPermissions
          /\ cleared' = IF stage = "admit" THEN GivesAccess(gs') ELSE cleared
          /\ Goto("fold")
    /\ UNCHANGED <<admits, keyVars, inputVars, who, stage>>

(* Faulty: the last grant of a resource counts, not the highest.            *)
RaiseToLast(g) == perms' = [perms EXCEPT ![g.resource] = g.access]

Raise(g) ==
    perms' = IF level[g.access] > level[perms[g.resource]]
             THEN [perms EXCEPT ![g.resource] = g.access] ELSE perms

(* One turn of the loop of EffectivePermissions.                            *)
Fold ==
    /\ pc = "fold"
    /\ IF k > Len(gs) THEN Goto("decide") /\ UNCHANGED <<k, perms>>
       ELSE IF Valid(gs[k]) THEN Raise(gs[k]) /\ k' = k + 1 /\ UNCHANGED <<pc, answer>>
       ELSE Answer("error") /\ UNCHANGED <<k, perms>>
    /\ UNCHANGED <<admits, keyVars, inputVars, who, stage, gs, cleared>>

(* Faulty: a resource that is listed with none counts as a permission.      *)
HasEntry == \E r \in Catalogue : perms[r] \in Access

HasAccess == \E r \in Catalogue : perms[r] \in {"view", "edit"}

(* The last loop of CanAll.                                                 *)
CanAll == \A i \in DOMAIN op.reqs : level[perms[op.reqs[i].resource]] >= level[op.reqs[i].access]

(* admitPrincipal goes on to the guard, or refuses.                         *)
AdmitPrincipal ==
    /\ pc = "decide" /\ stage = "admit"
    /\ IF HasAccess THEN Goto("guard") /\ UNCHANGED who ELSE NotAuthenticated
    /\ UNCHANGED <<admits, keyVars, inputVars, stage, evalVars, cleared>>

(* The guard lets the handler run, or forbids it.                           *)
Decide ==
    /\ pc = "decide" /\ stage = "guard"
    /\ Answer(IF CanAll THEN "served" ELSE "forbidden")
    /\ UNCHANGED <<admits, keyVars, inputVars, who, stage, evalVars, cleared>>

Next ==
    \/ \E u \in Principal : RotateAPIKey(u) \/ RevokeAPIKey(u)
    \/ Arrive \/ Authenticate \/ Guard \/ Load \/ Fold \/ AdmitPrincipal \/ Decide

Spec == Init /\ [][Next]_vars

-----------------------------------------------------------------------------
(* Faulty: the levels must differ.                                          *)
CanAbove(permissions, q) ==
    LET granted == IF q.resource \in DOMAIN permissions
                   THEN permissions[q.resource] ELSE "none"
    IN  granted \in Access /\ q.access \in Access /\ level[granted] > level[q.access]

(* can, of the TypeScript package, on the permissions it was sent.          *)
Can(permissions, q) ==
    LET granted == IF q.resource \in DOMAIN permissions
                   THEN permissions[q.resource] ELSE "none"
    IN  granted \in Access /\ q.access \in Access /\ level[granted] >= level[q.access]

ClientCanAll(permissions) == \A i \in DOMAIN op.reqs : Can(permissions, op.reqs[i])

-----------------------------------------------------------------------------
TypeOK ==
    /\ admits \in BOOLEAN
    /\ owner \in [Principal -> Key \cup {None}]
    /\ holder \in [Key -> Principal \cup {None}]
    /\ pc \in {"idle", "authenticate", "guard", "load", "fold", "decide", "done"}
    /\ op \in Operation
    /\ user \in Principal \cup {None}
    /\ bearer \in Key \cup {None}
    /\ late \in BOOLEAN
    /\ who \in Principal \cup {None}
    /\ stage \in {"admit", "guard"}
    /\ gs \in Seq(Permission)
    /\ k \in Nat
    /\ perms \in [Catalogue -> Access]
    /\ cleared \in BOOLEAN
    /\ answer \in {"none", "error", "unauthorized", "forbidden", "served"}

(* The reference: some grant of the list reaches what is required.          *)
Granted(q) ==
    \/ q.access = "none"
    \/ \E i \in DOMAIN gs : /\ gs[i].resource = q.resource
                            /\ level[gs[i].access] >= level[q.access]

(* The answer follows from the grants as a whole, in whatever order and     *)
(* however often they repeat a resource: a handler runs exactly when every  *)
(* requirement is granted, and one invalid grant discards the result.       *)
GrantsDecide ==
    answer \in {"served", "forbidden"} =>
        /\ answer = "served" <=> \A i \in DOMAIN op.reqs : Granted(op.reqs[i])
        /\ \A i \in DOMAIN gs : Valid(gs[i])

(* Where Config.Admit is HasAccess, a request has a principal at the guard, *)
(* behind RequireAuth and OptionalAuth alike, exactly when the grants that  *)
(* admission loaded were valid and one of them above none, whatever grants  *)
(* the guard loads later; and whoever had such grants is not turned away as *)
(* not authenticated.                                                       *)
AdmissionDecides ==
    admits /\ (stage = "guard" \/ answer = "unauthorized") => (who # None <=> cleared)

(* The interface offers an operation to a principal exactly when the        *)
(* service would serve it under the same grants.                            *)
ClientAgrees ==
    answer \in {"served", "forbidden"} => (answer = "served" <=> ClientCanAll(perms))

(* Under ResourceAPI, an operation that writes is served to nobody who may  *)
(* only view the resource.                                                  *)
WritesNeedEdit ==
    answer = "served" /\ op.method \in Method \ {"GET", "HEAD"} =>
        \E i \in DOMAIN gs : gs[i] = [resource |-> op.reqs[1].resource, access |-> "edit"]

(* A request that presents an API key is served as the principal the key    *)
(* was made for, whatever its session says, and not at all if the key was   *)
(* replaced or revoked before the request.                                  *)
KeyDecides ==
    answer = "served" /\ bearer # None => holder[bearer] = who /\ ~late

=============================================================================
