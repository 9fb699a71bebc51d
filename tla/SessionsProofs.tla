--------------------------- MODULE SessionsProofs ---------------------------
(***************************************************************************)
(* What a session token and a callback are good for, for any number of      *)
(* requests, tokens, principals and SSO attempts.                           *)
(***************************************************************************)
EXTENDS Sessions, TLAPS

USE SessionsAssumption DEF copyVars, callVars, ssoVars, history

(* A callback carries a code that the provider granted.                     *)
Typed ==
    /\ TypeOK
    /\ \A r \in Request :
           pc[r] \in {"sso_callback", "exchange"} =>
               param[r] \in Code /\ grants[param[r]] # None

(* Every step that is not one of the user at the provider is a request's.   *)
LEMMA StepCases ==
  ASSUME [Next]_vars
  PROVE  Authorize \/ UNCHANGED vars \/ \E r \in Request : RequestNext(r)
BY DEF Next

LEMMA SessionTypes ==
  /\ NewSession \in Session
  /\ \A s \in Session : \A u \in Principal \cup {None} : WithUser(s, u) \in Session
  /\ \A s \in Session : \A a \in Attempt \cup {None} : WithAttempt(s, a) \in Session
BY DEF Session, NewSession, WithUser, WithAttempt

LEMMA TypedNext == Typed /\ [Next]_vars => Typed'
<1> SUFFICES ASSUME Typed, [Next]_vars PROVE Typed'
  OBVIOUS
<1> USE DEF Typed, TypeOK, Goto, Return, Job
<1>g. \A g \in Grant : g.user \in Principal
  BY DEF Grant
<1>n. NewSession \in Session
  BY SessionTypes
<1>1. CASE UNCHANGED vars
  BY <1>1 DEF vars
<1>2. CASE Authorize
  BY <1>2 DEF Authorize, Grant
<1>3. ASSUME NEW r \in Request, RequestNext(r) PROVE Typed'
  <2>1. ASSUME ArriveSome(r) PROVE Typed'
    <3> PICK j \in Job, c \in Code \cup {None} :
            Arrive(r, j, c) /\ (j = "sso_callback" => c \in Code /\ grants[c] # None)
      BY <2>1 DEF ArriveSome
    <3>1. session' \in [Request -> Session] /\ token' \in [Request -> Token \cup {None}]
      <4>1. CASE cookie # None /\ store[cookie] # None
        <5>1. store[cookie] \in Session /\ cookie \in Token
          BY <4>1
        <5> QED BY <4>1, <5>1 DEF Arrive
      <4> QED BY <4>1 DEF Arrive
    <3>2. pc' \in [Request -> Job \cup {"idle", "exchange", "resolve", "admit",
                                        "renew", "commit", "deliver"}]
      BY DEF Arrive
    <3>3. \A q \in Request : pc'[q] \in {"sso_callback", "exchange"} =>
              param'[q] \in Code /\ grants'[param'[q]] # None
      BY DEF Arrive
    <3>4. shared' \subseteq Attempt
      BY DEF Arrive
    <3> QED BY <3>1, <3>2, <3>3, <3>4 DEF Arrive
  <2>2. ASSUME CurrentPrincipal(r) \/ Login(r) \/ Resolve(r) \/ Admit(r) PROVE Typed'
    BY <2>2 DEF CurrentPrincipal, Login, Resolve, Admit, Respond, Found
  <2>3. ASSUME Destroy(r) PROVE Typed'
    <3>1. store' \in [Token -> Session \cup {None}]
      BY <2>3 DEF Destroy, GiveUp, Deleted, DeleteFails
    <3>2. session' \in [Request -> Session] /\ token' \in [Request -> Token \cup {None}]
          /\ status' \in [Request -> {"unmodified", "modified", "destroyed"}]
      BY <2>3, <1>n DEF Destroy
    <3>3. revoked' \subseteq Token /\ raced' \subseteq Token
      BY <2>3 DEF Destroy, GiveUp
    <3> QED BY <2>3, <3>1, <3>2, <3>3 DEF Destroy, Respond
  <2>4. ASSUME BeginSSO(r) PROVE Typed'
    <3>1. session' \in [Request -> Session]
      BY <2>4, SessionTypes DEF BeginSSO
    <3> QED BY <2>4, <3>1 DEF BeginSSO, Respond
  <2>5. ASSUME CheckState(r) PROVE Typed'
    <3>1. /\ WithAttempt(session[r], None) \in Session
          /\ session[r].nonce \in Attempt \cup {None}
      BY SessionTypes DEF Session
    <3>2. /\ session' \in [Request -> Session]
          /\ status' \in [Request -> {"unmodified", "modified", "destroyed"}]
      BY <2>5, <3>1 DEF CheckState
    <3>3. CASE Proceed(r)
      BY <2>5, <3>1, <3>2, <3>3 DEF CheckState, Proceed
    <3>4. CASE Respond(r)
      BY <2>5, <3>2, <3>4 DEF CheckState, Respond
    <3> QED BY <2>5, <3>3, <3>4 DEF CheckState
  <2>6. ASSUME Exchange(r) PROVE Typed'
    BY <2>6, <1>g DEF Exchange, Found, Respond
  <2>7. ASSUME StartSession(r) PROVE Typed'
    <3>1. WithUser(session[r], who[r]) \in Session
      BY SessionTypes
    <3>2. store' \in [Token -> Session \cup {None}]
      BY <2>7 DEF StartSession, Renew, GiveUp, Deleted, DeleteFails
    <3>3. /\ session' \in [Request -> Session]
          /\ status' \in [Request -> {"unmodified", "modified", "destroyed"}]
      BY <2>7, <3>1 DEF StartSession, SignIn
    <3>4. /\ issued' \subseteq Token /\ token' \in [Request -> Token \cup {None}]
          /\ revoked' \subseteq Token /\ raced' \subseteq Token
      BY <2>7 DEF StartSession, Renew, GiveUp
    <3>5. signedIn' \subseteq Code
      BY <2>7 DEF StartSession, SignIn
    <3> QED BY <2>7, <3>2, <3>3, <3>4, <3>5 DEF StartSession, Respond
  <2>8. ASSUME Commit(r) PROVE Typed'
    <3>1. PICK t \in Token \cup {None} :
              /\ issued' = issued \cup ({t} \ {None})
              /\ store' = store \/ store' = [store EXCEPT ![t] = session[r]]
              /\ token'[r] \in {t, None, token[r]}
              /\ token' = [token EXCEPT ![r] = token'[r]]
      BY <2>8 DEF Commit, Forget
    <3>2. /\ session' \in [Request -> Session]
          /\ status' \in [Request -> {"unmodified", "modified", "destroyed"}]
      BY <2>8, <1>n DEF Commit, Forget
    <3>3. pc' = [pc EXCEPT ![r] = pc'[r]] /\ pc'[r] \in {"idle", "deliver"}
          /\ redirects' \subseteq Request
      BY <2>8 DEF Commit, Forget
    <3> QED BY <2>8, <3>1, <3>2, <3>3 DEF Commit
  <2>9. ASSUME Deliver(r) \/ Lose(r) PROVE Typed'
    <3>1. /\ session' \in [Request -> Session]
          /\ status' \in [Request -> {"unmodified", "modified", "destroyed"}]
          /\ token' \in [Request -> Token \cup {None}]
      BY <2>9, <1>n DEF Deliver, Lose, Forget
    <3>2. cookie' \in Token \cup {None} /\ attempt' \in [Attempt -> {"unused", "begun", "offered"}]
      BY <2>9 DEF Deliver, Lose
    <3> QED BY <2>9, <3>1, <3>2 DEF Deliver, Lose, Forget
  <2> QED BY <1>3, <2>1, <2>2, <2>3, <2>4, <2>5, <2>6, <2>7, <2>8, <2>9 DEF RequestNext
<1> QED BY <1>1, <1>2, <1>3, StepCases

(* Every variable keeps to its type.                                        *)
THEOREM TypeCorrect == Spec => [](TypeOK /\ Typed)
<1>1. Init => Typed
  BY DEF Init, Typed, TypeOK, Session, NewSession, Grant, Job
<1>2. Typed => TypeOK
  BY DEF Typed
<1> QED BY <1>1, <1>2, TypedNext, PTL DEF Spec

-----------------------------------------------------------------------------
(* What is known under a token was issued.  One that was given up while     *)
(* nobody else held it is in the copy of the request that gave it up at     *)
(* most, when its Destroy failed, and that copy is not written back.        *)
TokensHeld ==
    /\ \A t \in Token : store[t] # None => t \in issued
    /\ \A r \in Request : token[r] # None => token[r] \in issued
    /\ revoked \subseteq issued
    /\ \A t \in revoked \ raced :
           /\ store[t] = None
           /\ \A r \in Request : token[r] = t =>
                  status[r] = "unmodified" /\ pc[r] \in {"commit", "deliver"}
    /\ \A r \in Request : pc[r] \in {"idle", "session", "logout"} => status[r] = "unmodified"

(* All copies of one session, the stored one among them, agree on the user. *)
CopiesAgree ==
    /\ \A r \in Request : token[r] # None /\ store[token[r]] # None =>
           store[token[r]].user = session[r].user
    /\ \A q, r \in Request : token[q] # None /\ token[q] = token[r] =>
           session[q].user = session[r].user

(* A step that gives a token up, or moves a request to one.                 *)
LEMMA TokensNext ==
  ASSUME Typed, TokensHeld, CopiesAgree, [Next]_vars
  PROVE  /\ TokensHeld' /\ CopiesAgree'
         /\ \A t \in Token : store[t] # None /\ store'[t] # None =>
                store'[t].user = store[t].user
<1> DEFINE Kept == \A t \in Token : store[t] # None /\ store'[t] # None =>
                       store'[t].user = store[t].user
           Goal == TokensHeld' /\ CopiesAgree' /\ Kept
<1> USE DEF TokensHeld, CopiesAgree
<1> SUFFICES Goal
  OBVIOUS
<1>t. /\ store \in [Token -> Session \cup {None}]
      /\ token \in [Request -> Token \cup {None}]
      /\ session \in [Request -> Session]
      /\ issued \subseteq Token /\ cookie \in Token \cup {None}
      /\ who \in [Request -> Principal \cup {None}]
      /\ revoked \subseteq Token
      /\ pc = [q \in Request |-> pc[q]] /\ status = [q \in Request |-> status[q]]
  BY DEF Typed, TypeOK
<1>0. ASSUME UNCHANGED <<store, issued, token, session, status, revoked, raced>>,
             \A q \in Request :
                 \/ pc'[q] = pc[q]
                 \/ /\ pc[q] \notin {"commit", "deliver"}
                    /\ pc[q] = "session" \/ pc'[q] \notin {"idle", "session", "logout"}
      PROVE  Goal
  <2>1. TokensHeld'
    BY <1>0
  <2>2. CopiesAgree' /\ Kept
    BY <1>0
  <2> QED BY <2>1, <2>2
<1>1. CASE UNCHANGED vars \/ Authorize
  BY <1>1, <1>0 DEF vars, copyVars, history, Authorize
<1>2. ASSUME NEW r \in Request, RequestNext(r) PROVE Goal
  <2> USE DEF Goto, Respond
  <2>1. ASSUME ArriveSome(r) PROVE Goal
    <3>1. PICK j \in Job, c \in Code \cup {None} : Arrive(r, j, c)
      BY <2>1 DEF ArriveSome, Job
    <3>2. /\ UNCHANGED <<store, issued, status, revoked, raced>>
          /\ pc[r] = "idle" /\ pc' = [pc EXCEPT ![r] = j] /\ j \notin {"commit", "deliver"}
          /\ \/ UNCHANGED <<token, session>>
             \/ /\ cookie # None /\ store[cookie] # None
                /\ token' = [token EXCEPT ![r] = cookie]
                /\ session' = [session EXCEPT ![r] = store[cookie]]
      BY <3>1 DEF Arrive, Job
    <3>3. TokensHeld'
      BY <3>2, <1>t
    <3>4. CopiesAgree' /\ Kept
      BY <3>2, <1>t
    <3> QED BY <3>3, <3>4
  <2>2. ASSUME CurrentPrincipal(r) \/ Login(r) \/ Exchange(r) \/ Resolve(r) \/ Admit(r)
        PROVE  Goal
    <3>1. UNCHANGED <<store, issued, token, session, status, revoked, raced>>
      BY <2>2 DEF CurrentPrincipal, Login, Exchange, Resolve, Admit, copyVars, history
    <3>2. \E l : /\ pc' = [pc EXCEPT ![r] = l]
                 /\ pc[r] \notin {"commit", "deliver"}
                 /\ pc[r] = "session" \/ l \notin {"idle", "session", "logout"}
      BY <2>2 DEF CurrentPrincipal, Login, Exchange, Resolve, Admit
    <3>3. \A q \in Request :
              \/ pc'[q] = pc[q]
              \/ /\ pc[q] \notin {"commit", "deliver"}
                 /\ pc[q] = "session" \/ pc'[q] \notin {"idle", "session", "logout"}
      BY <3>2, <1>t
    <3> QED BY <3>1, <3>3, <1>0
  <2>3. ASSUME Destroy(r) PROVE Goal
    <3>1. pc[r] = "logout" /\ pc' = [pc EXCEPT ![r] = "commit"] /\ issued' = issued
          /\ status[r] = "unmodified"
      BY <2>3 DEF Destroy
    <3>2. CASE UNCHANGED <<store, revoked, raced, copyVars>>
      <4>1. UNCHANGED <<token, session, status>>
        BY <3>2 DEF copyVars
      <4> QED BY <3>1, <3>2, <4>1, <1>0, <1>t
    <3>3. CASE GiveUp(r)
      <4>1. \A q \in Request \ {r} : /\ token'[q] = token[q] /\ session'[q] = session[q]
                                     /\ status'[q] = status[q] /\ pc'[q] = pc[q]
        BY <2>3, <3>1, <1>t DEF Destroy, copyVars
      <4>2. \/ token'[r] = None
            \/ token'[r] = token[r] /\ session'[r] = session[r] /\ status'[r] = status[r]
        BY <2>3, <1>t DEF Destroy, copyVars
      <4>3. \A t \in Token : store'[t] = IF t = token[r] THEN None ELSE store[t]
        BY <3>3 DEF GiveUp, Deleted
      <4>4. /\ revoked' = revoked \cup ({token[r]} \ {None}) /\ raced \subseteq raced'
            /\ token[r] \in Token \ raced' =>
                   \A q \in Request \ {r} : token[q] # token[r]
        BY <3>3, <1>t DEF GiveUp
      <4>5. TokensHeld'
        BY <3>1, <4>1, <4>2, <4>3, <4>4, <1>t
      <4>6. CopiesAgree' /\ Kept
        BY <4>1, <4>2, <4>3, <1>t
      <4> QED BY <4>5, <4>6
    <3> QED BY <2>3, <3>2, <3>3 DEF Destroy
  <2>4. ASSUME BeginSSO(r) \/ CheckState(r) PROVE Goal
    <3>1. /\ UNCHANGED <<store, issued, token, revoked, raced>>
          /\ \A q \in Request : session'[q].user = session[q].user
      BY <2>4, <1>t DEF BeginSSO, CheckState, WithAttempt, Session, history
    <3>2. /\ pc[r] \notin {"idle", "session", "logout", "commit", "deliver"}
          /\ pc'[r] \in {"commit", "exchange"}
          /\ \A q \in Request \ {r} : pc'[q] = pc[q] /\ status'[q] = status[q]
      BY <2>4, <1>t DEF BeginSSO, CheckState, Proceed
    <3>3. TokensHeld'
      BY <3>1, <3>2
    <3>4. CopiesAgree' /\ Kept
      BY <3>1
    <3> QED BY <3>3, <3>4
  <2>5. ASSUME StartSession(r) PROVE Goal
    <3>1. pc[r] = "renew" /\ pc' = [pc EXCEPT ![r] = "commit"]
      BY <2>5 DEF StartSession
    <3>2. CASE DeleteFails(token[r]) /\ UNCHANGED <<issued, copyVars, revoked, raced>>
      <4>1. /\ UNCHANGED <<issued, token, session, status, revoked, raced>>
            /\ \A t \in Token : store'[t] \in {None, store[t]}
        BY <3>2 DEF copyVars, DeleteFails, Deleted
      <4>2. TokensHeld'
        BY <3>1, <4>1, <1>t
      <4>3. CopiesAgree' /\ Kept
        BY <4>1, <1>t
      <4> QED BY <4>2, <4>3
    <3>3. CASE Renew(r) /\ SignIn(r)
      <4>1. PICK t \in Token \ issued :
                issued' = issued \cup {t} /\ token' = [token EXCEPT ![r] = t]
        BY <3>3 DEF Renew
      <4>2. \A q \in Request \ {r} : /\ token'[q] = token[q] /\ session'[q] = session[q]
                                     /\ status'[q] = status[q] /\ pc'[q] = pc[q]
        BY <3>1, <3>3, <4>1, <1>t DEF SignIn
      <4>3. token'[r] = t /\ pc'[r] = "commit"
        BY <3>1, <4>1, <1>t
      <4>4. \A u \in Token : store'[u] = IF u = token[r] THEN None ELSE store[u]
        BY <3>3 DEF Renew, GiveUp, Deleted
      <4>5. /\ revoked' = revoked \cup ({token[r]} \ {None}) /\ raced \subseteq raced'
            /\ token[r] \in Token \ raced' =>
                   \A q \in Request \ {r} : token[q] # token[r]
        BY <3>3, <1>t DEF Renew, GiveUp
      <4>6. TokensHeld'
        BY <4>1, <4>2, <4>3, <4>4, <4>5, <1>t
      <4>7. CopiesAgree' /\ Kept
        BY <4>1, <4>2, <4>3, <4>4, <1>t
      <4> QED BY <4>6, <4>7
    <3> QED BY <2>5, <3>2, <3>3 DEF StartSession
  <2>6. ASSUME Commit(r) PROVE Goal
    <3>1. /\ pc[r] = "commit" /\ UNCHANGED <<revoked, raced>>
          /\ \A q \in Request \ {r} : /\ token'[q] = token[q] /\ session'[q] = session[q]
                                       /\ status'[q] = status[q] /\ pc'[q] = pc[q]
      BY <2>6, <1>t DEF Commit, Forget, copyVars, history
    <3>2. /\ pc'[r] \in {"idle", "deliver"}
          /\ pc'[r] = "idle" => token'[r] = None /\ status'[r] = "unmodified"
      BY <2>6, <1>t DEF Commit, Forget
    <3>3. CASE status[r] = "modified"
      <4>1. PICK t \in IF token[r] = None THEN Token \ issued ELSE {token[r]} :
                /\ issued' = issued \cup {t}
                /\ store' \in {store, [store EXCEPT ![t] = session[r]]}
                /\ token'[r] \in {t, None}
                /\ token'[r] = t => session'[r] = session[r] /\ store'[t] = session[r]
        BY <2>6, <3>3, <1>t DEF Commit, Forget
      <4>2. t \in Token /\ (token[r] # None => t = token[r]) /\ t \notin revoked \ raced
        BY <3>1, <3>3, <4>1, <1>t
      <4>3. TokensHeld'
        BY <3>1, <3>2, <4>1, <4>2, <1>t
      <4>4. CopiesAgree' /\ Kept
        BY <3>1, <4>1, <4>2, <1>t
      <4> QED BY <4>3, <4>4
    <3>4. CASE status[r] # "modified"
      <4>1. pc'[r] = "deliver" /\ UNCHANGED <<store, issued, token, session, status>>
        BY <2>6, <3>4, <1>t DEF Commit, copyVars
      <4>2. TokensHeld'
        BY <3>1, <4>1
      <4>3. CopiesAgree' /\ Kept
        BY <4>1
      <4> QED BY <4>2, <4>3
    <3> QED BY <3>3, <3>4
  <2>7. ASSUME Deliver(r) \/ Lose(r) PROVE Goal
    <3>1. /\ UNCHANGED <<store, issued, revoked, raced>>
          /\ token'[r] = None /\ status'[r] = "unmodified" /\ pc'[r] = "idle"
          /\ \A q \in Request \ {r} : /\ token'[q] = token[q] /\ session'[q] = session[q]
                                       /\ status'[q] = status[q] /\ pc'[q] = pc[q]
      BY <2>7, <1>t DEF Deliver, Lose, Forget, history
    <3>2. TokensHeld'
      BY <3>1, <1>t, SessionsAssumption
    <3>3. CopiesAgree' /\ Kept
      BY <3>1
    <3> QED BY <3>2, <3>3
  <2> QED BY <1>2, <2>1, <2>2, <2>3, <2>4, <2>5, <2>6, <2>7 DEF RequestNext
<1> QED BY <1>1, <1>2, StepCases

LEMMA TokensInvariant == Spec => [](Typed /\ TokensHeld /\ CopiesAgree)
<1>1. Init => TokensHeld /\ CopiesAgree
  BY DEF Init, TokensHeld, CopiesAgree
<1>2. Typed /\ TokensHeld /\ CopiesAgree /\ [Next]_vars => TokensHeld' /\ CopiesAgree'
  BY TokensNext
<1> QED BY <1>1, <1>2, TypeCorrect, PTL DEF Spec

(* A session that was destroyed or renewed while no other request held a    *)
(* copy of it stays gone.                                                   *)
THEOREM RevocationIsFinal == Spec => []RevokedStaysGone
<1>1. TokensHeld => RevokedStaysGone
  BY DEF TokensHeld, RevokedStaysGone
<1> QED BY <1>1, TokensInvariant, PTL

(* No token ever changes hands, however the requests of a browser overlap.  *)
THEOREM IdentityIsFixed == Spec => TokenKeepsIdentity
<1>1. Typed /\ TokensHeld /\ CopiesAgree /\ [Next]_vars =>
          [\A t \in Token : store[t] # None /\ store'[t] # None =>
               store'[t].user = store[t].user]_vars
  BY TokensNext
<1> QED BY <1>1, TokensInvariant, PTL DEF Spec, TokenKeepsIdentity

-----------------------------------------------------------------------------
(* A session's state and nonce are of one attempt, and a callback under way *)
(* has brought back the state of the attempt whose nonce it expects.        *)
AttemptsMatch ==
    /\ \A t \in Token : store[t] # None => store[t].state = store[t].nonce
    /\ \A r \in Request : session[r].state = session[r].nonce
    /\ \A r \in Request : pc[r] = "exchange" => expected[r] = grants[param[r]].state
    /\ \A r \in Request : pc[r] \in {"login", "logout", "session", "sso_start"} => param[r] = None
    /\ \A r \in Request :
           pc[r] \in {"resolve", "admit", "renew"} /\ param[r] # None =>
               grants[param[r]] # None /\ grants[param[r]].nonce = grants[param[r]].state
    /\ \A c \in signedIn : grants[c] # None /\ grants[c].nonce = grants[c].state

LEMMA AttemptsNext == Typed /\ AttemptsMatch /\ [Next]_vars => AttemptsMatch'
<1> SUFFICES ASSUME Typed, AttemptsMatch, [Next]_vars PROVE AttemptsMatch'
  OBVIOUS
<1> USE DEF AttemptsMatch, Goto, Return
<1>t. TypeOK /\ \A r \in Request : pc[r] \in {"sso_callback", "exchange"} =>
                    param[r] \in Code /\ grants[param[r]] # None
  BY DEF Typed
<1>1. CASE UNCHANGED vars
  BY <1>1 DEF vars
<1>2. CASE Authorize
  <2>1. \A c \in Code : grants[c] # None => grants'[c] = grants[c]
    BY <1>2, <1>t DEF Authorize, TypeOK
  <2> QED BY <1>2, <2>1, <1>t DEF Authorize, TypeOK, Grant
<1>3. ASSUME NEW r \in Request, RequestNext(r) PROVE AttemptsMatch'
  <2>1. ASSUME ArriveSome(r) PROVE AttemptsMatch'
    <3> PICK j \in Job, c \in Code \cup {None} :
            Arrive(r, j, c) /\ (j # "sso_callback" => c = None)
      BY <2>1 DEF ArriveSome, Job
    <3> QED BY <1>t DEF Arrive, TypeOK, Job
  <2>2. ASSUME CurrentPrincipal(r) \/ Login(r) \/ Resolve(r) \/ Admit(r) PROVE AttemptsMatch'
    BY <2>2, <1>t DEF CurrentPrincipal, Login, Resolve, Admit, Respond, Found, TypeOK
  <2>3. ASSUME Destroy(r) PROVE AttemptsMatch'
    BY <2>3, <1>t DEF Destroy, GiveUp, Deleted, DeleteFails, Respond, TypeOK, NewSession
  <2>4. ASSUME BeginSSO(r) PROVE AttemptsMatch'
    BY <2>4, <1>t DEF BeginSSO, Respond, TypeOK, WithAttempt
  <2>5. ASSUME CheckState(r) PROVE AttemptsMatch'
    <3>1. \A q \in Request : session'[q].state = session'[q].nonce
      BY <2>5, <1>t DEF CheckState, WithAttempt, TypeOK
    <3>2. CASE Matches(r) /\ Proceed(r)
      BY <2>5, <3>1, <3>2, <1>t DEF CheckState, Matches, Proceed, TypeOK
    <3>3. CASE Respond(r)
      BY <2>5, <3>1, <3>3, <1>t DEF CheckState, Respond, TypeOK
    <3> QED BY <2>5, <3>2, <3>3 DEF CheckState
  <2>6. ASSUME Exchange(r) PROVE AttemptsMatch'
    <3>1. CASE Respond(r)
      BY <2>6, <3>1, <1>t DEF Exchange, Respond, TypeOK
    <3>2. CASE grants[param[r]].nonce = expected[r] /\ Goto(r, "resolve") /\ param' = param
      <4>1. /\ grants[param[r]] # None /\ grants[param[r]].nonce = grants[param[r]].state
            /\ UNCHANGED <<store, session, grants, signedIn>>
        BY <2>6, <3>2, <1>t DEF Exchange
      <4>2. pc' = [pc EXCEPT ![r] = "resolve"] /\ expected' = expected
        BY <2>6, <3>2, <1>t DEF Exchange, Found, Respond, TypeOK
      <4> QED BY <3>2, <4>1, <4>2, <1>t DEF TypeOK
    <3> QED BY <2>6, <3>1, <3>2 DEF Exchange, Found
  <2>7. ASSUME StartSession(r) PROVE AttemptsMatch'
    <3>1. \A q \in Request : session'[q].state = session[q].state
                             /\ session'[q].nonce = session[q].nonce
      BY <2>7, <1>t DEF StartSession, SignIn, TypeOK, WithUser
    <3>2. \A t \in Token : store'[t] # None => store'[t] = store[t]
      BY <2>7, <1>t DEF StartSession, Renew, GiveUp, Deleted, DeleteFails, TypeOK
    <3>3. signedIn' \subseteq signedIn \cup ({param[r]} \ {None})
      BY <2>7 DEF StartSession, SignIn
    <3> QED BY <2>7, <3>1, <3>2, <3>3, <1>t DEF StartSession, Respond, TypeOK
  <2>8. ASSUME Commit(r) PROVE AttemptsMatch'
    <3>1. \A q \in Request : session'[q].state = session'[q].nonce
      BY <2>8, <1>t DEF Commit, Forget, TypeOK, NewSession
    <3>2. \A t \in Token : store'[t] # None =>
              store'[t] = store[t] \/ store'[t] = session[r]
      BY <2>8, <1>t DEF Commit, TypeOK
    <3>3. pc' = [pc EXCEPT ![r] = pc'[r]] /\ pc'[r] \in {"idle", "deliver"}
      BY <2>8, <1>t DEF Commit, Forget, TypeOK
    <3> QED BY <2>8, <3>1, <3>2, <3>3, <1>t DEF Commit, TypeOK
  <2>9. ASSUME Deliver(r) \/ Lose(r) PROVE AttemptsMatch'
    BY <2>9, <1>t DEF Deliver, Lose, Forget, TypeOK, NewSession
  <2> QED BY <1>3, <2>1, <2>2, <2>3, <2>4, <2>5, <2>6, <2>7, <2>8, <2>9 DEF RequestNext
<1> QED BY <1>1, <1>2, <1>3, StepCases

(* Whoever a callback signs in authenticated for the attempt it answers.    *)
THEOREM SignInsMatch == Spec => []SignInMatchesAttempt
<1>1. Init => AttemptsMatch
  BY DEF Init, AttemptsMatch, NewSession
<1>2. AttemptsMatch => SignInMatchesAttempt
  BY DEF AttemptsMatch, SignInMatchesAttempt
<1> QED BY <1>1, <1>2, AttemptsNext, TypeCorrect, PTL DEF Spec

-----------------------------------------------------------------------------
(* A callback under way has popped the state that its code brought back.    *)
Answering == {"exchange", "resolve", "admit", "renew"}
CallbacksOK ==
    /\ \A r \in Request : expected[r] # None => pc[r] \in Answering /\ session[r].state = None
    /\ \A r \in Request : pc[r] \in Answering /\ param[r] # None =>
           grants[param[r]] # None /\ expected[r] = grants[param[r]].state

(* An attempt that is in no stored session and that no request holds.       *)
Nowhere(a) ==
    /\ \A t \in Token : store[t] # None => store[t].state # a
    /\ \A r \in Request : ~Holds(r, a)

(* An attempt that was never shared is in one place: one stored session and *)
(* one request at most, and the request has that session's token, so that   *)
(* what it writes or deletes is the only other trace.                       *)
OnePlace(a) ==
    /\ \A q, r \in Request : Holds(q, a) /\ Holds(r, a) => q = r
    /\ \A t, u \in Token :
           store[t] # None /\ store[t].state = a /\ store[u] # None /\ store[u].state = a => t = u
    /\ \A r \in Request, t \in Token :
           Holds(r, a) /\ store[t] # None /\ store[t].state = a => token[r] = t

AttemptsHeld ==
    /\ \A a \in Attempt : attempt[a] = "unused" => Nowhere(a)
    /\ \A c \in Code : grants[c] # None => attempt[grants[c].state] # "unused"
    /\ \A a \in Attempt \ shared : OnePlace(a)
    /\ \A c \in signedIn : grants[c] # None /\ (grants[c].state \notin shared => Nowhere(grants[c].state))

LEMMA CallbacksNext == Typed /\ AttemptsMatch /\ CallbacksOK /\ [Next]_vars => CallbacksOK'
<1> SUFFICES ASSUME Typed, AttemptsMatch, CallbacksOK, [Next]_vars PROVE CallbacksOK'
  OBVIOUS
<1> USE DEF CallbacksOK, Answering, Goto, Return
<1>t. TypeOK /\ \A r \in Request : pc[r] \in {"sso_callback", "exchange"} =>
                    param[r] \in Code /\ grants[param[r]] # None
  BY DEF Typed
<1>1. CASE UNCHANGED vars
  BY <1>1 DEF vars
<1>2. CASE Authorize
  <2>1. \A c \in Code : grants[c] # None => grants'[c] = grants[c]
    BY <1>2, <1>t DEF Authorize, TypeOK
  <2> QED BY <1>2, <2>1, <1>t DEF Authorize, TypeOK
<1>3. ASSUME NEW r \in Request, RequestNext(r) PROVE CallbacksOK'
  <2>1. ASSUME ArriveSome(r) PROVE CallbacksOK'
    <3> PICK j \in Job, c \in Code \cup {None} : Arrive(r, j, c)
      BY <2>1 DEF ArriveSome, Job
    <3> QED BY <1>t DEF Arrive, TypeOK, Job
  <2>2. ASSUME CurrentPrincipal(r) PROVE CallbacksOK'
    BY <2>2, <1>t DEF CurrentPrincipal, Respond, TypeOK
  <2>3. ASSUME Login(r) PROVE CallbacksOK'
    BY <2>3, <1>t DEF Login, Respond, Found, TypeOK, AttemptsMatch
  <2>4. ASSUME Resolve(r) \/ Admit(r) PROVE CallbacksOK'
    BY <2>4, <1>t DEF Resolve, Admit, Respond, TypeOK
  <2>5. ASSUME Destroy(r) PROVE CallbacksOK'
    BY <2>5, <1>t DEF Destroy, Respond, TypeOK
  <2>6. ASSUME BeginSSO(r) PROVE CallbacksOK'
    BY <2>6, <1>t DEF BeginSSO, Respond, TypeOK
  <2>7. ASSUME CheckState(r) PROVE CallbacksOK'
    <3>1. session' = [session EXCEPT ![r] = WithAttempt(session[r], None)]
      BY <2>7 DEF CheckState
    <3>2. session'[r].state = None /\ \A q \in Request \ {r} : session'[q] = session[q]
      BY <3>1, <1>t DEF WithAttempt, TypeOK
    <3>3. CASE Matches(r) /\ Proceed(r)
      BY <2>7, <3>2, <3>3, <1>t DEF CheckState, Matches, Proceed, TypeOK, AttemptsMatch
    <3>4. CASE Respond(r)
      BY <2>7, <3>2, <3>4, <1>t DEF CheckState, Respond, TypeOK
    <3> QED BY <2>7, <3>3, <3>4 DEF CheckState
  <2>8. ASSUME Exchange(r) PROVE CallbacksOK'
    BY <2>8, <1>t DEF Exchange, Found, Respond, TypeOK
  <2>9. ASSUME StartSession(r) PROVE CallbacksOK'
    <3>1. \A q \in Request : session'[q].state = session[q].state
      BY <2>9, <1>t DEF StartSession, SignIn, TypeOK, WithUser
    <3> QED BY <2>9, <3>1, <1>t DEF StartSession, Respond, TypeOK
  <2>10. ASSUME Commit(r) \/ Deliver(r) \/ Lose(r) PROVE CallbacksOK'
    BY <2>10, <1>t DEF Commit, Deliver, Lose, Forget, TypeOK, NewSession
  <2> QED BY <1>3, <2>1, <2>2, <2>3, <2>4, <2>5, <2>6, <2>7, <2>8, <2>9, <2>10
          DEF RequestNext
<1> QED BY <1>1, <1>2, <1>3, StepCases

(* A step of r that brings no attempt to a new place: stored sessions stay  *)
(* or go, nobody comes to hold an attempt, and r keeps its token, or leaves *)
(* no session behind under it.                                              *)
Settles(r) ==
    /\ \A q \in Request : \A a \in Attempt : Holds(q, a)' => Holds(q, a)
    /\ \A t \in Token : store'[t] # None => store'[t] = store[t]
    /\ \A q \in Request \ {r} : token'[q] = token[q]
    /\ \/ token'[r] = token[r]
       \/ \A a \in Attempt : ~Holds(r, a)'
       \/ \A t \in Token : store'[t] # None => t # token[r]
    /\ shared' = shared /\ grants' = grants
    /\ \A a \in Attempt : attempt'[a] = "unused" => attempt[a] = "unused"

LEMMA SettlesKeeps ==
  ASSUME Typed, AttemptsHeld, NEW r \in Request, Settles(r)
  PROVE  /\ \A a \in Attempt : attempt'[a] = "unused" => Nowhere(a)'
         /\ \A c \in Code : grants'[c] # None => attempt'[grants'[c].state] # "unused"
         /\ \A a \in Attempt \ shared' : OnePlace(a)'
         /\ \A a \in Attempt : Nowhere(a) => Nowhere(a)'
<1>1. ASSUME NEW a \in Attempt, Nowhere(a) PROVE Nowhere(a)'
  BY <1>1 DEF Settles, Nowhere
<1>2. ASSUME NEW a \in Attempt, OnePlace(a) PROVE OnePlace(a)'
  <2>1. \A q, s \in Request : Holds(q, a)' /\ Holds(s, a)' => q = s
    BY <1>2 DEF Settles, OnePlace
  <2>2. \A t, u \in Token : store'[t] # None /\ store'[t].state = a
                            /\ store'[u] # None /\ store'[u].state = a => t = u
    BY <1>2 DEF Settles, OnePlace
  <2>3. ASSUME NEW q \in Request, NEW t \in Token, Holds(q, a)', store'[t] # None,
               store'[t].state = a
        PROVE  token'[q] = t
    <3>1. Holds(q, a) /\ store[t] # None /\ store[t].state = a
      BY <2>3 DEF Settles
    <3>2. token[q] = t
      BY <1>2, <3>1 DEF OnePlace
    <3> QED BY <2>3, <3>2 DEF Settles
  <2> QED BY <2>1, <2>2, <2>3 DEF OnePlace
<1>3. \A c \in Code : grants[c] # None => grants[c].state \in Attempt
  BY DEF Typed, TypeOK, Grant
<1> QED BY <1>1, <1>2, <1>3 DEF Settles, AttemptsHeld

LEMMA SettlesHeld ==
  ASSUME Typed, AttemptsHeld, NEW r \in Request, Settles(r), signedIn' = signedIn
  PROVE  AttemptsHeld'
<1>1. \A c \in signedIn : c \in Code /\ (grants[c] # None => grants[c].state \in Attempt)
  BY DEF Typed, TypeOK, Grant
<1>2. ASSUME NEW c \in signedIn
      PROVE  grants'[c] # None /\ (grants[c].state \notin shared => Nowhere(grants[c].state))'
  <2>1. c \in Code /\ grants[c] # None /\ grants' = grants /\ shared' = shared
    BY <1>1 DEF AttemptsHeld, Settles
  <2>2. PICK a \in Attempt : a = grants[c].state
    BY <1>1, <2>1
  <2>3. a \notin shared => Nowhere(a)
    BY <2>2 DEF AttemptsHeld, Nowhere
  <2>4. a \notin shared => Nowhere(a)'
    BY <2>3, SettlesKeeps
  <2> QED BY <2>1, <2>2, <2>4 DEF Nowhere
<1> QED BY <1>2, SettlesKeeps DEF AttemptsHeld

(* What a request does between its arrival and its response settles, but    *)
(* for the attempt that beginSSO draws.                                     *)
LEMMA HandlersSettle ==
  ASSUME Typed, AttemptsMatch, CallbacksOK, NEW r \in Request,
         \/ CurrentPrincipal(r) \/ Destroy(r) \/ Login(r) \/ CheckState(r) \/ Exchange(r)
         \/ Resolve(r) \/ Admit(r) \/ StartSession(r) \/ Deliver(r) \/ Lose(r)
  PROVE  Settles(r)
<1> USE DEF Goto, Return, Holds
<1>t. TypeOK
  BY DEF Typed
<1>1. CASE CurrentPrincipal(r)
  BY <1>1, <1>t DEF CurrentPrincipal, Respond, Settles, TypeOK
<1>2. CASE Destroy(r)
  BY <1>2, <1>t DEF Destroy, Respond, GiveUp, Deleted, DeleteFails, Settles, TypeOK, NewSession
<1>3. CASE Login(r) \/ Exchange(r) \/ Resolve(r) \/ Admit(r)
  BY <1>3, <1>t DEF Login, Exchange, Resolve, Admit, Respond, Found, Settles, TypeOK
<1>4. CASE CheckState(r)
  <2>1. session'[r].state = None /\ \A q \in Request \ {r} : session'[q] = session[q]
    BY <1>4, <1>t DEF CheckState, WithAttempt, TypeOK
  <2>2. CASE Matches(r) /\ Proceed(r)
    BY <1>4, <2>1, <2>2, <1>t DEF CheckState, Proceed, Settles, TypeOK, AttemptsMatch
  <2>3. CASE Respond(r)
    BY <1>4, <2>1, <2>3, <1>t DEF CheckState, Respond, Settles, TypeOK
  <2> QED BY <1>4, <2>2, <2>3 DEF CheckState
<1>5. CASE StartSession(r)
  <2>1. \A q \in Request : session'[q].state = session[q].state
    BY <1>5, <1>t DEF StartSession, SignIn, TypeOK, WithUser
  <2>2. \A q \in Request : \A a \in Attempt : Holds(q, a)' => Holds(q, a)
    BY <1>5, <2>1, <1>t DEF StartSession, Respond, TypeOK
  <2>3. \A t \in Token : store'[t] # None => store'[t] = store[t]
    BY <1>5, <1>t DEF StartSession, Renew, GiveUp, Deleted, DeleteFails, TypeOK
  <2>4. /\ \A q \in Request \ {r} : token'[q] = token[q]
        /\ token'[r] = token[r] \/ \A t \in Token : store'[t] # None => t # token[r]
    BY <1>5, <1>t DEF StartSession, Renew, GiveUp, Deleted, TypeOK
  <2> QED BY <1>5, <2>2, <2>3, <2>4 DEF StartSession, Settles
<1>6. CASE Deliver(r) \/ Lose(r)
  <2>1. expected'[r] = None /\ session'[r].state = None
    BY <1>6, <1>t DEF Deliver, Lose, Forget, TypeOK, NewSession, CallbacksOK, Answering
  <2>2. /\ \A q \in Request \ {r} : /\ session'[q] = session[q] /\ expected'[q] = expected[q]
                                    /\ pc'[q] = pc[q] /\ token'[q] = token[q]
        /\ UNCHANGED <<store, shared, grants>>
    BY <1>6, <1>t DEF Deliver, Lose, Forget, TypeOK
  <2>3. \A a \in Attempt : attempt'[a] = "unused" => attempt[a] = "unused"
    <3>1. CASE Lose(r)
      BY <3>1 DEF Lose
    <3>2. CASE Deliver(r)
      BY <3>2, <1>t DEF Deliver, TypeOK
    <3> QED BY <1>6, <3>1, <3>2
  <2> QED BY <2>1, <2>2, <2>3 DEF Settles
<1> QED BY <1>1, <1>2, <1>3, <1>4, <1>5, <1>6

(* The attempt that a sign-in answers is used up: the session that held it  *)
(* is deleted with the old token before the new one is written.             *)
LEMMA SignInHeld ==
  ASSUME Typed, AttemptsMatch, CallbacksOK, AttemptsHeld, NEW r \in Request, StartSession(r)
  PROVE  AttemptsHeld'
<1> USE DEF Goto, Return
<1>1. Settles(r)
  BY HandlersSettle
<1>2. CASE signedIn' = signedIn
  BY <1>1, <1>2, SettlesHeld
<1>3. CASE signedIn' # signedIn
  <2>1. /\ param[r] # None /\ signedIn' = signedIn \cup {param[r]} /\ Renew(r) /\ SignIn(r)
        /\ pc[r] = "renew" /\ param[r] \in Code
    <3>1. Renew(r) /\ SignIn(r) /\ pc[r] = "renew"
      BY <1>3 DEF StartSession
    <3>2. signedIn' = signedIn \cup ({param[r]} \ {None})
      BY <3>1 DEF SignIn
    <3>3. param[r] \in Code \cup {None}
      BY DEF Typed, TypeOK
    <3> QED BY <1>3, <3>1, <3>2, <3>3
  <2>2. grants[param[r]] # None /\ expected[r] = grants[param[r]].state
    BY <2>1 DEF CallbacksOK, Answering
  <2>3. PICK a \in Attempt : a = grants[param[r]].state
    BY <2>1, <2>2 DEF Typed, TypeOK, Grant
  <2>4. Holds(r, a) /\ session[r].state = None
    BY <2>2, <2>3 DEF Holds, CallbacksOK
  <2>5. ASSUME a \notin shared PROVE Nowhere(a)'
    <3>1. OnePlace(a)
      BY <2>5 DEF AttemptsHeld
    <3>2. \A t \in Token : store[t] # None /\ store[t].state = a => t = token[r]
      BY <2>4, <3>1 DEF OnePlace
    <3>3. \A t \in Token : store'[t] # None => store'[t] = store[t] /\ t # token[r]
      BY <2>1 DEF Renew, GiveUp, Deleted
    <3>4. \A t \in Token : store'[t] # None => store'[t].state # a
      BY <3>2, <3>3
    <3>5. \A q \in Request \ {r} : ~Holds(q, a)'
      BY <1>1, <2>4, <3>1 DEF Settles, OnePlace
    <3>6. expected'[r] = None /\ session'[r].state = None
      BY <2>1, <2>4 DEF StartSession, Respond, SignIn, WithUser, Typed, TypeOK
    <3>7. ~Holds(r, a)'
      BY <3>6 DEF Holds
    <3> QED BY <3>4, <3>5, <3>7 DEF Nowhere
  <2>6. ASSUME NEW c \in signedIn'
        PROVE  grants'[c] # None /\ (grants[c].state \notin shared => Nowhere(grants[c].state))'
    <3>1. grants' = grants /\ shared' = shared
      BY <1>1 DEF Settles
    <3>2. c \in Code /\ grants[c] # None
      BY <2>1, <2>2, <2>6 DEF AttemptsHeld, Typed, TypeOK
    <3>3. PICK b \in Attempt : b = grants[c].state
      BY <3>2 DEF Typed, TypeOK, Grant
    <3>4. ASSUME b \notin shared PROVE Nowhere(b)'
      <4>1. CASE c \in signedIn
        <5>1. Nowhere(b)
          BY <3>3, <3>4, <4>1 DEF AttemptsHeld, Nowhere
        <5> QED BY <1>1, <5>1, SettlesKeeps
      <4>2. CASE c = param[r]
        BY <2>3, <2>5, <3>3, <3>4, <4>2
      <4> QED BY <2>1, <2>6, <4>1, <4>2
    <3> QED BY <3>1, <3>2, <3>3, <3>4 DEF Nowhere
  <2> QED BY <1>1, <2>6, SettlesKeeps DEF AttemptsHeld
<1> QED BY <1>2, <1>3

(* A request that loads an attempt shares it, or is the only one to have it.*)
LEMMA ArriveHeld ==
  ASSUME Typed, CallbacksOK, AttemptsHeld, NEW r \in Request, ArriveSome(r)
  PROVE  AttemptsHeld'
<1> USE DEF Goto
<1>t. TypeOK
  BY DEF Typed
<1> PICK j \in Job, c \in Code \cup {None} : Arrive(r, j, c)
  BY DEF ArriveSome, Job
<1>u. UNCHANGED <<store, expected, attempt, grants, signedIn>> /\ shared \subseteq shared'
  BY DEF Arrive
<1>1. CASE ~(cookie # None /\ store[cookie] # None)
  <2>1. UNCHANGED <<token, session, shared>> /\ pc[r] = "idle" /\ pc' = [pc EXCEPT ![r] = j]
    BY <1>1 DEF Arrive
  <2>2. Settles(r)
    BY <1>t, <1>u, <2>1 DEF Settles, Holds, TypeOK
  <2> QED BY <1>u, <2>2, SettlesHeld
<1>2. CASE cookie # None /\ store[cookie] # None
  <2>1. /\ cookie \in Token /\ token' = [token EXCEPT ![r] = cookie]
        /\ session' = [session EXCEPT ![r] = store[cookie]]
        /\ pc[r] = "idle" /\ pc' = [pc EXCEPT ![r] = j] /\ expected[r] = None
    BY <1>2, <1>t DEF Arrive, TypeOK, CallbacksOK, Answering
  <2>2. \A q \in Request \ {r} : token'[q] = token[q] /\ \A a : Holds(q, a)' <=> Holds(q, a)
    BY <1>t, <1>u, <2>1 DEF Holds, TypeOK
  <2>3. token'[r] = cookie /\ \A a \in Attempt : Holds(r, a)' => store[cookie].state = a
    BY <1>t, <1>u, <2>1 DEF Holds, TypeOK
  <2>4. ASSUME NEW a \in Attempt, Nowhere(a) PROVE Nowhere(a)'
    BY <1>2, <1>u, <2>1, <2>2, <2>3, <2>4 DEF Nowhere
  <2>5. ASSUME NEW a \in Attempt \ shared' PROVE OnePlace(a)'
    <3>1. OnePlace(a)
      BY <1>u, <2>5 DEF AttemptsHeld
    <3>2. ASSUME Holds(r, a)', NEW q \in Request PROVE ~Holds(q, a)
      BY <1>2, <2>3, <2>5, <3>2 DEF Arrive
    <3>3. \A p, q \in Request : Holds(p, a)' /\ Holds(q, a)' => p = q
      BY <2>2, <3>1, <3>2 DEF OnePlace
    <3>4. ASSUME NEW q \in Request, NEW t \in Token, Holds(q, a)', store[t] # None,
                 store[t].state = a
          PROVE  token'[q] = t
      BY <1>2, <2>1, <2>2, <2>3, <3>1, <3>4 DEF OnePlace
    <3> QED BY <1>u, <3>1, <3>3, <3>4 DEF OnePlace
  <2>6. ASSUME NEW d \in signedIn
        PROVE  grants'[d] # None /\ (grants[d].state \notin shared => Nowhere(grants[d].state))'
    <3>1. d \in Code /\ grants[d] # None
      BY <1>t DEF AttemptsHeld, TypeOK
    <3>2. PICK b \in Attempt : b = grants[d].state
      BY <1>t, <3>1 DEF TypeOK, Grant
    <3>3. b \notin shared' => Nowhere(b)
      BY <1>u, <3>2 DEF AttemptsHeld, Nowhere
    <3>4. b \notin shared' => Nowhere(b)'
      BY <2>4, <3>3
    <3> QED BY <1>u, <3>1, <3>2, <3>4 DEF Nowhere
  <2> QED BY <1>u, <2>4, <2>5, <2>6 DEF AttemptsHeld
<1> QED BY <1>1, <1>2

(* beginSSO draws an attempt that is nowhere.                               *)
LEMMA BeginHeld ==
  ASSUME Typed, AttemptsHeld, NEW r \in Request, BeginSSO(r)
  PROVE  AttemptsHeld'
<1> USE DEF Goto, Return
<1>t. TypeOK
  BY DEF Typed
<1>1. PICK n \in Attempt : /\ attempt[n] = "unused"
                           /\ attempt' = [attempt EXCEPT ![n] = "begun"]
                           /\ session' = [session EXCEPT ![r] = WithAttempt(session[r], n)]
  BY DEF BeginSSO
<1>u. UNCHANGED <<store, token, grants, signedIn, shared>>
  BY DEF BeginSSO
<1>2. Nowhere(n) /\ \A a \in Attempt : attempt'[a] = "unused" => a # n /\ attempt[a] = "unused"
  BY <1>1, <1>t DEF AttemptsHeld, TypeOK
<1>3. \A q \in Request \ {r} : \A a : Holds(q, a)' <=> Holds(q, a)
  BY <1>1, <1>t DEF BeginSSO, Respond, Holds, TypeOK
<1>4. \A a \in Attempt : Holds(r, a)' => a = n
  BY <1>1, <1>t DEF BeginSSO, Respond, Holds, TypeOK, WithAttempt
<1>5. ASSUME NEW a \in Attempt, a # n, Nowhere(a) PROVE Nowhere(a)'
  BY <1>u, <1>3, <1>4, <1>5 DEF Nowhere
<1>6. ASSUME NEW a \in Attempt \ shared PROVE OnePlace(a)'
  <2>1. OnePlace(a)
    BY <1>6 DEF AttemptsHeld
  <2>2. CASE a = n
    BY <1>u, <1>2, <1>3, <2>2 DEF OnePlace, Nowhere
  <2>3. CASE a # n
    BY <1>u, <1>3, <1>4, <2>1, <2>3 DEF OnePlace
  <2> QED BY <2>2, <2>3
<1>7. \A c \in Code : grants[c] # None => attempt'[grants[c].state] # "unused"
                                          /\ grants[c].state # n
  BY <1>1, <1>t DEF AttemptsHeld, TypeOK, Grant
<1>8. ASSUME NEW d \in signedIn
      PROVE  grants'[d] # None /\ (grants[d].state \notin shared => Nowhere(grants[d].state))'
  <2>1. d \in Code /\ grants[d] # None
    BY <1>t DEF AttemptsHeld, TypeOK
  <2>2. PICK b \in Attempt : b = grants[d].state
    BY <1>t, <2>1 DEF TypeOK, Grant
  <2>3. b \notin shared => Nowhere(b)
    BY <2>2 DEF AttemptsHeld, Nowhere
  <2>4. b \notin shared => Nowhere(b)'
    BY <1>5, <1>7, <2>1, <2>2, <2>3
  <2> QED BY <1>u, <2>1, <2>2, <2>4 DEF Nowhere
<1> QED BY <1>u, <1>2, <1>5, <1>6, <1>7, <1>8 DEF AttemptsHeld

(* What a request writes back it alone held, and it holds it no longer.     *)
LEMMA CommitHeld ==
  ASSUME Typed, CallbacksOK, AttemptsHeld, NEW r \in Request, Commit(r)
  PROVE  AttemptsHeld'
<1> USE DEF Goto
<1>t. TypeOK
  BY DEF Typed
<1>u. UNCHANGED <<expected, attempt, grants, signedIn, shared>> /\ pc[r] = "commit"
  BY DEF Commit
<1>1. pc' = [pc EXCEPT ![r] = pc'[r]] /\ (pc'[r] = "deliver" \/ session'[r].state = None)
  BY <1>t DEF Commit, Forget, TypeOK, NewSession
<1>2. expected'[r] = None
  BY <1>u DEF CallbacksOK, Answering
<1>3. \A a \in Attempt : ~Holds(r, a)'
  BY <1>1, <1>2 DEF Holds
<1>4. \A q \in Request \ {r} : /\ session'[q] = session[q] /\ token'[q] = token[q]
                               /\ pc'[q] = pc[q]
  BY <1>t DEF Commit, Forget, TypeOK
<1>5. \A q \in Request \ {r} : \A a : Holds(q, a)' <=> Holds(q, a)
  BY <1>u, <1>4 DEF Holds
<1>6. CASE store' = store
  <2>1. Settles(r)
    BY <1>u, <1>3, <1>4, <1>5, <1>6 DEF Settles
  <2> QED BY <1>u, <2>1, SettlesHeld
<1>7. CASE store' # store
  <2>1. PICK t \in Token : /\ token[r] # None => token[r] = t
                           /\ store' = [store EXCEPT ![t] = session[r]]
    BY <1>7, <1>t DEF Commit, TypeOK
  <2>2. \A u \in Token : store'[u] = IF u = t THEN session[r] ELSE store[u]
    BY <1>t, <2>1 DEF TypeOK
  <2>3. \A a : session[r].state = a => Holds(r, a)
    BY <1>u DEF Holds
  <2>4. ASSUME NEW a \in Attempt, Nowhere(a) PROVE Nowhere(a)'
    BY <1>3, <1>5, <2>2, <2>3, <2>4 DEF Nowhere
  <2>5. ASSUME NEW a \in Attempt \ shared PROVE OnePlace(a)'
    <3>1. OnePlace(a)
      BY <2>5 DEF AttemptsHeld
    <3>2. \A p, q \in Request : Holds(p, a)' /\ Holds(q, a)' => p = q
      BY <1>3, <1>5, <3>1 DEF OnePlace
    <3>3. CASE session[r].state = a
      <4>1. \A u \in Token : store[u] # None /\ store[u].state = a => u = t
        BY <2>1, <2>3, <3>1, <3>3 DEF OnePlace
      <4>2. \A q \in Request : ~Holds(q, a)'
        BY <1>3, <1>5, <2>3, <3>1, <3>3 DEF OnePlace
      <4> QED BY <2>2, <4>1, <4>2 DEF OnePlace
    <3>4. CASE session[r].state # a
      <4>1. \A u \in Token : store'[u] # None /\ store'[u].state = a => store'[u] = store[u]
        BY <2>2, <3>4
      <4> QED BY <1>3, <1>4, <1>5, <3>1, <3>2, <4>1 DEF OnePlace
    <3> QED BY <3>3, <3>4
  <2>6. ASSUME NEW d \in signedIn
        PROVE  grants'[d] # None /\ (grants[d].state \notin shared => Nowhere(grants[d].state))'
    <3>1. d \in Code /\ grants[d] # None
      BY <1>t DEF AttemptsHeld, TypeOK
    <3>2. PICK b \in Attempt : b = grants[d].state
      BY <1>t, <3>1 DEF TypeOK, Grant
    <3>3. b \notin shared => Nowhere(b)
      BY <3>2 DEF AttemptsHeld, Nowhere
    <3>4. b \notin shared => Nowhere(b)'
      BY <2>4, <3>3
    <3> QED BY <1>u, <3>1, <3>2, <3>4 DEF Nowhere
  <2> QED BY <1>u, <2>4, <2>5, <2>6 DEF AttemptsHeld
<1> QED BY <1>6, <1>7

(* A user at the provider moves no attempt.                                 *)
LEMMA AuthorizeHeld ==
  ASSUME Typed, AttemptsHeld, Authorize
  PROVE  AttemptsHeld'
<1>t. TypeOK
  BY DEF Typed
<1>1. PICK c \in Code, a \in Attempt : /\ grants[c] = None /\ attempt[a] = "offered"
                                       /\ \A d \in Code \ {c} : grants'[d] = grants[d]
                                       /\ grants'[c].state = a
  <2>1. PICK c \in Code, a, n \in Attempt, u \in Principal :
            /\ grants[c] = None
            /\ attempt[a] = "offered"
            /\ grants' = [grants EXCEPT ![c] = [state |-> a, nonce |-> n, user |-> u]]
    BY DEF Authorize
  <2>2. /\ grants'[c] = [state |-> a, nonce |-> n, user |-> u]
        /\ \A d \in Code \ {c} : grants'[d] = grants[d]
    BY <2>1, <1>t DEF TypeOK
  <2> QED BY <2>1, <2>2
<1>2. \A d \in Code : grants[d] # None => grants'[d] = grants[d]
  BY <1>1, <1>t DEF TypeOK
<1>u. UNCHANGED <<store, pc, token, session, expected, attempt, signedIn, shared>>
  BY DEF Authorize
<1>3. \A b : (Nowhere(b)' <=> Nowhere(b)) /\ (OnePlace(b)' <=> OnePlace(b))
  BY <1>u DEF Nowhere, OnePlace, Holds
<1>4. \A d \in Code : grants'[d] # None => attempt'[grants'[d].state] # "unused"
  BY <1>1, <1>2, <1>u, <1>t DEF AttemptsHeld, TypeOK
<1>5. ASSUME NEW d \in signedIn
      PROVE  grants'[d] # None /\ (grants[d].state \notin shared => Nowhere(grants[d].state))'
  <2>1. d \in Code /\ grants[d] # None /\ grants'[d] = grants[d]
    BY <1>t, <1>2 DEF AttemptsHeld, TypeOK
  <2>2. PICK b : b = grants[d].state
    OBVIOUS
  <2>3. b \notin shared => Nowhere(b)'
    BY <1>3, <2>2 DEF AttemptsHeld, Nowhere
  <2> QED BY <1>u, <2>1, <2>2, <2>3 DEF Nowhere
<1> QED BY <1>u, <1>3, <1>4, <1>5 DEF AttemptsHeld

LEMMA HeldNext ==
  Typed /\ AttemptsMatch /\ CallbacksOK /\ AttemptsHeld /\ [Next]_vars => AttemptsHeld'
<1> SUFFICES ASSUME Typed, AttemptsMatch, CallbacksOK, AttemptsHeld, [Next]_vars
             PROVE  AttemptsHeld'
  OBVIOUS
<1>1. CASE UNCHANGED vars
  BY <1>1 DEF vars, AttemptsHeld, Nowhere, OnePlace, Holds
<1>2. CASE Authorize
  BY <1>2, AuthorizeHeld
<1>3. ASSUME NEW r \in Request, RequestNext(r) PROVE AttemptsHeld'
  <2>1. CASE \/ CurrentPrincipal(r) \/ Destroy(r) \/ Login(r) \/ CheckState(r) \/ Exchange(r)
             \/ Resolve(r) \/ Admit(r) \/ Deliver(r) \/ Lose(r)
    <3>1. signedIn' = signedIn
      BY <2>1 DEF CurrentPrincipal, Destroy, Login, CheckState, Exchange, Resolve, Admit,
                  Deliver, Lose
    <3>2. Settles(r)
      BY <2>1, HandlersSettle
    <3> QED BY <3>1, <3>2, SettlesHeld
  <2>2. CASE ArriveSome(r)
    BY <2>2, ArriveHeld
  <2>3. CASE BeginSSO(r)
    BY <2>3, BeginHeld
  <2>4. CASE StartSession(r)
    BY <2>4, SignInHeld
  <2>5. CASE Commit(r)
    BY <2>5, CommitHeld
  <2> QED BY <1>3, <2>1, <2>2, <2>3, <2>4, <2>5 DEF RequestNext
<1> QED BY <1>1, <1>2, <1>3, StepCases

(* A callback works once: the attempt that signed somebody in is nowhere    *)
(* any more, whatever was lost or failed, unless two requests of the        *)
(* browser held it at the same time.                                        *)
THEOREM CallbackWorksOnce == Spec => []SpentAttemptGone
<1>1. Init => AttemptsMatch /\ CallbacksOK /\ AttemptsHeld
  BY DEF Init, AttemptsMatch, CallbacksOK, Answering, AttemptsHeld, Nowhere, OnePlace, Holds,
         NewSession
<1>2. Typed /\ AttemptsHeld => SpentAttemptGone
  <2> SUFFICES ASSUME Typed, AttemptsHeld, NEW c \in signedIn, grants[c].state \notin shared
               PROVE  /\ \A t \in Token : store[t] # None => store[t].state # grants[c].state
                      /\ \A r \in Request : expected[r] # grants[c].state
    BY DEF SpentAttemptGone
  <2>1. Nowhere(grants[c].state)
    BY DEF AttemptsHeld, Nowhere
  <2> QED BY <2>1 DEF Nowhere, Holds
<1> QED BY <1>1, <1>2, AttemptsNext, CallbacksNext, HeldNext, TypeCorrect, PTL DEF Spec

=============================================================================
