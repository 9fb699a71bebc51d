------------------------------ MODULE Sessions ------------------------------
(***************************************************************************)
(* Browser sessions of auth/authn: password login, SSO, the session         *)
(* endpoints and logout, as concurrent requests of one browser.             *)
(*                                                                          *)
(* The session store is the application's, used through scs (external): a   *)
(* request works on a copy of its session, loaded when it arrives and       *)
(* written back whole, if it was modified, when the response starts.  A     *)
(* request is in one handler; an action is one call to the session store,   *)
(* the identity store or the provider, with what the code does up to the    *)
(* next one.  Any of these calls may fail, and a request may be lost with   *)
(* its process or its response.                                             *)
(***************************************************************************)
EXTENDS FiniteSets

CONSTANTS
    Request,    \* requests that may run at the same time
    Principal,
    Token,      \* session tokens
    Attempt,    \* SSO attempts: the state and the nonce that beginSSO draws
    Code,       \* authorization codes of the provider
    None

ASSUME SessionsAssumption ==
    None \notin Principal \cup Token \cup Attempt \cup Code

Job == {"session", "login", "logout", "sso_start", "sso_callback"}

(* What a session holds: user_id, sso_state and sso_nonce.                  *)
Session == [user : Principal \cup {None},
            state : Attempt \cup {None}, nonce : Attempt \cup {None}]
NewSession == [user |-> None, state |-> None, nonce |-> None]
WithUser(s, u) == [user |-> u, state |-> s.state, nonce |-> s.nonce]
WithAttempt(s, a) == [user |-> s.user, state |-> a, nonce |-> a]

(* A code comes back with the state of the attempt it answers; the ID token *)
(* it buys names a nonce and a user.                                        *)
Grant == [state : Attempt, nonce : Attempt, user : Principal]

VARIABLES
    store,      \* the session store
    issued,     \* tokens ever generated
    cookie,     \* the browser's session cookie
    pc,         \* the call a request is about to make
    redirects,  \* requests that answer with a redirect to the provider
    token,      \* the token of a request's copy of its session
    session,    \* the copy itself
    status,     \* "unmodified", "modified" or "destroyed", as scs keeps it
    param,      \* the code in a callback's URL
    expected,   \* expectedNonce of a callback
    who,        \* the principal a request has established
    attempt,    \* "unused", "begun" or "offered" to the browser
    grants,     \* what the provider grants for each code
    spent,      \* codes exchanged
    revoked,    \* tokens given up by a logout or a sign-in      (history)
    raced,      \* those that another request held at the time   (history)
    signedIn,   \* codes that signed somebody in                 (history)
    shared      \* attempts that requests held at the same time  (history)

copyVars == <<token, session, status>>
callVars == <<param, expected, who>>
ssoVars == <<attempt, grants, spent>>
history == <<revoked, raced, signedIn, shared>>
vars == <<store, issued, cookie, pc, redirects, copyVars, callVars, ssoVars, history>>

-----------------------------------------------------------------------------
Init ==
    /\ store = [t \in Token |-> None]
    /\ issued = {}
    /\ cookie = None
    /\ pc = [r \in Request |-> "idle"]
    /\ redirects = {}
    /\ token = [r \in Request |-> None]
    /\ session = [r \in Request |-> NewSession]
    /\ status = [r \in Request |-> "unmodified"]
    /\ param = [r \in Request |-> None]
    /\ expected = [r \in Request |-> None]
    /\ who = [r \in Request |-> None]
    /\ attempt = [a \in Attempt |-> "unused"]
    /\ grants = [c \in Code |-> None]
    /\ spent = {}
    /\ revoked = {}
    /\ raced = {}
    /\ signedIn = {}
    /\ shared = {}

Goto(r, l) == pc' = [pc EXCEPT ![r] = l]

(* The handler is over, and with it what it held in its variables.          *)
Return(r) ==
    /\ param' = [param EXCEPT ![r] = None]
    /\ expected' = [expected EXCEPT ![r] = None]
    /\ who' = [who EXCEPT ![r] = None]

(* The handler returns, and the response is about to start.                 *)
Respond(r) == Goto(r, "commit") /\ Return(r)

(* The request is over, and its copy of the session with it.                *)
Forget(r) ==
    /\ Goto(r, "idle")
    /\ redirects' = redirects \ {r}
    /\ token' = [token EXCEPT ![r] = None]
    /\ session' = [session EXCEPT ![r] = NewSession]
    /\ status' = [status EXCEPT ![r] = "unmodified"]

(* A principal is established.                                              *)
Found(r, u) == who' = [who EXCEPT ![r] = u] /\ UNCHANGED <<param, expected>>

(* The session store's delete: it works, or fails with or without effect.   *)
Deleted(t) == store' = [u \in Token |-> IF u = t THEN None ELSE store[u]]
DeleteFails(t) == UNCHANGED store \/ Deleted(t)

(* The request gives its token up.                                          *)
GiveUp(r) ==
    /\ Deleted(token[r])
    /\ revoked' = revoked \cup ({token[r]} \ {None})
    /\ raced' = raced \cup {t \in Token : \E q \in Request \ {r} : token[q] = t /\ token[r] = t}

-----------------------------------------------------------------------------
(* A request has the attempt in a copy it may yet write back, or has popped *)
(* it to answer a callback.                                                 *)
Holds(r, a) == expected[r] = a \/ (session[r].state = a /\ pc[r] # "deliver")

(* The browser sends a request with its cookie, and scs loads the session   *)
(* or, when it knows no such token, starts a new one without a token.       *)
Arrive(r, j, c) ==
    /\ pc[r] = "idle"
    /\ Goto(r, j)
    /\ param' = [param EXCEPT ![r] = c]
    /\ IF cookie # None /\ store[cookie] # None
       THEN /\ token' = [token EXCEPT ![r] = cookie]
            /\ session' = [session EXCEPT ![r] = store[cookie]]
            /\ shared' = shared \cup {a \in Attempt : /\ store[cookie].state = a
                                                     /\ \E q \in Request : Holds(q, a)}
       ELSE UNCHANGED <<token, session, shared>>
    /\ UNCHANGED <<store, issued, cookie, redirects, status, expected, who, ssoVars>>
    /\ UNCHANGED <<revoked, raced, signedIn>>

(* A callback is sent once the provider redirected the browser, and again   *)
(* when the user reloads it.                                                *)
ArriveSome(r) ==
    \/ \E j \in Job \ {"sso_callback"} : Arrive(r, j, None)
    \/ \E c \in Code : grants[c] # None /\ Arrive(r, "sso_callback", c)

(* Authenticate with the cookie: the session names somebody or nobody; the  *)
(* lookup and the admission may fail; or the principal is gone.             *)
CurrentPrincipal(r) ==
    /\ pc[r] = "session"
    /\ \/ Respond(r)
       \/ session[r].user # None /\ Goto(r, "logout") /\ UNCHANGED callVars
    /\ UNCHANGED <<store, issued, cookie, redirects, copyVars, ssoVars, history>>

(* Faulty: the session is emptied, but not removed from the store.          *)
DestroyLocally(r) ==
    /\ pc[r] = "logout"
    /\ Respond(r)
    /\ revoked' = revoked \cup ({token[r]} \ {None})
    /\ token' = [token EXCEPT ![r] = None]
    /\ session' = [session EXCEPT ![r] = NewSession]
    /\ status' = [status EXCEPT ![r] = "destroyed"]
    /\ UNCHANGED <<store, issued, cookie, redirects, ssoVars, raced, signedIn, shared>>

(* Destroy: by Logout, and by currentPrincipal for a principal that is gone.*)
(* When the delete fails, with or without effect, the copy stays as it is.  *)
Destroy(r) ==
    /\ pc[r] = "logout"
    /\ Respond(r)
    /\ \/ /\ GiveUp(r)
          /\ token' = [token EXCEPT ![r] = None]
          /\ session' = [session EXCEPT ![r] = NewSession]
          /\ status' = [status EXCEPT ![r] = "destroyed"]
       \/ /\ GiveUp(r) \/ UNCHANGED <<store, revoked, raced>>
          /\ UNCHANGED copyVars
    /\ UNCHANGED <<issued, cookie, redirects, ssoVars, signedIn, shared>>

(* authenticatePassword: an eligible identity with the right password, or   *)
(* an error.                                                                *)
Login(r) ==
    /\ pc[r] = "login"
    /\ \/ Respond(r)
       \/ \E u \in Principal : Found(r, u) /\ Goto(r, "admit")
    /\ UNCHANGED <<store, issued, cookie, redirects, copyVars, ssoVars, history>>

(* beginSSO.                                                                *)
BeginSSO(r) ==
    /\ pc[r] = "sso_start"
    /\ Respond(r)
    /\ \E a \in Attempt :
           /\ attempt[a] = "unused"
           /\ attempt' = [attempt EXCEPT ![a] = "begun"]
           /\ session' = [session EXCEPT ![r] = WithAttempt(session[r], a)]
    /\ status' = [status EXCEPT ![r] = "modified"]
    /\ redirects' = redirects \cup {r}
    /\ UNCHANGED <<store, issued, cookie, token, grants, spent, history>>

Matches(r) == session[r].state = grants[param[r]].state /\ session[r].nonce # None

Proceed(r) ==
    /\ Goto(r, "exchange")
    /\ expected' = [expected EXCEPT ![r] = session[r].nonce]
    /\ UNCHANGED <<param, who>>

(* Faulty: state and nonce are read, and stay in the session.               *)
CheckStateOnly(r) ==
    /\ pc[r] = "sso_callback"
    /\ IF Matches(r) THEN Proceed(r) ELSE Respond(r)
    /\ UNCHANGED <<store, issued, cookie, redirects, copyVars, ssoVars, history>>

(* completeSSO up to the exchange: both are popped before they are looked   *)
(* at, so a callback that does not match uses them up as well.              *)
CheckState(r) ==
    /\ pc[r] = "sso_callback"
    /\ session' = [session EXCEPT ![r] = WithAttempt(session[r], None)]
    /\ status' = IF session' = session THEN status ELSE [status EXCEPT ![r] = "modified"]
    /\ IF Matches(r) THEN Proceed(r) ELSE Respond(r)
    /\ UNCHANGED <<store, issued, cookie, redirects, token, ssoVars, history>>

(* Faulty: the nonce of the ID token is not compared.                       *)
ExchangeAny(r) ==
    /\ pc[r] = "exchange"
    /\ \/ spent' \in {spent, spent \cup {param[r]}} /\ Respond(r)
       \/ /\ param[r] \notin spent
          /\ spent' = spent \cup {param[r]}
          /\ Found(r, grants[param[r]].user)
          /\ Goto(r, "resolve")
    /\ UNCHANGED <<store, issued, cookie, redirects, copyVars, attempt, grants, history>>

(* The provider takes a code once; the ID token must carry the nonce.       *)
Exchange(r) ==
    /\ pc[r] = "exchange"
    /\ \/ spent' \in {spent, spent \cup {param[r]}} /\ Respond(r)
       \/ /\ param[r] \notin spent
          /\ spent' = spent \cup {param[r]}
          /\ grants[param[r]].nonce = expected[r]
          /\ Found(r, grants[param[r]].user)
          /\ Goto(r, "resolve")
    /\ UNCHANGED <<store, issued, cookie, redirects, copyVars, attempt, grants, history>>

(* completeSSOLogin: the claims name a provisioned principal, or not.       *)
Resolve(r) ==
    /\ pc[r] = "resolve"
    /\ Respond(r) \/ (Goto(r, "admit") /\ UNCHANGED callVars)
    /\ UNCHANGED <<store, issued, cookie, redirects, copyVars, ssoVars, history>>

(* startSession asks the application's Admit.                               *)
Admit(r) ==
    /\ pc[r] = "admit"
    /\ Respond(r) \/ (Goto(r, "renew") /\ UNCHANGED callVars)
    /\ UNCHANGED <<store, issued, cookie, redirects, copyVars, ssoVars, history>>

SignIn(r) ==
    /\ session' = [session EXCEPT ![r] = WithUser(session[r], who[r])]
    /\ status' = [status EXCEPT ![r] = "modified"]
    /\ signedIn' = signedIn \cup ({param[r]} \ {None})

(* Faulty: the session keeps its token.                                     *)
PutWithoutRenewal(r) ==
    /\ pc[r] = "renew"
    /\ Respond(r)
    /\ SignIn(r)
    /\ UNCHANGED <<store, issued, cookie, redirects, token, ssoVars, revoked, raced, shared>>

(* RenewToken deletes the session under its old token and draws a new one.  *)
Renew(r) ==
    /\ GiveUp(r)
    /\ \E t \in Token \ issued :
           issued' = issued \cup {t} /\ token' = [token EXCEPT ![r] = t]

(* startSession: the user is put into the renewed copy, which keeps what    *)
(* else it holds.                                                           *)
StartSession(r) ==
    /\ pc[r] = "renew"
    /\ Respond(r)
    /\ \/ Renew(r) /\ SignIn(r)
       \/ DeleteFails(token[r]) /\ UNCHANGED <<issued, copyVars, revoked, raced, signedIn>>
    /\ UNCHANGED <<cookie, redirects, ssoVars, shared>>

(* scs writes a modified session back when the response starts; one that    *)
(* has no token gets one.  When the write fails, with or without effect,    *)
(* the browser gets an error and no cookie.                                 *)
Commit(r) ==
    /\ pc[r] = "commit"
    /\ IF status[r] = "modified"
       THEN \E t \in IF token[r] = None THEN Token \ issued ELSE {token[r]} :
                /\ issued' = issued \cup {t}
                /\ \/ /\ store' = [store EXCEPT ![t] = session[r]]
                      /\ token' = [token EXCEPT ![r] = t]
                      /\ Goto(r, "deliver")
                      /\ UNCHANGED <<redirects, session, status>>
                   \/ store' \in {store, [store EXCEPT ![t] = session[r]]} /\ Forget(r)
       ELSE Goto(r, "deliver") /\ UNCHANGED <<store, issued, redirects, copyVars>>
    /\ UNCHANGED <<cookie, callVars, ssoVars, history>>

(* The browser receives the response: Set-Cookie, and the redirect to the   *)
(* provider.                                                                *)
Deliver(r) ==
    /\ pc[r] = "deliver"
    /\ cookie' = CASE status[r] = "modified" -> token[r]
                   [] status[r] = "destroyed" -> None
                   [] OTHER -> cookie
    /\ attempt' = [a \in Attempt |->
                       IF r \in redirects /\ session[r].state = a THEN "offered"
                       ELSE attempt[a]]
    /\ Forget(r)
    /\ UNCHANGED <<store, issued, callVars, grants, spent, history>>

(* The process or the connection is lost.                                   *)
Lose(r) ==
    /\ pc[r] # "idle"
    /\ Forget(r)
    /\ Return(r)
    /\ UNCHANGED <<store, issued, cookie, ssoVars, history>>

(* At the provider a user authorizes an attempt, once or again; the nonce   *)
(* of the ID token need not be the attempt's when the provider errs.        *)
Authorize ==
    /\ \E c \in Code, a, n \in Attempt, u \in Principal :
           /\ grants[c] = None
           /\ attempt[a] = "offered"
           /\ attempt[n] # "unused"
           /\ grants' = [grants EXCEPT ![c] = [state |-> a, nonce |-> n, user |-> u]]
    /\ UNCHANGED <<store, issued, cookie, pc, redirects, copyVars, callVars, attempt, spent, history>>

RequestNext(r) ==
    \/ ArriveSome(r) \/ CurrentPrincipal(r) \/ Destroy(r) \/ Login(r) \/ BeginSSO(r)
    \/ CheckState(r) \/ Exchange(r) \/ Resolve(r) \/ Admit(r) \/ StartSession(r)
    \/ Commit(r) \/ Deliver(r) \/ Lose(r)

Next == Authorize \/ \E r \in Request : RequestNext(r)

Spec == Init /\ [][Next]_vars

-----------------------------------------------------------------------------
TypeOK ==
    /\ store \in [Token -> Session \cup {None}]
    /\ issued \subseteq Token
    /\ cookie \in Token \cup {None}
    /\ pc \in [Request -> Job \cup {"idle", "exchange", "resolve", "admit",
                                    "renew", "commit", "deliver"}]
    /\ redirects \subseteq Request
    /\ token \in [Request -> Token \cup {None}]
    /\ session \in [Request -> Session]
    /\ status \in [Request -> {"unmodified", "modified", "destroyed"}]
    /\ param \in [Request -> Code \cup {None}]
    /\ expected \in [Request -> Attempt \cup {None}]
    /\ who \in [Request -> Principal \cup {None}]
    /\ attempt \in [Attempt -> {"unused", "begun", "offered"}]
    /\ grants \in [Code -> Grant \cup {None}]
    /\ spent \subseteq Code
    /\ revoked \subseteq Token
    /\ raced \subseteq Token
    /\ signedIn \subseteq Code
    /\ shared \subseteq Attempt

(* A token given up by Logout, by the loss of its principal or by a new     *)
(* sign-in is good for nothing ever after, also when the Destroy that       *)
(* deleted it was reported as failed and the request went on with its copy: *)
(* no later request, no cookie the browser still sends and no failed or     *)
(* lost call brings the session back, unless another request already held a *)
(* copy of it when it was given up.                                         *)
RevokedStaysGone == \A t \in revoked \ raced : store[t] = None

(* A token never comes to stand for somebody else: a browser that held it   *)
(* before a sign-in is not signed in by it afterwards (RenewToken), however *)
(* the requests of the browser overlap.                                     *)
TokenKeepsIdentity ==
    [][\A t \in Token : store[t] # None /\ store'[t] # None =>
           store'[t].user = store[t].user]_vars

(* Whoever is signed in by a callback authenticated for the very attempt    *)
(* whose state the callback brought back, although attempts of one browser  *)
(* overwrite each other's state and nonce.                                  *)
SignInMatchesAttempt == \A c \in signedIn : grants[c].nonce = grants[c].state

(* A callback is single-use: the attempt that signed somebody in is in no   *)
(* stored session and answers no other callback, whichever write of the     *)
(* session failed or was lost, unless two requests held it at once.         *)
SpentAttemptGone ==
    \A c \in signedIn :
        grants[c].state \notin shared =>
            /\ \A t \in Token : store[t] # None => store[t].state # grants[c].state
            /\ \A r \in Request : expected[r] # grants[c].state

=============================================================================
