------------------------------ MODULE Sessions ------------------------------
(***************************************************************************)
(* One account, signed in from several browsers: AuthService behind        *)
(* its controller and guard on one side, the auth store and the axios     *)
(* instance with its response interceptor on the other.                    *)
(*                                                                         *)
(* Each query of a handler is a step.  A request keeps the state of the    *)
(* browser's promise (cl) and of the handler (sv) apart, because a browser *)
(* may give up on a handler that goes on.  The interceptor runs for        *)
(* refresh calls as well, so a refused refresh is answered by another one: *)
(* levels of it beyond the first behave alike and are one stage, "deeper". *)
(***************************************************************************)
EXTENDS Naturals

CONSTANTS
  Client,         \* browsers
  Request,        \* requests that can be under way at a time
  RefreshToken,   \* refresh tokens, by the login that issues them
  MaxPassword,    \* passwords are numbered by the changes; bounds the model
  None

ASSUME SessionsAssumption ==
  /\ MaxPassword \in Nat \ {0}
  /\ None \notin Client \cup RefreshToken

Password == 1 .. MaxPassword
Access == {"none", "good", "expired"}     \* what an access token is worth
Kind == {"login", "logout", "call"}

VARIABLES
  password,       \* users.password
  active,         \* users.isActive
  stored,         \* refresh_tokens: not yet issued, live, or revoked or expired
  change,         \* changePassword(): idle, compared, or written
  store,          \* the auth store of each browser
  req,            \* requests under way
  issuedUnder,    \* the password that was given for each refresh token
  outlived,       \* tokens saved after a change of the password that the login
                  \* was checked against, or spared by a change that failed
  raced           \* browsers that signed out while refreshing

server == <<password, active, stored, change>>
ghosts == <<issuedUnder, outlived, raced>>
vars == <<server, store, req, ghosts>>

Waiting == {"waiting", "refreshing", "deeper", "resending"}
Handler == {"login", "checked", "saved", "logout", "admitted", "revoked",
            "call", "refresh"}
Ended == {"ok", "401", "error"}

ReqRec == [client : Client, kind : Kind,
           given : Password,                  \* password of a login
           arg : RefreshToken \cup {None},   \* body of a logout
           cl : Waiting \cup {"idle"}, sv : Handler \cup Ended,
           auth : Access, retried : BOOLEAN,
           ask : RefreshToken \cup {None},   \* refresh token asked with, or issued
           was : RefreshToken \cup {None}]   \* asked with one level above

StoreRec == [user : BOOLEAN, token : Access, refresh : RefreshToken \cup {None}]

Call(c, kind, given, arg, access) ==
  [client |-> c, kind |-> kind, given |-> given, arg |-> arg, cl |-> "waiting", sv |-> kind,
   auth |-> access, retried |-> FALSE, ask |-> None, was |-> None]

NoRequest == [Call(None, "none", 1, None, "none") EXCEPT !.cl = "idle"]

TypeOK ==
  /\ password \in Password
  /\ active \in BOOLEAN
  /\ stored \in [RefreshToken -> {"absent", "live", "dead"}]
  /\ change \in {"idle", "compared", "written"}
  /\ store \in [Client -> StoreRec]
  /\ req \in [Request -> ReqRec \cup {NoRequest}]
  /\ issuedUnder \in [RefreshToken -> Password]
  /\ outlived \subseteq RefreshToken
  /\ raced \subseteq Client

SignedOut == [user |-> FALSE, token |-> "none", refresh |-> None]

Init ==
  /\ password = 1 /\ active = TRUE
  /\ stored = [t \in RefreshToken |-> "absent"]
  /\ change = "idle"
  /\ store = [c \in Client |-> SignedOut]
  /\ req = [r \in Request |-> NoRequest]
  /\ issuedUnder = [t \in RefreshToken |-> 1]
  /\ outlived = {} /\ raced = {}

-----------------------------------------------------------------------------
(* The handlers, one query a step.  A handler whose browser gave up ends   *)
(* without leaving an answer.                                              *)

At(r, point) == req[r].sv = point

Goes(r, point) == [req EXCEPT ![r].sv = point]

Answers(r, code) ==
  [req EXCEPT ![r] = IF @.cl = "idle" THEN NoRequest ELSE [@ EXCEPT !.sv = code]]

\* JwtAuthGuard and JwtStrategy.validate(): signature, expiry and isActive.
Admitted(r) == req[r].auth = "good" /\ active

\* login(): validateUser().
CheckLogin(r) ==
  /\ At(r, "login")
  /\ req' = IF active /\ req[r].given = password THEN Goes(r, "checked")
                                                ELSE Answers(r, "401")
  /\ UNCHANGED <<server, store, ghosts>>

\* login(): the refresh token is signed and its hash stored.
SaveToken(r, t) ==
  /\ At(r, "checked")
  /\ stored[t] = "absent"
  /\ stored' = [stored EXCEPT ![t] = "live"]
  /\ req' = [req EXCEPT ![r].sv = "saved", ![r].ask = t]
  /\ issuedUnder' = [issuedUnder EXCEPT ![t] = req[r].given]
  /\ outlived' = outlived \cup (IF req[r].given # password THEN {t} ELSE {})
  /\ UNCHANGED <<password, active, change, store, raced>>

\* login() and logout() set the user's status last.
SetOnline(r) ==
  /\ At(r, "saved")
  /\ req' = Answers(r, "ok")
  /\ UNCHANGED <<server, store, ghosts>>

SetOffline(r) ==
  /\ At(r, "revoked")
  /\ req' = Answers(r, "ok")
  /\ UNCHANGED <<server, store, ghosts>>

\* The guard of the routes that are not public.
Admit(r) ==
  /\ \/ At(r, "logout") /\ req' = IF Admitted(r) THEN Goes(r, "admitted")
                                                  ELSE Answers(r, "401")
     \/ At(r, "call") /\ req' = Answers(r, IF Admitted(r) THEN "ok" ELSE "401")
  /\ UNCHANGED <<server, store, ghosts>>

Kill(ts) ==
  [t \in RefreshToken |-> IF t \in ts /\ stored[t] = "live" THEN "dead" ELSE stored[t]]

\* logout(): the token in the body is revoked.
Revoke(r) ==
  /\ At(r, "admitted")
  /\ stored' = Kill({req[r].arg})
  /\ req' = Goes(r, "revoked")
  /\ UNCHANGED <<password, active, change, store, ghosts>>

\* refreshToken(): the new access token is good whatever isActive says.
CheckRefresh(r) ==
  /\ At(r, "refresh")
  /\ req' = Answers(r, IF stored[req[r].ask] = "live" THEN "ok" ELSE "401")
  /\ UNCHANGED <<server, store, ghosts>>

\* A query fails, nginx refuses the request, the process dies under it, or
\* the answer is lost.
Fail(r) ==
  /\ req[r].sv \in Handler \cup {"ok", "401"}
  /\ req' = Answers(r, "error")
  /\ UNCHANGED <<server, store, ghosts>>

\* changePassword(), for a caller with a good access token: the current
\* password is compared, the new one written, every refresh token revoked.
ComparePassword ==
  /\ change = "idle" /\ active
  /\ \E c \in Client : store[c].token = "good"
  /\ change' = "compared"
  /\ UNCHANGED <<password, active, stored, store, req, ghosts>>

WritePassword ==
  /\ change = "compared" /\ password < MaxPassword
  /\ password' = password + 1
  /\ change' = "written"
  /\ UNCHANGED <<active, stored, store, req, ghosts>>

\* Faulty variant: the sessions of the browsers at hand are revoked.
RevokePresent ==
  /\ change = "written"
  /\ stored' = Kill({store[c].refresh : c \in Client})
  /\ change' = "idle"
  /\ UNCHANGED <<password, active, store, req, ghosts>>

RevokeAll ==
  /\ change = "written"
  /\ stored' = Kill(RefreshToken)
  /\ change' = "idle"
  /\ UNCHANGED <<password, active, store, req, ghosts>>

\* A query of changePassword() fails: what it has written stays.
FailChange ==
  /\ change # "idle"
  /\ change' = "idle"
  /\ outlived' = outlived \cup
       (IF change = "written" THEN {t \in RefreshToken : stored[t] = "live"} ELSE {})
  /\ UNCHANGED <<password, active, stored, store, req,
                 issuedUnder, raced>>

\* UsersService.delete(), by an administrator; a PATCH that names isActive is
\* refused, and nothing makes a user active again.
Deactivate ==
  /\ active
  /\ active' = FALSE
  /\ UNCHANGED <<password, stored, change, store, req, ghosts>>

\* expiresAt of a refresh token passes.
ExpireRefresh(t) ==
  /\ stored[t] = "live"
  /\ stored' = Kill({t})
  /\ UNCHANGED <<password, active, change, store, req, ghosts>>

\* The access tokens of a browser expire, those its requests carry included.
ExpireAccess(c) ==
  LET old(a) == IF a = "good" THEN "expired" ELSE a IN
  /\ store[c].token = "good"
  /\ store' = [store EXCEPT ![c].token = "expired"]
  /\ req' = [r \in Request |-> IF req[r].client = c
                                 THEN [req[r] EXCEPT !.auth = old(@)] ELSE req[r]]
  /\ UNCHANGED <<server, ghosts>>

-----------------------------------------------------------------------------
(* The browser                                                             *)

Free(r) == req[r] = NoRequest

\* A request leaves with the access token of the store, which axios' default
\* header has as well.
Sends(r, c, kind, given, arg) ==
  req' = [req EXCEPT ![r] = Call(c, kind, given, arg, store[c].token)]

\* The login page, whose button is disabled while a login is under way.
Login(c, r, p) ==
  /\ Free(r)
  /\ \A x \in Request : req[x].client = c /\ req[x].kind = "login" => req[x].cl = "idle"
  /\ Sends(r, c, "login", p, None)
  /\ UNCHANGED <<server, store, ghosts>>

\* Any call of the pages: they show nothing before a user is there.
Use(c, r) ==
  /\ Free(r) /\ store[c].user
  /\ Sends(r, c, "call", 1, None)
  /\ UNCHANGED <<server, store, ghosts>>

Refreshing(c) == \E r \in Request : req[r].client = c /\ req[r].cl \in {"refreshing", "deeper"}

\* Faulty variant: the access token stays.
ClearsRest(c, r) ==
  /\ IF store[c].refresh = None THEN req' = [req EXCEPT ![r] = NoRequest]
                                ELSE Sends(r, c, "logout", 1, store[c].refresh)
  /\ store' = [store EXCEPT ![c] = [SignedOut EXCEPT !.token = store[c].token]]

\* logout() of the store: the call, if there is a refresh token, in slot r;
\* then everything is cleared.
Clears(c, r) ==
  /\ IF store[c].refresh = None THEN req' = [req EXCEPT ![r] = NoRequest]
                                ELSE Sends(r, c, "logout", 1, store[c].refresh)
  /\ store' = [store EXCEPT ![c] = SignedOut]

Logout(c, r) ==
  /\ Free(r) /\ store[c].user
  /\ Clears(c, r)
  /\ raced' = IF Refreshing(c) THEN raced \cup {c} ELSE raced
  /\ UNCHANGED <<server, issuedUnder, outlived>>

\* The promise of a request settles.
Settled(q) == IF q.sv \in Handler THEN [q EXCEPT !.cl = "idle"] ELSE NoRequest

Settles(r) == req' = [req EXCEPT ![r] = Settled(@)]

\* Faulty variant: the wrong one of two tokens is kept.
KeepsAsked(c, tok) == store' = [store EXCEPT ![c].token = store[c].refresh]

Keeps(c, tok) == store' = [store EXCEPT ![c].token = tok]

\* A request is answered, and was not refused for lack of a valid token.
Succeed(r) ==
  LET q == req[r] IN
  /\ q.cl = "waiting" /\ q.sv = "ok"
  /\ store' = IF q.kind = "login"
                THEN [store EXCEPT ![q.client] = [user |-> TRUE, token |-> "good", refresh |-> q.ask]]
                ELSE store
  /\ raced' = IF q.kind = "login" THEN raced \ {q.client} ELSE raced
  /\ Settles(r)
  /\ UNCHANGED <<server, issuedUnder, outlived>>

\* An error other than 401, or axios' timeout of thirty seconds.
NoAnswer(r) == req[r].sv \in Handler \cup {"error"}

\* The caller gets the error, be it a 401 after the one retry or without a
\* refresh token in the store.
Reject(r) ==
  /\ req[r].cl = "waiting"
  /\ \/ NoAnswer(r)
     \/ req[r].sv = "401" /\ (req[r].retried \/ store[req[r].client].refresh = None)
  /\ Settles(r)
  /\ UNCHANGED <<server, store, ghosts>>

\* The interceptor answers a 401 with a refresh call, whose own 401 it
\* answers with another one as long as the store has a refresh token.
Refresh(r) ==
  LET q == req[r] IN
  /\ \/ q.cl = "waiting" /\ ~ q.retried
     \/ q.cl \in {"refreshing", "deeper"}
  /\ q.sv = "401" /\ store[q.client].refresh # None
  /\ req' = [req EXCEPT ![r].cl = IF q.cl = "waiting" THEN "refreshing" ELSE "deeper",
                        ![r].sv = "refresh", ![r].retried = TRUE,
                        ![r].was = IF q.cl = "waiting" THEN None ELSE q.ask,
                        ![r].ask = store[q.client].refresh]
  /\ UNCHANGED <<server, store, ghosts>>

\* The refresh call succeeds: the access token is kept, and what the call
\* was made for is sent again, the request or the refresh one level above.
Retry(r) ==
  LET q == req[r] IN
  /\ q.cl \in {"refreshing", "deeper"} /\ q.sv = "ok"
  /\ Keeps(q.client, "good")
  /\ req' = [req EXCEPT ![r] =
       IF q.cl = "refreshing"
         THEN [q EXCEPT !.cl = "waiting", !.sv = q.kind, !.auth = "good", !.ask = None]
         ELSE [q EXCEPT !.cl = "resending", !.sv = "refresh", !.ask = q.was]]
  /\ UNCHANGED <<server, ghosts>>

\* The refresh call fails for good: the interceptor signs out, and the page
\* goes to /login (Reload).
GiveUp(r) ==
  LET q == req[r] IN
  /\ \/ q.cl \in {"refreshing", "deeper", "resending"} /\ NoAnswer(r)
     \/ q.cl \in {"refreshing", "deeper"} /\ q.sv = "401" /\ store[q.client].refresh = None
     \/ q.cl = "resending" /\ q.sv = "401"
  /\ Clears(q.client, r)
  /\ raced' = IF \E x \in Request \ {r} : req[x].client = q.client
                                            /\ req[x].cl \in {"refreshing", "deeper"}
                THEN raced \cup {q.client} ELSE raced
  /\ UNCHANGED <<server, issuedUnder, outlived>>

\* The page is loaded anew: the store comes back from localStorage, and
\* nobody waits for the requests under way.
Reload(c) ==
  /\ \E r \in Request : req[r].client = c /\ req[r].cl # "idle"
  /\ req' = [r \in Request |-> IF req[r].client = c THEN Settled(req[r]) ELSE req[r]]
  /\ UNCHANGED <<server, store, ghosts>>

Serve(r) ==
  \/ CheckLogin(r) \/ SetOnline(r) \/ \E t \in RefreshToken : SaveToken(r, t)
  \/ Admit(r) \/ Revoke(r) \/ SetOffline(r)
  \/ CheckRefresh(r)

Receive(r) == Succeed(r) \/ Reject(r) \/ Refresh(r) \/ Retry(r) \/ GiveUp(r)

Next ==
  \/ \E r \in Request : Serve(r) \/ Fail(r) \/ Receive(r)
  \/ ComparePassword \/ WritePassword \/ RevokeAll \/ FailChange
  \/ Deactivate
  \/ \E t \in RefreshToken : ExpireRefresh(t)
  \/ \E c \in Client, r \in Request :
       \/ Use(c, r) \/ Logout(c, r)
       \/ \E p \in Password : Login(c, r, p)
  \/ \E c \in Client : ExpireAccess(c) \/ Reload(c)

Spec == Init /\ [][Next]_vars

\* Handlers run, and axios settles every call: by its answer or by its timer.
Fairness == \A r \in Request : WF_vars(Serve(r)) /\ WF_vars(Receive(r))

FairSpec == Spec /\ Fairness

-----------------------------------------------------------------------------
(***************************************************************************)
(* A refresh token whose login gave a password that has been changed since *)
(* is dead, unless its login was under way when the password was written,  *)
(* the change failed before it revoked, or it is about to revoke.          *)
(***************************************************************************)
OldPasswordIsOut ==
  \A t \in RefreshToken :
    stored[t] = "live" /\ issuedUnder[t] # password =>
      change = "written" \/ t \in outlived

(***************************************************************************)
(* The parts of the auth store agree: who is signed in has both tokens,    *)
(* and an access token is left without a user only where a refresh was     *)
(* under way at sign-out; the dashboard shows its spinner for ever then.   *)
(***************************************************************************)
StoreIsWhole ==
  \A c \in Client :
    /\ store[c].user <=> store[c].refresh # None
    /\ store[c].user => store[c].token # "none"
    /\ store[c].token # "none" /\ ~ store[c].user => c \in raced

(***************************************************************************)
(* Every call a page makes ends: after a refused refresh by signing out    *)
(* and going to the login page.                                            *)
(***************************************************************************)
CallsEnd == \A r \in Request : req[r].cl # "idle" ~> req[r].cl = "idle"
=============================================================================
