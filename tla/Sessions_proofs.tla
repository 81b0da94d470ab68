-------------------------- MODULE Sessions_proofs --------------------------
(***************************************************************************)
(* Proofs about Sessions for any number of browsers, requests, logins and  *)
(* changes of the password.                                                *)
(***************************************************************************)
EXTENDS Sessions, TLAPS

Slots == ReqRec \cup {NoRequest}

\* What an empty slot looks like.
LEMMA EmptySlot ==
  /\ NoRequest.client = None /\ NoRequest.kind = "none"
  /\ NoRequest.cl = "idle" /\ NoRequest.sv = "none"
BY DEF NoRequest, Call

\* A slot whose handler or promise is at work holds a request.
LEMMA BusySlot ==
  ASSUME NEW q \in Slots, q.sv # "none" \/ q.cl # "idle"
  PROVE  q \in ReqRec
BY EmptySlot DEF Slots

\* A handler that ends leaves a slot with an answer, or an empty one.
LEMMA AnswersTyped ==
  ASSUME req \in [Request -> Slots], NEW r \in Request, req[r] \in ReqRec,
         NEW code \in Ended
  PROVE  Answers(r, code) \in [Request -> Slots]
BY DEF Answers, Slots, ReqRec

\* A request that leaves is typed.
LEMMA CallTyped ==
  ASSUME NEW c \in Client, NEW kind \in Kind, NEW p \in Password,
         NEW arg \in RefreshToken \cup {None}, NEW a \in Access
  PROVE  Call(c, kind, p, arg, a) \in ReqRec
BY DEF Call, ReqRec, Kind, Handler, Waiting

\* A promise that settles leaves a request whose handler goes on, or nothing.
LEMMA SettledTyped == ASSUME NEW q \in Slots PROVE Settled(q) \in Slots
<1>1. q.sv \in Handler => q \in ReqRec
  BY BusySlot DEF Handler
<1> QED
  BY <1>1 DEF Settled, Slots, ReqRec

\* Revoking leaves the table of refresh tokens typed.
LEMMA KillTyped ==
  ASSUME stored \in [RefreshToken -> {"absent", "live", "dead"}], NEW ts
  PROVE  Kill(ts) \in [RefreshToken -> {"absent", "live", "dead"}]
BY DEF Kill

\* The handlers' steps keep the variables typed.
LEMMA ServeTyped ==
  ASSUME TypeOK, NEW r \in Request, Serve(r) \/ Fail(r) PROVE TypeOK'
<1> USE DEF TypeOK, server, ghosts
<1>0. req \in [Request -> Slots] /\ (req[r].sv # "none" => req[r] \in ReqRec)
  BY BusySlot DEF Slots
<1>a. ASSUME req[r].sv # "none", NEW point \in Handler
      PROVE  Goes(r, point) \in [Request -> Slots]
  BY <1>a, <1>0 DEF Goes, Slots, ReqRec
<1>b. ASSUME req[r].sv # "none", NEW code \in Ended
      PROVE  Answers(r, code) \in [Request -> Slots]
  BY <1>b, <1>0, AnswersTyped
<1>c. {"checked", "admitted", "revoked"} \subseteq Handler /\ {"ok", "401", "error"} \subseteq Ended
  BY DEF Handler, Ended
<1>1. CASE CheckLogin(r)
  BY <1>1, <1>a, <1>b, <1>c DEF CheckLogin, At, Slots
<1>2. ASSUME NEW t \in RefreshToken, SaveToken(r, t) PROVE TypeOK'
  <2>1. req[r] \in ReqRec
    BY <1>2, <1>0 DEF SaveToken, At
  <2>2. req' \in [Request -> Slots]
    BY <1>2, <1>0, <2>1 DEF SaveToken, Slots, ReqRec, Handler
  <2> QED
    BY <1>2, <2>1, <2>2 DEF SaveToken, ReqRec, Slots
<1>3. CASE SetOnline(r)
  BY <1>3, <1>b, <1>c DEF SetOnline, At, Slots
<1>4. CASE Admit(r)
  BY <1>4, <1>a, <1>b, <1>c DEF Admit, At, Slots
<1>5. CASE Revoke(r)
  BY <1>5, <1>a, <1>c, KillTyped DEF Revoke, At, Slots
<1>6. CASE SetOffline(r)
  BY <1>6, <1>b, <1>c DEF SetOffline, At, Slots
<1>7. CASE CheckRefresh(r)
  BY <1>7, <1>b, <1>c DEF CheckRefresh, At, Slots
<1>8. CASE Fail(r)
  BY <1>8, <1>b, <1>c DEF Fail, Handler, Slots
<1> QED
  BY <1>1, <1>2, <1>3, <1>4, <1>5, <1>6, <1>7, <1>8 DEF Serve

\* Signing out keeps the store and the slots typed.
LEMMA ClearsTyped ==
  ASSUME TypeOK, NEW c \in Client, NEW r \in Request, Clears(c, r)
  PROVE  store' \in [Client -> StoreRec] /\ req' \in [Request -> Slots]
<1> USE SessionsAssumption DEF TypeOK
<1>1. SignedOut \in StoreRec
  BY DEF SignedOut, StoreRec, Access
<1>2. /\ store[c].token \in Access /\ store[c].refresh \in RefreshToken \cup {None}
      /\ "logout" \in Kind /\ 1 \in Password
  BY DEF StoreRec, Kind, Password
<1>3. Call(c, "logout", 1, store[c].refresh, store[c].token) \in ReqRec
  BY <1>2, CallTyped
<1> QED
  BY <1>1, <1>3 DEF Clears, Sends, Slots

\* The browsers' reactions keep the variables typed.
LEMMA ReceiveTyped ==
  ASSUME TypeOK, NEW r \in Request, Receive(r) PROVE TypeOK'
<1> USE DEF TypeOK, server, ghosts
<1>0. req \in [Request -> Slots] /\ (req[r].cl # "idle" => req[r] \in ReqRec)
  BY BusySlot DEF Slots
<1>1. CASE Succeed(r)
  <2>1. req[r] \in ReqRec /\ req' \in [Request -> Slots]
    BY <1>1, <1>0, SettledTyped DEF Succeed, Settles
  <2>2. [user |-> TRUE, token |-> "good", refresh |-> req[r].ask] \in StoreRec
    BY <2>1 DEF StoreRec, Access, ReqRec
  <2>3. store' \in [Client -> StoreRec]
    BY <1>1, <2>1, <2>2 DEF Succeed, ReqRec
  <2> QED
    BY <1>1, <2>1, <2>3 DEF Succeed, Slots
<1>2. CASE Reject(r)
  BY <1>2, <1>0, SettledTyped DEF Reject, Settles, Slots
<1>3. CASE Refresh(r)
  <2>1. req[r] \in ReqRec
    BY <1>3, <1>0 DEF Refresh
  <2>2. store[req[r].client].refresh \in RefreshToken \cup {None}
    BY <2>1 DEF ReqRec, StoreRec
  <2>3. req' \in [Request -> Slots]
    BY <1>3, <1>0, <2>1, <2>2 DEF Refresh, Slots, ReqRec, Waiting, Handler
  <2> QED
    BY <1>3, <2>3 DEF Refresh, Slots
<1>4. CASE Retry(r)
  <2>1. req[r] \in ReqRec
    BY <1>4, <1>0 DEF Retry
  <2>2. req' \in [Request -> Slots]
    BY <1>4, <1>0, <2>1 DEF Retry, Slots, ReqRec, Waiting, Handler, Kind, Access
  <2>3. store' \in [Client -> StoreRec]
    BY <1>4, <2>1 DEF Retry, Keeps, ReqRec, StoreRec, Access
  <2> QED
    BY <1>4, <2>2, <2>3 DEF Retry, Slots
<1>5. CASE GiveUp(r)
  <2>1. req[r] \in ReqRec
    BY <1>5, <1>0 DEF GiveUp
  <2>2. req[r].client \in Client
    BY <2>1 DEF ReqRec
  <2> QED
    BY <1>5, <2>2, ClearsTyped DEF GiveUp, Slots
<1> QED
  BY <1>1, <1>2, <1>3, <1>4, <1>5 DEF Receive

\* Every step of servers and browsers keeps the variables typed.
LEMMA TypeStep == TypeOK /\ [Next]_vars => TypeOK'
<1> USE SessionsAssumption DEF server, ghosts
<1> SUFFICES ASSUME TypeOK, [Next]_vars PROVE TypeOK'
  OBVIOUS
<1>0. /\ req \in [Request -> Slots]
      /\ stored \in [RefreshToken -> {"absent", "live", "dead"}]
      /\ \A c \in Client : store[c].token \in Access
      /\ 1 \in Password
  BY DEF TypeOK, Slots, StoreRec, Password
<1>1. ASSUME NEW r \in Request, Serve(r) \/ Fail(r) \/ Receive(r) PROVE TypeOK'
  BY <1>1, ServeTyped, ReceiveTyped
<1>2. CASE ComparePassword
  BY <1>2 DEF ComparePassword, TypeOK
<1>3. CASE WritePassword
  BY <1>3 DEF WritePassword, TypeOK, Password
<1>4. CASE RevokeAll
  BY <1>4, <1>0, KillTyped DEF RevokeAll, TypeOK
<1>5. CASE FailChange
  BY <1>5 DEF FailChange, TypeOK
<1>6. ASSUME Deactivate PROVE TypeOK'
  BY <1>6 DEF Deactivate, TypeOK
<1>7. ASSUME NEW t \in RefreshToken, ExpireRefresh(t) PROVE TypeOK'
  BY <1>7, <1>0, KillTyped DEF ExpireRefresh, TypeOK
<1>8. ASSUME NEW c \in Client, NEW r \in Request, Use(c, r) PROVE TypeOK'
  <2>1. Call(c, "call", 1, None, store[c].token) \in ReqRec
    BY <1>0, CallTyped DEF Kind
  <2> QED
    BY <1>8, <2>1 DEF Use, Sends, TypeOK
<1>9. ASSUME NEW c \in Client, NEW r \in Request, Logout(c, r) PROVE TypeOK'
  BY <1>9, ClearsTyped DEF Logout, TypeOK, Slots
<1>10. ASSUME NEW c \in Client, NEW r \in Request, NEW p \in Password, Login(c, r, p)
       PROVE  TypeOK'
  <2>1. Call(c, "login", p, None, store[c].token) \in ReqRec
    BY <1>0, CallTyped DEF Kind
  <2> QED
    BY <1>10, <2>1 DEF Login, Sends, TypeOK
<1>11. ASSUME NEW c \in Client, ExpireAccess(c) PROVE TypeOK'
  <2>1. store' \in [Client -> StoreRec]
    BY <1>11 DEF ExpireAccess, TypeOK, StoreRec, Access
  <2>2. ASSUME NEW r \in Request PROVE req'[r] \in Slots
    <3>1. req[r].client = c => req[r] \in ReqRec
      BY <1>0, EmptySlot DEF Slots
    <3> QED
      BY <1>11, <1>0, <3>1 DEF ExpireAccess, Slots, ReqRec, Access
  <2> QED
    BY <1>11, <2>1, <2>2 DEF ExpireAccess, TypeOK, Slots
<1>12. ASSUME NEW c \in Client, Reload(c) PROVE TypeOK'
  BY <1>12, <1>0, SettledTyped DEF Reload, TypeOK, Slots
<1>13. CASE UNCHANGED vars
  BY <1>13 DEF vars, TypeOK
<1> QED
  BY <1>1, <1>2, <1>3, <1>4, <1>5, <1>6, <1>7, <1>8, <1>9, <1>10, <1>11, <1>12, <1>13
     DEF Next

\* The account, its tokens, the stores and the requests are typed in every
\* reachable state.
THEOREM TypeCorrect == Spec => []TypeOK
<1>1. Init => TypeOK
  BY SessionsAssumption DEF Init, TypeOK, Password, SignedOut, StoreRec, Access
<1> QED
  BY <1>1, TypeStep, PTL DEF Spec

-----------------------------------------------------------------------------
(***************************************************************************)
(* Only saving a token, writing the password and revoking touch what a     *)
(* token's password is compared with.                                      *)
(***************************************************************************)
THEOREM OldPasswordsAreOut == Spec => []OldPasswordIsOut
<1> USE DEF OldPasswordIsOut
<1>1. Init => OldPasswordIsOut
  BY DEF Init
<1>2. TypeOK /\ OldPasswordIsOut /\ [Next]_vars => OldPasswordIsOut'
  <2> SUFFICES ASSUME TypeOK, OldPasswordIsOut, [Next]_vars PROVE OldPasswordIsOut'
    OBVIOUS
  <2> USE DEF server, ghosts
  <2>0. /\ stored \in [RefreshToken -> {"absent", "live", "dead"}]
        /\ issuedUnder \in [RefreshToken -> Password]
    BY DEF TypeOK
  <2>a. ASSUME NEW ts, stored' = Kill(ts),
               UNCHANGED <<password, issuedUnder, outlived, change>>
        PROVE  OldPasswordIsOut'
    BY <2>a, <2>0 DEF Kill
  <2>1. ASSUME NEW r \in Request, NEW t \in RefreshToken, SaveToken(r, t)
        PROVE  OldPasswordIsOut'
    BY <2>1, <2>0 DEF SaveToken
  <2>2. ASSUME NEW r \in Request, Revoke(r) PROVE OldPasswordIsOut'
    BY <2>2, <2>a DEF Revoke
  <2>3. ASSUME NEW r \in Request, Serve(r) \/ Fail(r) PROVE OldPasswordIsOut'
    BY <2>1, <2>2, <2>3 DEF Serve, Fail, CheckLogin, SetOnline, SetOffline, Admit, CheckRefresh
  <2>4. ASSUME NEW r \in Request, Receive(r) PROVE OldPasswordIsOut'
    BY <2>4 DEF Receive, Succeed, Reject, Refresh, Retry, GiveUp
  <2>5. CASE ComparePassword
    BY <2>5 DEF ComparePassword
  <2>6. CASE WritePassword
    BY <2>6 DEF WritePassword
  <2>7. CASE RevokeAll
    BY <2>7, <2>0 DEF RevokeAll, Kill
  <2>8. CASE FailChange
    BY <2>8 DEF FailChange
  <2>9. ASSUME Deactivate PROVE OldPasswordIsOut'
    BY <2>9 DEF Deactivate
  <2>10. ASSUME NEW t \in RefreshToken, ExpireRefresh(t) PROVE OldPasswordIsOut'
    BY <2>10, <2>a DEF ExpireRefresh
  <2>11. ASSUME NEW c \in Client, NEW r \in Request,
                Use(c, r) \/ Logout(c, r) \/ \E p \in Password : Login(c, r, p)
         PROVE  OldPasswordIsOut'
    BY <2>11 DEF Use, Logout, Login
  <2>12. ASSUME NEW c \in Client, ExpireAccess(c) \/ Reload(c) PROVE OldPasswordIsOut'
    BY <2>12 DEF ExpireAccess, Reload
  <2>13. CASE UNCHANGED vars
    BY <2>13 DEF vars
  <2> QED
    BY <2>3, <2>4, <2>5, <2>6, <2>7, <2>8, <2>9, <2>10, <2>11, <2>12, <2>13 DEF Next
<1> QED
  BY <1>1, <1>2, TypeCorrect, PTL DEF Spec

-----------------------------------------------------------------------------
(***************************************************************************)
(* Where the refresh token of a login that succeeds comes from: a handler  *)
(* serves the kind of call it was started for, and one that has saved a    *)
(* token, or answered a login with ok, has the token at hand.              *)
(***************************************************************************)
FitsKind(q) ==
  /\ q.sv \in {"login", "checked", "saved"} => q.kind = "login"
  /\ q.sv \in {"logout", "admitted", "revoked"} => q.kind = "logout"
  /\ q.sv = "call" => q.kind = "call"
  /\ q.sv = "refresh" => q.cl # "waiting"
  /\ q.sv = "saved" => q.ask \in RefreshToken
  /\ q.kind = "login" /\ q.cl = "waiting" /\ q.sv = "ok" => q.ask \in RefreshToken

HandlersFit == \A r \in Request : FitsKind(req[r])

\* A slot that is left with an error, an answer or nothing fits.
LEMMA FitsTrivially ==
  /\ FitsKind(NoRequest)
  /\ \A q \in Slots : FitsKind(q) => FitsKind(Settled(q))
  /\ \A c, p, arg, a : \A kind \in Kind : FitsKind(Call(c, kind, p, arg, a))
<1>1. FitsKind(NoRequest)
  BY EmptySlot DEF FitsKind
<1>2. ASSUME NEW q \in Slots, FitsKind(q) PROVE FitsKind(Settled(q))
  <2>1. q.sv \in Handler => q \in ReqRec
    BY BusySlot DEF Handler
  <2> QED
    BY <1>1, <1>2, <2>1 DEF Settled, FitsKind, ReqRec, Handler
<1>3. ASSUME NEW c, NEW kind \in Kind, NEW p, NEW arg, NEW a
      PROVE  FitsKind(Call(c, kind, p, arg, a))
  BY <1>3 DEF FitsKind, Call, Kind
<1> QED
  BY <1>1, <1>2, <1>3

\* Handlers and browsers keep every slot fitting.
LEMMA FitStep == TypeOK /\ HandlersFit /\ [Next]_vars => HandlersFit'
<1> SUFFICES ASSUME TypeOK, HandlersFit, [Next]_vars, NEW x \in Request
             PROVE  FitsKind(req'[x])
  BY DEF HandlersFit
<1> USE DEF server, ghosts
<1>0. /\ req \in [Request -> Slots]
      /\ FitsKind(req[x])
      /\ \A r \in Request : req[r].sv # "none" \/ req[r].cl # "idle" => req[r] \in ReqRec
  BY BusySlot DEF TypeOK, Slots, HandlersFit
<1>a. ASSUME NEW r \in Request, NEW code \in {"401", "error"}, req[r].sv # "none",
             req' = Answers(r, code)
      PROVE  FitsKind(req'[x])
  BY <1>a, <1>0, FitsTrivially DEF Answers, FitsKind, ReqRec
<1>b. ASSUME NEW r \in Request, req' = Answers(r, "ok"), req[r].sv # "none",
             req[r].kind = "login" /\ req[r].cl = "waiting" => req[r].ask \in RefreshToken
      PROVE  FitsKind(req'[x])
  BY <1>b, <1>0, FitsTrivially DEF Answers, FitsKind, ReqRec
<1>c. ASSUME NEW r \in Request, NEW kind \in Kind, NEW p, NEW arg, NEW a, NEW c,
             req' = [req EXCEPT ![r] = Call(c, kind, p, arg, a)]
      PROVE  FitsKind(req'[x])
  BY <1>c, <1>0, FitsTrivially
<1>d. ASSUME NEW r \in Request, Settles(r) PROVE FitsKind(req'[x])
  BY <1>d, <1>0, FitsTrivially DEF Settles
<1>e. ASSUME NEW c \in Client, NEW r \in Request, Clears(c, r) PROVE FitsKind(req'[x])
  <2>1. CASE store[c].refresh = None
    BY <1>e, <2>1, <1>0, FitsTrivially DEF Clears
  <2>2. CASE store[c].refresh # None
    BY <1>e, <2>2, <1>c DEF Clears, Sends, Kind
  <2> QED
    BY <2>1, <2>2
<1>1. ASSUME NEW r \in Request, CheckLogin(r) PROVE FitsKind(req'[x])
  <2>1. CASE req' = Goes(r, "checked") /\ req[r].sv = "login"
    BY <2>1, <1>0 DEF Goes, FitsKind, HandlersFit, ReqRec
  <2> QED
    BY <1>1, <2>1, <1>a DEF CheckLogin, At
<1>2. ASSUME NEW r \in Request, NEW t \in RefreshToken, SaveToken(r, t)
      PROVE  FitsKind(req'[x])
  BY <1>2, <1>0 DEF SaveToken, At, FitsKind, HandlersFit, ReqRec
<1>3. ASSUME NEW r \in Request, SetOnline(r) PROVE FitsKind(req'[x])
  BY <1>3, <1>b DEF SetOnline, At, FitsKind, HandlersFit
<1>4. ASSUME NEW r \in Request, SetOffline(r) PROVE FitsKind(req'[x])
  BY <1>4, <1>b DEF SetOffline, At, FitsKind, HandlersFit
<1>5. ASSUME NEW r \in Request, Admit(r) PROVE FitsKind(req'[x])
  <2>1. CASE req' = Goes(r, "admitted") /\ req[r].sv = "logout"
    BY <2>1, <1>0 DEF Goes, FitsKind, HandlersFit, ReqRec
  <2>2. CASE req' = Answers(r, "ok") /\ req[r].sv = "call"
    BY <2>2, <1>b DEF FitsKind, HandlersFit
  <2> QED
    BY <1>5, <2>1, <2>2, <1>a DEF Admit, At
<1>6. ASSUME NEW r \in Request, Revoke(r) PROVE FitsKind(req'[x])
  BY <1>6, <1>0 DEF Revoke, At, Goes, FitsKind, HandlersFit, ReqRec
<1>7. ASSUME NEW r \in Request, CheckRefresh(r) PROVE FitsKind(req'[x])
  <2>1. req[r].cl # "waiting"
    BY <1>7 DEF CheckRefresh, At, FitsKind, HandlersFit
  <2> QED
    BY <1>7, <2>1, <1>a, <1>b DEF CheckRefresh, At
<1>8. ASSUME NEW r \in Request, Fail(r) PROVE FitsKind(req'[x])
  BY <1>8, <1>a DEF Fail, Handler
<1>9. ASSUME NEW r \in Request, Receive(r) PROVE FitsKind(req'[x])
  <2>1. CASE Succeed(r) \/ Reject(r)
    BY <2>1, <1>d DEF Succeed, Reject
  <2>2. CASE Refresh(r)
    BY <2>2, <1>0 DEF Refresh, FitsKind, HandlersFit, ReqRec
  <2>3. CASE Retry(r)
    BY <2>3, <1>0 DEF Retry, FitsKind, HandlersFit, ReqRec, Kind
  <2>4. CASE GiveUp(r)
    <3>1. req[r].client \in Client
      BY <2>4, <1>0 DEF GiveUp, ReqRec
    <3> QED
      BY <2>4, <3>1, <1>e DEF GiveUp
  <2> QED
    BY <1>9, <2>1, <2>2, <2>3, <2>4 DEF Receive
<1>10. ASSUME NEW c \in Client, NEW r \in Request, Use(c, r) \/ Logout(c, r)
       PROVE  FitsKind(req'[x])
  BY <1>10, <1>c, <1>e DEF Use, Logout, Sends, Kind
<1>11. ASSUME NEW c \in Client, NEW r \in Request, NEW p \in Password, Login(c, r, p)
       PROVE  FitsKind(req'[x])
  BY <1>11, <1>c DEF Login, Sends, Kind
<1>12. ASSUME NEW c \in Client, ExpireAccess(c) PROVE FitsKind(req'[x])
  <2>1. req[x].client = c => req[x] \in ReqRec
    BY <1>0, EmptySlot, SessionsAssumption DEF Slots
  <2> QED
    BY <1>12, <1>0, <2>1 DEF ExpireAccess, FitsKind, ReqRec
<1>13. ASSUME NEW c \in Client, Reload(c) PROVE FitsKind(req'[x])
  BY <1>13, <1>0, FitsTrivially DEF Reload
<1>14. ASSUME UNCHANGED req PROVE FitsKind(req'[x])
  BY <1>14, <1>0
<1> QED
  BY <1>1, <1>2, <1>3, <1>4, <1>5, <1>6, <1>7, <1>8, <1>9, <1>10, <1>11, <1>12, <1>13, <1>14
     DEF Next, Serve, ComparePassword, WritePassword, RevokeAll, FailChange, Deactivate,
         ExpireRefresh, vars

(***************************************************************************)
(* Where an access token without a user comes from: who refreshes without  *)
(* a user signed out meanwhile.                                            *)
(***************************************************************************)
RefreshersAreIn ==
  \A r \in Request :
    req[r].cl \in {"refreshing", "deeper"} /\ ~ store[req[r].client].user =>
      req[r].client \in raced

Whole == HandlersFit /\ RefreshersAreIn /\ StoreIsWhole

\* Signing out leaves nobody refreshing who is not in raced.
LEMMA WholeStep == TypeOK /\ Whole /\ [Next]_vars => (RefreshersAreIn /\ StoreIsWhole)'
<1> SUFFICES ASSUME TypeOK, Whole, [Next]_vars
             PROVE  (RefreshersAreIn /\ StoreIsWhole)'
  OBVIOUS
<1> USE DEF server, ghosts, RefreshersAreIn, StoreIsWhole
<1>0. /\ req \in [Request -> Slots]
      /\ \A r \in Request : req[r].sv # "none" \/ req[r].cl # "idle" => req[r] \in ReqRec
      /\ \A r \in Request : req[r] \in ReqRec => req[r].client \in Client
      /\ store \in [Client -> StoreRec]
  BY BusySlot DEF TypeOK, Slots, ReqRec
<1>w. RefreshersAreIn /\ StoreIsWhole /\ HandlersFit
  BY DEF Whole
<1>a. ASSUME UNCHANGED <<store, raced>>,
             \A x \in Request :
               req'[x].cl \in {"refreshing", "deeper"} =>
                 /\ req'[x].client = req[x].client
                 /\ \/ req[x].cl \in {"refreshing", "deeper"}
                    \/ store[req[x].client].user
      PROVE  (RefreshersAreIn /\ StoreIsWhole)'
  BY <1>a, <1>w
<1>b. ASSUME NEW r \in Request, NEW code, req' = Answers(r, code), req[r].sv # "none",
             UNCHANGED <<store, raced>>
      PROVE  (RefreshersAreIn /\ StoreIsWhole)'
  BY <1>b, <1>a, <1>0, EmptySlot DEF Answers, ReqRec
<1>c. ASSUME NEW r \in Request, NEW point, req' = Goes(r, point), req[r].sv # "none",
             UNCHANGED <<store, raced>>
      PROVE  (RefreshersAreIn /\ StoreIsWhole)'
  BY <1>c, <1>a, <1>0 DEF Goes, ReqRec
<1>1. ASSUME NEW r \in Request, Serve(r) \/ Fail(r)
      PROVE  (RefreshersAreIn /\ StoreIsWhole)'
  <2>1. ASSUME NEW t \in RefreshToken, SaveToken(r, t)
        PROVE  (RefreshersAreIn /\ StoreIsWhole)'
    BY <2>1, <1>a, <1>0 DEF SaveToken, At, ReqRec
  <2> QED
    BY <1>1, <2>1, <1>b, <1>c
       DEF Serve, Fail, CheckLogin, SetOnline, SetOffline, Admit, Revoke, CheckRefresh,
           At, Handler
<1>2. ASSUME NEW r \in Request, Succeed(r) PROVE (RefreshersAreIn /\ StoreIsWhole)'
  <2>1. req[r] \in ReqRec /\ req[r].client \in Client
    BY <1>2, <1>0 DEF Succeed
  <2>2. \A x \in Request : req'[x].cl \in {"refreshing", "deeper"} => req'[x] = req[x]
    BY <1>2, <1>0, <2>1, EmptySlot DEF Succeed, Settles, Settled, ReqRec
  <2>3. CASE req[r].kind = "login"
    <3>1. req[r].ask \in RefreshToken
      BY <1>2, <2>3, <1>w DEF Succeed, HandlersFit, FitsKind
    <3>2. /\ store' = [store EXCEPT ![req[r].client] =
                         [user |-> TRUE, token |-> "good", refresh |-> req[r].ask]]
          /\ raced' = raced \ {req[r].client}
      BY <1>2, <2>3 DEF Succeed
    <3> QED
      BY <3>1, <3>2, <2>1, <2>2, <1>0, <1>w, SessionsAssumption
  <2>4. CASE req[r].kind # "login"
    BY <1>2, <2>4, <2>2, <1>a DEF Succeed
  <2> QED
    BY <2>3, <2>4
<1>3. ASSUME NEW r \in Request, Reject(r) PROVE (RefreshersAreIn /\ StoreIsWhole)'
  BY <1>3, <1>0, <1>a, EmptySlot DEF Reject, Settles, Settled, ReqRec
<1>4. ASSUME NEW r \in Request, Refresh(r) PROVE (RefreshersAreIn /\ StoreIsWhole)'
  <2>1. req[r] \in ReqRec /\ req[r].client \in Client
    BY <1>4, <1>0 DEF Refresh
  <2>2. store[req[r].client].user
    BY <1>4, <2>1, <1>w DEF Refresh
  <2> QED
    BY <1>4, <2>1, <2>2, <1>0, <1>a DEF Refresh, ReqRec
<1>5. ASSUME NEW r \in Request, Retry(r) PROVE (RefreshersAreIn /\ StoreIsWhole)'
  <2>1. req[r] \in ReqRec /\ req[r].client \in Client
    BY <1>5, <1>0 DEF Retry
  <2>2. /\ store' = [store EXCEPT ![req[r].client].token = "good"]
        /\ raced' = raced
        /\ req[r].cl \in {"refreshing", "deeper"}
    BY <1>5 DEF Retry, Keeps
  <2>3. \A x \in Request : req'[x].cl \in {"refreshing", "deeper"} => req'[x] = req[x]
    BY <1>5, <1>0, <2>1 DEF Retry, ReqRec
  <2>4. \A c \in Client : store'[c].user = store[c].user /\ store'[c].refresh = store[c].refresh
    BY <2>2, <1>0, <2>1 DEF StoreRec
  <2>5. \A c \in Client \ {req[r].client} : store'[c] = store[c]
    BY <2>2, <1>0, <2>1
  <2>6. store'[req[r].client].token = "good"
    BY <2>2, <1>0, <2>1 DEF StoreRec
  <2>7. RefreshersAreIn'
    BY <2>2, <2>3, <2>4, <1>0, <1>w
  <2> QED
    BY <2>1, <2>2, <2>4, <2>5, <2>6, <2>7, <1>w
<1>6. ASSUME NEW c \in Client, NEW r \in Request, Clears(c, r),
             raced \subseteq raced', raced' \subseteq raced \cup {c},
             \A x \in Request \ {r} : req[x].client = c /\ req[x].cl \in {"refreshing", "deeper"}
                                      => c \in raced'
      PROVE  (RefreshersAreIn /\ StoreIsWhole)'
  <2>1. store' = [store EXCEPT ![c] = SignedOut]
    BY <1>6 DEF Clears
  <2>2. \A x \in Request : req'[x].cl \in {"refreshing", "deeper"} => x # r /\ req'[x] = req[x]
    BY <1>6, <1>0, EmptySlot DEF Clears, Sends, Call
  <2> QED
    BY <1>6, <2>1, <2>2, <1>0, <1>w DEF SignedOut
<1>7. ASSUME NEW r \in Request, GiveUp(r) PROVE (RefreshersAreIn /\ StoreIsWhole)'
  <2>1. req[r].client \in Client
    BY <1>7, <1>0 DEF GiveUp
  <2> QED
    BY <1>7, <2>1, <1>6 DEF GiveUp
<1>8. ASSUME NEW c \in Client, NEW r \in Request, Logout(c, r)
      PROVE  (RefreshersAreIn /\ StoreIsWhole)'
  BY <1>8, <1>6 DEF Logout, Refreshing
<1>9. ASSUME NEW c \in Client, NEW r \in Request, NEW kind, NEW p, NEW arg,
             Sends(r, c, kind, p, arg), UNCHANGED <<store, raced>>
      PROVE  (RefreshersAreIn /\ StoreIsWhole)'
  BY <1>9, <1>a, <1>0 DEF Sends, Call
<1>10. ASSUME NEW c \in Client, NEW r \in Request,
              Use(c, r) \/ \E p \in Password : Login(c, r, p)
       PROVE  (RefreshersAreIn /\ StoreIsWhole)'
  BY <1>10, <1>9 DEF Use, Login
<1>11. ASSUME NEW c \in Client, ExpireAccess(c) PROVE (RefreshersAreIn /\ StoreIsWhole)'
  <2>1. \A x \in Request : req'[x].cl = req[x].cl /\ req'[x].client = req[x].client
    <3>1. ASSUME NEW x \in Request, req[x].client = c PROVE req[x] \in ReqRec
      BY <3>1, <1>0, EmptySlot, SessionsAssumption DEF Slots
    <3> QED
      BY <1>11, <3>1 DEF ExpireAccess, ReqRec
  <2>2. /\ \A d \in Client : store'[d].user = store[d].user /\ store'[d].refresh = store[d].refresh
        /\ \A d \in Client : store'[d].token # "none" <=> store[d].token # "none"
    BY <1>11, <1>0 DEF ExpireAccess, StoreRec
  <2>3. raced' = raced
    BY <1>11 DEF ExpireAccess
  <2> QED
    BY <2>1, <2>2, <2>3, <1>0, <1>w
<1>12. ASSUME NEW c \in Client, Reload(c) PROVE (RefreshersAreIn /\ StoreIsWhole)'
  <2>1. \A x \in Request : req[x].sv \in Handler => req[x] \in ReqRec
    BY <1>0 DEF Handler
  <2> QED
    BY <1>12, <2>1, <1>0, <1>a, EmptySlot DEF Reload, Settled, ReqRec
<1>13. ASSUME UNCHANGED <<store, req, raced>> PROVE (RefreshersAreIn /\ StoreIsWhole)'
  BY <1>13, <1>w
<1> QED
  BY <1>1, <1>2, <1>3, <1>4, <1>5, <1>7, <1>8, <1>10, <1>11, <1>12, <1>13
     DEF Next, Receive, ComparePassword, WritePassword, RevokeAll, FailChange, Deactivate,
         ExpireRefresh, vars

\* The auth store of a browser is whole in every reachable state, and an
\* access token without a user is left by a sign-out during a refresh only.
THEOREM StoresAreWhole == Spec => []StoreIsWhole
<1>1. Init => Whole
  BY FitsTrivially, EmptySlot
     DEF Init, Whole, HandlersFit, RefreshersAreIn, StoreIsWhole, SignedOut
<1>2. TypeOK /\ Whole /\ [Next]_vars => Whole'
  BY FitStep, WholeStep DEF Whole
<1>3. Whole => StoreIsWhole
  BY DEF Whole
<1> QED
  BY <1>1, <1>2, <1>3, TypeCorrect, PTL DEF Spec
=============================================================================
