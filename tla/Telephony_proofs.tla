-------------------------- MODULE Telephony_proofs --------------------------
(***************************************************************************)
(* Proofs about TelephonyService, for any number of requests, logins,      *)
(* calls and handlers, with a good or a bad secret: first the connection   *)
(* to Asterisk (AmiConnection), then the calls table (CallTracking), then  *)
(* the two of them side by side.                                           *)
(***************************************************************************)
EXTENDS Telephony, TLAPS

-----------------------------------------------------------------------------
(* The connection to Asterisk                                              *)

\* A process that is down holds nothing.
DownIsBlank == proc = "down" => Down

\* Only a standing connection is owed answers, and at most one of a login.
Owed ==
  /\ asked # {} => socket = "open"
  /\ \A l, m \in asked \cap Login : l = m

\* A frame that has begun on this connection ends on it; if it is the reply to
\* a login, no other login waits for one.
Fresh ==
  messageBuffer # None /\ ~ Stale =>
    /\ socket = "open"
    /\ messageBuffer.frame \in Login => asked \cap Login \subseteq {messageBuffer.frame}

\* What a lost connection left in the buffer meets the reply to a login first.
StaleBeforeLogin ==
  Stale /\ socket = "open" => ~ amiConnected /\ asked \subseteq Login

ConnInv ==
  /\ TypeOK /\ DownIsBlank /\ Owed /\ Fresh /\ StaleBeforeLogin
  /\ ReconnectIffDead /\ FlagsFollowSocket
  /\ WaitingIsTimed /\ UnauthenticatedIsTimed

-----------------------------------------------------------------------------
\* Handlers, timers and the environment keep the variables typed.
LEMMA ConnectionTypeStep == TypeOK /\ [Next]_vars => TypeOK'
<1> USE AmiAssumption DEF TypeOK, netVars, envVars
<1> SUFFICES ASSUME TypeOK, [Next]_vars PROVE TypeOK'
  OBVIOUS
<1>1. CASE Boot
  BY <1>1 DEF Boot, Dial
<1>2. CASE ReconnectTimerFires
  BY <1>2 DEF ReconnectTimerFires, Dial
<1>3. ASSUME NEW l \in Login, SocketConnects(l) PROVE TypeOK'
  BY <1>3 DEF SocketConnects, Send, Id
<1>4. ASSUME NEW s \in {"failed", "closed"}, Disconnected(s) PROVE TypeOK'
  BY <1>4 DEF Disconnected, ResetFlags, ScheduleReconnect, Unfinished
<1>5. ASSUME NEW f \in Id \cup {Event}, HandleFrame(f) PROVE TypeOK'
  BY <1>5 DEF HandleFrame, TakeFrame
<1>6. ASSUME NEW f \in Id \cup {Event}, FrameBegins(f) PROVE TypeOK'
  BY <1>6 DEF FrameBegins, Unfinished
<1>7. CASE FrameEnds
  BY <1>5, <1>7 DEF FrameEnds, Unfinished
<1>8. ASSUME NEW a \in Action, Request(a) PROVE TypeOK'
  BY <1>8 DEF Request, Send, Id
<1>9. CASE Crash
  BY <1>9 DEF Crash
<1>10. ASSUME NEW a \in Action, ActionTimerFires(a) PROVE TypeOK'
  BY <1>10 DEF ActionTimerFires, RejectWaiting
<1>11. ASSUME NEW l \in Login, LoginTimerFires(l) PROVE TypeOK'
  BY <1>9, <1>11 DEF LoginTimerFires
<1>12. CASE Forget \/ Weather
  BY <1>12 DEF Forget, Weather
<1>13. CASE UNCHANGED vars
  BY <1>13 DEF vars
<1> QED
  BY <1>1, <1>2, <1>3, <1>4, <1>5, <1>6, <1>7, <1>8, <1>9, <1>10, <1>11, <1>12, <1>13
     DEF Next, SocketError, SocketClose, WholeFrame, Kill

\* The state of the connection and of the requests keeps its types.
THEOREM ConnectionTypeCorrect == Spec => []TypeOK
<1>1. Init => TypeOK
  BY AmiAssumption DEF Init, Down, TypeOK
<1> QED
  BY <1>1, ConnectionTypeStep, PTL DEF Spec

-----------------------------------------------------------------------------
(* The inductive invariant, action by action                               *)

LEMMA FrameKeeps ==
  ASSUME ConnInv, TypeOK', NEW f \in Id \cup {Event}, socket = "open",
         f \in Login => asked \cap Login \subseteq {f}, HandleFrame(f)
  PROVE  ConnInv'
<1> USE AmiAssumption DEF ConnInv, HandleFrame, TakeFrame, envVars
<1>1. DownIsBlank' /\ Owed' /\ Fresh' /\ StaleBeforeLogin' /\ ReconnectIffDead'
  BY DEF DownIsBlank, Down, Owed, Fresh, StaleBeforeLogin, Stale, ReconnectIffDead
<1>2. FlagsFollowSocket'
  BY DEF FlagsFollowSocket
<1>3. WaitingIsTimed'
  BY DEF WaitingIsTimed, TypeOK
<1>4. UnauthenticatedIsTimed'
  BY DEF UnauthenticatedIsTimed, Id
<1> QED
  BY <1>1, <1>2, <1>3, <1>4

LEMMA CrashKeeps == ASSUME ConnInv, TypeOK', Crash PROVE ConnInv'
BY AmiAssumption
   DEF Crash, ConnInv, TypeOK, DownIsBlank, Down, Owed, Fresh, StaleBeforeLogin, Stale,
       ReconnectIffDead, FlagsFollowSocket, WaitingIsTimed, UnauthenticatedIsTimed

LEMMA DialKeeps ==
  ASSUME ConnInv, TypeOK', socket \in {"none", "closed"}, Dial, proc' = "up",
         UNCHANGED <<amiConnected, messageBuffer, callbacks, timers, outcome>>,
         reconnectTimer' = FALSE
  PROVE  ConnInv'
<1> USE DEF ConnInv, Dial
<1>1. DownIsBlank' /\ Owed' /\ Fresh' /\ StaleBeforeLogin' /\ ReconnectIffDead'
  BY DEF DownIsBlank, Owed, Fresh, StaleBeforeLogin, Stale, ReconnectIffDead
<1>2. FlagsFollowSocket' /\ WaitingIsTimed' /\ UnauthenticatedIsTimed'
  BY DEF FlagsFollowSocket, WaitingIsTimed, UnauthenticatedIsTimed
<1> QED
  BY <1>1, <1>2

LEMMA DisconnectedKeeps ==
  ASSUME ConnInv, TypeOK', NEW s \in {"failed", "closed"}, Disconnected(s),
         socket \in {"opening", "open", "failed"}
  PROVE  ConnInv'
<1> USE AmiAssumption DEF ConnInv, Disconnected, ResetFlags, ScheduleReconnect
<1>1. proc = "up"
  BY DEF DownIsBlank, Down, TypeOK
<1>2. messageBuffer' # None => Stale'
  BY DEF Stale, TypeOK, Unfinished
<1>3. DownIsBlank' /\ Owed' /\ Fresh' /\ StaleBeforeLogin' /\ ReconnectIffDead'
  BY <1>1, <1>2 DEF DownIsBlank, Owed, Fresh, StaleBeforeLogin, ReconnectIffDead
<1>4. FlagsFollowSocket' /\ WaitingIsTimed' /\ UnauthenticatedIsTimed'
  BY DEF FlagsFollowSocket, WaitingIsTimed, UnauthenticatedIsTimed
<1> QED
  BY <1>3, <1>4

LEMMA ConnInvStep == ConnInv /\ [Next]_vars => ConnInv'
<1> USE AmiAssumption
<1> SUFFICES ASSUME ConnInv, [Next]_vars, TypeOK' PROVE ConnInv'
  BY ConnectionTypeStep DEF ConnInv
<1>1. CASE Boot
  BY <1>1, DialKeeps DEF Boot, ConnInv, DownIsBlank, Down
<1>2. CASE ReconnectTimerFires
  <2>1. proc = "up" /\ socket = "closed" /\ ~ amiConnected /\ ~ amiConnecting
    BY <1>2 DEF ReconnectTimerFires, ConnInv, DownIsBlank, Down, ReconnectIffDead,
                FlagsFollowSocket, TypeOK
  <2> QED
    BY <1>2, <2>1, DialKeeps DEF ReconnectTimerFires
<1>3. ASSUME NEW l \in Login, SocketConnects(l) PROVE ConnInv'
  <2> USE <1>3 DEF SocketConnects, Send, ConnInv
  <2>1. asked = {} /\ ~ amiConnected /\ proc = "up"
    BY DEF Owed, FlagsFollowSocket, DownIsBlank, Down, TypeOK
  <2>2. DownIsBlank' /\ Owed' /\ StaleBeforeLogin' /\ ReconnectIffDead'
    BY <2>1 DEF DownIsBlank, Owed, StaleBeforeLogin, Stale, ReconnectIffDead
  <2>3. Fresh'
    BY DEF Fresh, Stale
  <2>4. FlagsFollowSocket' /\ WaitingIsTimed' /\ UnauthenticatedIsTimed'
    BY <2>1 DEF FlagsFollowSocket, WaitingIsTimed, UnauthenticatedIsTimed
  <2> QED
    BY <2>2, <2>3, <2>4
<1>4. CASE SocketError
  BY <1>4, DisconnectedKeeps DEF SocketError
<1>5. CASE SocketClose
  BY <1>5, DisconnectedKeeps DEF SocketClose, LoginRefused
<1>6. ASSUME NEW f \in Id \cup {Event}, WholeFrame(f) PROVE ConnInv'
  <2>1. f \in Login => asked \cap Login \subseteq {f}
    BY <1>6 DEF WholeFrame, MaySend, ConnInv, Owed, Id
  <2> QED
    BY <1>6, <2>1, FrameKeeps DEF WholeFrame, MaySend
<1>7. ASSUME NEW f \in Id \cup {Event}, FrameBegins(f) PROVE ConnInv'
  <2> USE <1>7 DEF FrameBegins, MaySend, ConnInv, envVars
  <2>1. Fresh' /\ StaleBeforeLogin'
    BY DEF Fresh, StaleBeforeLogin, Stale, Owed, Id
  <2>2. DownIsBlank' /\ Owed' /\ ReconnectIffDead'
    BY DEF DownIsBlank, Down, Owed, ReconnectIffDead
  <2>3. FlagsFollowSocket' /\ WaitingIsTimed' /\ UnauthenticatedIsTimed'
    BY DEF FlagsFollowSocket, WaitingIsTimed, UnauthenticatedIsTimed
  <2> QED
    BY <2>1, <2>2, <2>3
<1>8. CASE FrameEnds
  <2>1. messageBuffer.frame \in Id \cup {Event}
    BY <1>8 DEF FrameEnds, ConnInv, TypeOK, Unfinished
  <2> QED
    BY <1>8, <2>1, FrameKeeps DEF FrameEnds, ConnInv, Fresh
<1>9. ASSUME NEW a \in Action, Request(a) PROVE ConnInv'
  <2> USE <1>9 DEF Request, Send, ConnInv, netVars, envVars
  <2>1. Owed' /\ Fresh' /\ StaleBeforeLogin'
    BY DEF Owed, Fresh, StaleBeforeLogin, Stale, FlagsFollowSocket
  <2>2. DownIsBlank' /\ ReconnectIffDead' /\ FlagsFollowSocket' /\ UnauthenticatedIsTimed'
    BY DEF DownIsBlank, ReconnectIffDead, FlagsFollowSocket, UnauthenticatedIsTimed
  <2>3. WaitingIsTimed'
    BY DEF WaitingIsTimed, TypeOK
  <2> QED
    BY <2>1, <2>2, <2>3
<1>10. ASSUME NEW a \in Action, ActionTimerFires(a) PROVE ConnInv'
  <2> USE <1>10 DEF ActionTimerFires, RejectWaiting, TimeIsUp, ConnInv, netVars, envVars
  <2>1. Owed' /\ Fresh' /\ StaleBeforeLogin' /\ ReconnectIffDead' /\ FlagsFollowSocket'
    BY DEF Owed, Fresh, StaleBeforeLogin, Stale, ReconnectIffDead, FlagsFollowSocket
  <2>2. DownIsBlank' /\ UnauthenticatedIsTimed'
    BY DEF DownIsBlank, Down, UnauthenticatedIsTimed
  <2>3. WaitingIsTimed'
    BY DEF WaitingIsTimed, TypeOK
  <2> QED
    BY <2>1, <2>2, <2>3
<1>11. ASSUME NEW l \in Login, LoginTimerFires(l) PROVE ConnInv'
  <2>1. CASE Crash
    BY <2>1, CrashKeeps
  <2>2. CASE /\ l \notin callbacks /\ timers' = timers \ {l}
             /\ UNCHANGED <<proc, netVars, envVars, callbacks, asked, outcome>>
    BY <2>2 DEF ConnInv, netVars, envVars, Owed, Fresh, StaleBeforeLogin, Stale, ReconnectIffDead,
                FlagsFollowSocket, DownIsBlank, Down, WaitingIsTimed, UnauthenticatedIsTimed
  <2> QED
    BY <1>11, <2>1, <2>2 DEF LoginTimerFires
<1>12. CASE Forget
  <2> USE <1>12 DEF Forget, ConnInv, netVars, envVars
  <2>1. Owed' /\ Fresh' /\ StaleBeforeLogin' /\ ReconnectIffDead' /\ FlagsFollowSocket'
    BY DEF Owed, Fresh, StaleBeforeLogin, Stale, ReconnectIffDead, FlagsFollowSocket
  <2>2. DownIsBlank' /\ UnauthenticatedIsTimed' /\ WaitingIsTimed'
    BY DEF DownIsBlank, Down, UnauthenticatedIsTimed, WaitingIsTimed
  <2> QED
    BY <2>1, <2>2
<1>13. CASE Kill
  BY <1>13, CrashKeeps DEF Kill
<1>14. CASE Weather \/ UNCHANGED vars
  <2>1. UNCHANGED <<proc, netVars, goodSecret, callbacks, timers, asked, outcome>>
    BY <1>14 DEF Weather, vars, envVars
  <2> QED
    BY <2>1 DEF netVars, ConnInv, Owed, Fresh, StaleBeforeLogin, Stale, ReconnectIffDead,
                FlagsFollowSocket, DownIsBlank, Down, WaitingIsTimed, UnauthenticatedIsTimed
<1> QED
  BY <1>1, <1>2, <1>3, <1>4, <1>5, <1>6, <1>7, <1>8, <1>9, <1>10, <1>11, <1>12, <1>13, <1>14
     DEF Next

LEMMA ConnInvHolds == Spec => []ConnInv
<1>1. Init => ConnInv
  BY AmiAssumption
     DEF Init, ConnInv, TypeOK, DownIsBlank, Down, Owed, Fresh, StaleBeforeLogin, Stale,
         ReconnectIffDead, FlagsFollowSocket, WaitingIsTimed, UnauthenticatedIsTimed
<1> QED
  BY <1>1, ConnInvStep, PTL DEF Spec

\* The flags follow the socket, and a reconnect is pending exactly while it is dead.
THEOREM ConnectionKnown == Spec => []ConnectionIsKnown
<1>1. ConnInv => ConnectionIsKnown
  BY DEF ConnInv, ConnectionIsKnown
<1> QED
  BY <1>1, ConnInvHolds, PTL

\* No request and no login waits without a running timer.
THEOREM NoUntimedWait == Spec => []NothingWaitsUntimed
<1>1. ConnInv => NothingWaitsUntimed
  BY DEF ConnInv, NothingWaitsUntimed
<1> QED
  BY <1>1, ConnInvHolds, PTL

LEMMA SettlesOnceStep ==
  ConnInv /\ [Next]_vars =>
    [\A a \in Action :
       outcome[a] \in {"resolved", "rejected", "lost"} => outcome'[a] = outcome[a]]_vars
<1> SUFFICES ASSUME ConnInv, [Next]_vars, NEW a \in Action,
                    outcome[a] \in {"resolved", "rejected", "lost"}
             PROVE  outcome'[a] = outcome[a]
  BY DEF vars
<1>1. a \notin callbacks
  BY DEF ConnInv, WaitingIsTimed
<1>2. ASSUME NEW f, HandleFrame(f) PROVE outcome'[a] = outcome[a]
  BY <1>1, <1>2 DEF HandleFrame, TakeFrame
<1>3. ASSUME NEW b \in Action, Request(b) PROVE outcome'[a] = outcome[a]
  BY <1>3 DEF Request, ConnInv, TypeOK
<1>4. ASSUME NEW b \in Action, ActionTimerFires(b) PROVE outcome'[a] = outcome[a]
  BY <1>1, <1>4 DEF ActionTimerFires, RejectWaiting, ConnInv, TypeOK
<1>5. CASE Crash
  BY <1>5 DEF Crash
<1>6. CASE outcome' = outcome
  BY <1>6
<1> QED
  BY <1>2, <1>3, <1>4, <1>5, <1>6
     DEF Next, Boot, ReconnectTimerFires, SocketConnects, LoginTimerFires, SocketError,
         SocketClose, Disconnected, ResetFlags, ScheduleReconnect, WholeFrame, FrameBegins, FrameEnds, Forget, Kill,
         Weather, vars

\* A settled request stays as it was settled, whatever comes late.
THEOREM RequestsSettleOnce == Spec => SettledOnce
BY ConnInvHolds, SettlesOnceStep, PTL DEF Spec, SettledOnce

LEMMA TearsAtLoginStep ==
  ConnInv /\ [Next]_vars =>
    [dispatched' = "torn" =>
       ~ amiConnected /\ asked \cap Login # {} /\ asked' \cap Login = {}]_vars
<1> SUFFICES ASSUME ConnInv, [Next]_vars, dispatched' = "torn", vars' # vars
             PROVE  ~ amiConnected /\ asked \cap Login # {} /\ asked' \cap Login = {}
  BY DEF vars
<1>1. PICK f \in Id \cup {Event} : WholeFrame(f)
  BY DEF Next, Boot, ReconnectTimerFires, SocketConnects, LoginTimerFires, SocketError,
         SocketClose, Disconnected, ResetFlags, ScheduleReconnect, FrameBegins, FrameEnds, HandleFrame, TakeFrame, Stale, Request,
         ActionTimerFires, RejectWaiting, Crash, Forget, Kill, Weather
<1>2. Stale /\ socket = "open" /\ ~ amiConnected /\ asked \subseteq Login
  BY <1>1 DEF WholeFrame, MaySend, HandleFrame, TakeFrame, ConnInv, StaleBeforeLogin
<1>3. f \in asked /\ asked' = asked \ {f}
  BY <1>1, <1>2 DEF WholeFrame, MaySend, HandleFrame, TakeFrame
<1> QED
  BY <1>2, <1>3 DEF ConnInv, Owed

\* A frame torn by a lost connection can only come with the reply to a login.
THEOREM TearsOnlyAtLogin == Spec => TornOnlyAtLogin
BY ConnInvHolds, TearsAtLoginStep, PTL DEF Spec, TornOnlyAtLogin

-----------------------------------------------------------------------------
(* The calls table                                                         *)

\* Every action of the service and of Asterisk keeps the variables typed.
LEMMA CallsTypeStep == CallsTypeOK /\ [CallsNext]_callVars => CallsTypeOK'
<1> USE CallsAssumption
<1>1. ASSUME CallsTypeOK, [CallsNext]_callVars PROVE CallsTypeOK'
  <2> USE <1>1 DEF CallsTypeOK, Work, Row, Active
  <2>1. CASE \E c \in Call : CallEvent(c)
    <3>1. PICK c \in Call : CallEvent(c)
      BY <2>1
    <3>2. ASSUME NEW state \in {"new", "offered", "connected"} \cup Over,
                 NEW at \in {"owner", "upsert", "answer", "end"},
                 Sends(c, state, at)
          PROVE  CallsTypeOK'
      BY <3>2 DEF Sends
    <3> QED
      BY <3>1, <3>2 DEF CallEvent, Newchannel, AgentCalled, AgentConnect, Hangup, Over
  <2>2. CASE \E s \in Slot : Query(s)
    <3>1. PICK s \in Slot : Query(s)
      BY <2>2
    <3>3. CASE handler[s] # Free
      <4>1. handler[s].call \in Call /\ Current(s) \in Row
        BY <3>3 DEF Current
      <4>2. ASSUME NEW new \in Row, Ends(s, new) PROVE CallsTypeOK'
        BY <4>1, <4>2 DEF Ends, Moves
      <4>6. CASE ResolveOwner(s)
        BY <4>1, <4>6 DEF ResolveOwner, Moves
      <4>3. CASE Upsert(s)
        BY <4>1, <4>2, <4>3 DEF Upsert
      <4>4. CASE Answer(s)
        BY <4>1, <4>2, <4>4 DEF Answer, Answered, NoRow
      <4>5. CASE End(s)
        BY <4>1, <4>2, <4>5 DEF End, Ended, NoRow
      <4> QED
        BY <3>1, <4>3, <4>4, <4>5, <4>6 DEF Query
    <3>4. CASE handler[s] = Free
      BY <3>1, <3>4 DEF Query, ResolveOwner, Upsert, Answer, Answered, End, Ended, Free
    <3> QED
      BY <3>3, <3>4
  <2>3. CASE CallsCrash
    BY <2>3 DEF CallsCrash, Free
  <2>4. CASE Connection
    BY <2>4 DEF Connection
  <2>5. CASE UNCHANGED callVars
    BY <2>5 DEF callVars
  <2> QED
    BY <2>1, <2>2, <2>3, <2>4, <2>5 DEF CallsNext
<1> QED
  BY <1>1

\* The variables of the call table, its handlers and Asterisk's channels keep
\* their types.
THEOREM CallsTypeCorrect == CallsSpec => []CallsTypeOK
<1>1. CallsInit => CallsTypeOK
  BY CallsAssumption DEF CallsInit, CallsTypeOK, NoRow, Free, Row, Work
<1> QED
  BY <1>1, CallsTypeStep, PTL DEF CallsSpec

-----------------------------------------------------------------------------
(* The invariant behind RevivedOnlyByRace and TrueUnlessUnanswered.     *)

Busy(s, c) == handler[s] # Free /\ handler[s].call = c

\* Two handlers of one call are a race.
Alone == \A c \in Call \ raced : \A s, t \in Slot : Busy(s, c) /\ Busy(t, c) => s = t

\* The end of a call is stamped, or about to be, only after its hangup.
EndsAfterHangup ==
  /\ \A c \in Call : row[c].endTime => channel[c] \in Over
  /\ \A s \in Slot : handler[s].at = "end" => channel[handler[s].call] \in Over

\* Whatever else is in flight for a call that has not raced comes before its end.
NoStraggler ==
  \A c \in Call \ raced, s \in Slot :
    Busy(s, c) /\ handler[s].at # "end" => ~ row[c].endTime

\* What the one handler in flight of a call finds and is for.
Finds(s, c) ==
  CASE handler[s].at \in {"owner", "upsert"} -> channel[c] = "new"
    [] handler[s].at = "answer" -> channel[c] \in {"offered", "connected"} /\ row[c].status \in Active
    [] OTHER -> channel[c] \in Over /\ row[c].status \in Active

InOrder ==
  \A c \in Call \ (raced \cup missed), s \in Slot : Busy(s, c) => Finds(s, c)

CallsInv ==
  /\ CallsTypeOK /\ Alone /\ EndsAfterHangup /\ NoStraggler
  /\ RevivedOnlyByRace /\ InOrder /\ TrueUnlessUnanswered

\* An event of channel c is sent, as it may be in the channel's state.
Allowed(c, state, at) ==
  \/ at \in {"owner", "upsert"} /\ channel[c] = "none" /\ state = "new"
  \/ at = "answer" /\ channel[c] \in {"new", "offered"} /\ state \in {"offered", "connected"}
  \/ at = "end" /\ channel[c] \in {"new", "offered"} /\ state = "abandoned"
  \/ at = "end" /\ channel[c] = "connected" /\ state = "ended"

LEMMA SendsKeeps ==
  ASSUME CallsInv, CallsTypeOK', NEW c \in Call, NEW state, NEW at,
         Allowed(c, state, at), Sends(c, state, at)
  PROVE  CallsInv'
<1> USE CallsAssumption
<1> USE DEF CallsInv, Sends, CallsTypeOK
<1>1. CASE listening
  <2>1. PICK s0 \in Slot : /\ handler[s0] = Free
                           /\ handler' = [handler EXCEPT ![s0] = [at |-> at, call |-> c]]
    BY <1>1
  <2>2. raced' = IF InFlight(c) THEN raced \cup {c} ELSE raced
    BY <1>1
  <2>3. /\ handler'[s0].at = at /\ handler'[s0].call = c /\ handler'[s0] # Free
        /\ \A s \in Slot \ {s0} : handler'[s] = handler[s]
        /\ channel'[c] = state
        /\ \A d \in Call \ {c} : channel'[d] = channel[d]
        /\ missed' = missed /\ row' = row
    BY <1>1, <2>1 DEF Free
  <2>4. c \notin raced' => \A s \in Slot : ~ Busy(s, c)
    BY <2>2 DEF InFlight, Busy
  <2>5. Alone'
    BY <2>2, <2>3, <2>4 DEF Alone, Busy
  <2>6. EndsAfterHangup'
    BY <2>3 DEF EndsAfterHangup, Allowed, Over
  <2>7. NoStraggler'
    BY <2>2, <2>3 DEF NoStraggler, Busy, EndsAfterHangup, Allowed, Over
  <2>8. RevivedOnlyByRace'
    BY <2>2, <2>3 DEF RevivedOnlyByRace
  <2>9. InOrder'
    <3> SUFFICES ASSUME NEW d \in Call, d \notin raced', d \notin missed',
                        NEW s \in Slot, Busy(s, d)'
                 PROVE  Finds(s, d)'
      BY DEF InOrder
    <3>1. CASE d # c
      BY <2>2, <2>3, <3>1 DEF InOrder, Busy, Finds
    <3>2. CASE d = c
      <4>1. ~ InFlight(c) /\ s = s0
        BY <2>2, <2>3, <2>4, <3>2 DEF Busy, InFlight
      <4>2. row[c].status = Meaning(c) \/ Unanswered(c)
        BY <2>2, <2>3, <3>2, <4>1 DEF TrueUnlessUnanswered
      <4> QED
        BY <2>3, <3>2, <4>1, <4>2 DEF Finds, Meaning, Unanswered, Over, Allowed, Active
    <3> QED
      BY <3>1, <3>2
  <2>10. TrueUnlessUnanswered'
    <3> SUFFICES ASSUME NEW d \in Call, d \notin raced', d \notin missed', ~ InFlight(d)'
                 PROVE  (row[d].status = Meaning(d) \/ Unanswered(d))'
      BY DEF TrueUnlessUnanswered
    <3>1. d # c
      BY <2>3 DEF InFlight
    <3>2. ~ InFlight(d)
      BY <2>1, <2>3, <3>1 DEF InFlight, Free
    <3> QED
      BY <2>2, <2>3, <3>1, <3>2 DEF TrueUnlessUnanswered, Meaning, Unanswered, Over
  <2> QED
    BY <2>5, <2>6, <2>7, <2>8, <2>9, <2>10
<1>2. CASE ~ listening
  <2>1. /\ channel'[c] = state
        /\ \A d \in Call \ {c} : channel'[d] = channel[d]
        /\ missed' = missed \cup {c} /\ handler' = handler /\ raced' = raced /\ row' = row
    BY <1>2
  <2>2. Alone' /\ NoStraggler' /\ RevivedOnlyByRace'
    BY <2>1 DEF Alone, NoStraggler, RevivedOnlyByRace, Busy
  <2>3. EndsAfterHangup'
    BY <2>1 DEF EndsAfterHangup, Allowed, Over
  <2>4. InOrder' /\ TrueUnlessUnanswered'
    BY <2>1 DEF InOrder, Busy, Finds, TrueUnlessUnanswered, Meaning, Unanswered, Over, InFlight
  <2> QED
    BY <2>2, <2>3, <2>4
<1> QED
  BY <1>1, <1>2

\* The last query of a handler writes what the handler is for.
Writes(s, new) ==
  \/ handler[s].at = "upsert" /\ new = [Current(s) EXCEPT !.status = "RINGING"]
  \/ handler[s].at = "answer" /\ new = IF Current(s) = NoRow THEN NoRow
             ELSE [Current(s) EXCEPT !.status = "IN_PROGRESS", !.answerTime = TRUE]
  \/ handler[s].at = "end" /\ new = IF Current(s) = NoRow THEN NoRow
             ELSE [Current(s) EXCEPT !.status = "COMPLETED", !.endTime = TRUE]

LEMMA EndsKeeps ==
  ASSUME CallsInv, CallsTypeOK', NEW s \in Slot, NEW new, Writes(s, new), Ends(s, new)
  PROVE  CallsInv'
<1> USE CallsAssumption
<1> DEFINE c == handler[s].call
<1>1. c \in Call /\ handler[s] # Free /\ row[c] \in Row
  BY DEF CallsInv, CallsTypeOK, Work, Free, Writes
<1>2. /\ row'[c] = new
      /\ \A d \in Call \ {c} : row'[d] = row[d]
      /\ handler'[s] = Free
      /\ \A t \in Slot \ {s} : handler'[t] = handler[t]
      /\ channel' = channel /\ missed' = missed /\ raced' = raced
  BY <1>1 DEF Ends, Moves, CallsInv, CallsTypeOK
<1>3. \A d \in Call, t \in Slot : Busy(t, d)' => t # s /\ Busy(t, d)
  BY <1>2 DEF Busy
<1>4. Alone'
  BY <1>2, <1>3 DEF Alone, CallsInv
<1>5. \/ new.endTime = row[c].endTime
      \/ handler[s].at = "end" /\ new.status = "COMPLETED"
  BY <1>1 DEF Writes, Current, NoRow, Row
<1>6. EndsAfterHangup'
  BY <1>1, <1>2, <1>5 DEF EndsAfterHangup, CallsInv, Free
<1>7. NoStraggler'
  <2> SUFFICES ASSUME NEW d \in Call, d \notin raced, NEW t \in Slot, Busy(t, d)',
                      handler'[t].at # "end"
               PROVE  ~ row'[d].endTime
    BY <1>2 DEF NoStraggler
  <2>1. t # s /\ Busy(t, d) /\ handler[t].at # "end" /\ ~ row[d].endTime
    BY <1>2, <1>3 DEF NoStraggler, CallsInv
  <2>2. d # c
    BY <1>1, <2>1 DEF Alone, Busy, CallsInv
  <2> QED
    BY <1>2, <2>1, <2>2
<1>8. RevivedOnlyByRace'
  <2> SUFFICES ASSUME c \notin raced, row'[c].endTime
               PROVE  row'[c].status \notin Active
    BY <1>2 DEF RevivedOnlyByRace, CallsInv
  <2>1. CASE handler[s].at = "end" /\ new.status = "COMPLETED"
    BY <1>2, <2>1 DEF Active
  <2>2. CASE new.endTime = row[c].endTime
    <3>1. row[c].endTime
      BY <1>2, <2>2
    <3>2. handler[s].at = "end"
      BY <1>1, <3>1 DEF NoStraggler, Busy, CallsInv
    <3>3. row[c] # NoRow
      BY <3>1 DEF NoRow
    <3> QED
      BY <1>1, <1>2, <3>2, <3>3 DEF Writes, Current, Active, Row
  <2> QED
    BY <1>5, <2>1, <2>2
<1>9. InOrder'
  <2> SUFFICES ASSUME NEW d \in Call, d \notin raced, d \notin missed,
                      NEW t \in Slot, Busy(t, d)'
               PROVE  Finds(t, d)'
    BY <1>2 DEF InOrder
  <2>1. t # s /\ Busy(t, d) /\ Finds(t, d)
    BY <1>2, <1>3 DEF InOrder, CallsInv
  <2>2. d # c
    BY <1>1, <2>1 DEF Alone, Busy, CallsInv
  <2> QED
    BY <1>2, <2>1, <2>2 DEF Finds, Over
<1>10. TrueUnlessUnanswered'
  <2> SUFFICES ASSUME NEW d \in Call, d \notin raced, d \notin missed, ~ InFlight(d)'
               PROVE  (row[d].status = Meaning(d) \/ Unanswered(d))'
    BY <1>2 DEF TrueUnlessUnanswered, Meaning, Unanswered, Over
  <2>1. CASE d # c
    <3>1. ~ InFlight(d)
      BY <1>2, <2>1 DEF InFlight
    <3> QED
      BY <1>2, <2>1, <3>1 DEF TrueUnlessUnanswered, CallsInv, Meaning, Unanswered
  <2>2. CASE d = c
    <3>1. Finds(s, c)
      BY <1>1, <2>2 DEF InOrder, Busy, CallsInv
    <3>2. handler[s].at # "upsert" => row[c] # NoRow
      BY <3>1 DEF Finds, Writes, Active, NoRow
    <3> QED
      BY <1>1, <1>2, <2>2, <3>1, <3>2
         DEF Finds, Writes, Current, Meaning, Unanswered, Over, Active, Row
  <2> QED
    BY <2>1, <2>2
<1> QED
  BY <1>4, <1>6, <1>7, <1>8, <1>9, <1>10 DEF CallsInv

LEMMA CallsInvStep == CallsInv /\ [CallsNext]_callVars => CallsInv'
<1> USE CallsAssumption
<1> SUFFICES ASSUME CallsInv, [CallsNext]_callVars PROVE CallsInv'
  OBVIOUS
<1>1. CallsTypeOK'
  BY CallsTypeStep DEF CallsInv
<1>2. ASSUME NEW c \in Call, CallEvent(c) PROVE CallsInv'
  BY <1>1, <1>2, SendsKeeps
     DEF CallEvent, Newchannel, AgentCalled, AgentConnect, Hangup, Allowed
<1>3. ASSUME NEW s \in Slot, Query(s) PROVE CallsInv'
  <2>1. CASE ResolveOwner(s)
    <3>1. handler[s] # Free /\ handler[s].call \in Call
      BY <2>1 DEF ResolveOwner, CallsInv, CallsTypeOK, Work, Free
    <3>2. /\ handler'[s].at = "upsert" /\ handler'[s].call = handler[s].call
          /\ handler'[s] # Free
          /\ \A t \in Slot \ {s} : handler'[t] = handler[t]
          /\ channel' = channel /\ row' = row /\ missed' = missed /\ raced' = raced
      BY <2>1, <3>1 DEF ResolveOwner, Moves, CallsInv, CallsTypeOK, Free
    <3>3. \A t \in Slot, c \in Call : Busy(t, c)' <=> Busy(t, c)
      BY <3>1, <3>2 DEF Busy
    <3>4. Alone' /\ NoStraggler' /\ RevivedOnlyByRace' /\ EndsAfterHangup'
      BY <2>1, <3>2, <3>3 DEF Alone, NoStraggler, RevivedOnlyByRace, EndsAfterHangup,
                              CallsInv, ResolveOwner
    <3>5. InOrder'
      BY <2>1, <3>2, <3>3 DEF InOrder, Finds, CallsInv, ResolveOwner
    <3>6. TrueUnlessUnanswered'
      <4>1. \A c \in Call : InFlight(c)' <=> InFlight(c)
        BY <3>2 DEF InFlight
      <4> QED
        BY <3>2, <4>1 DEF TrueUnlessUnanswered, Meaning, Unanswered, CallsInv
    <3> QED
      BY <1>1, <3>4, <3>5, <3>6 DEF CallsInv
  <2>2. CASE Upsert(s)
    BY <1>1, <2>2, EndsKeeps DEF Upsert, Writes
  <2>3. CASE Answer(s)
    BY <1>1, <2>3, EndsKeeps DEF Answer, Answered, Writes
  <2>4. CASE End(s)
    BY <1>1, <2>4, EndsKeeps DEF End, Ended, Writes
  <2> QED
    BY <1>3, <2>1, <2>2, <2>3, <2>4 DEF Query
<1>4. CASE CallsCrash
  <2>1. /\ \A s \in Slot : handler'[s] = Free
        /\ row' = row /\ channel' = channel /\ raced' = raced
        /\ \A c \in Call : c \notin missed' => c \notin missed /\ ~ InFlight(c)
    BY <1>4 DEF CallsCrash
  <2>2. Alone' /\ NoStraggler' /\ RevivedOnlyByRace' /\ EndsAfterHangup' /\ InOrder'
    BY <2>1 DEF Alone, NoStraggler, RevivedOnlyByRace, EndsAfterHangup, InOrder, CallsInv,
                Busy, Free
  <2>3. TrueUnlessUnanswered'
    BY <2>1 DEF TrueUnlessUnanswered, Meaning, Unanswered, Over, CallsInv
  <2> QED
    BY <1>1, <2>2, <2>3 DEF CallsInv
<1>5. CASE Connection \/ UNCHANGED callVars
  <2>1. UNCHANGED <<channel, handler, row, missed, raced>>
    BY <1>5 DEF Connection, callVars
  <2>2. TrueUnlessUnanswered'
    BY <2>1 DEF CallsInv, TrueUnlessUnanswered, Meaning, Unanswered, InFlight
  <2> QED
    BY <1>1, <2>1, <2>2 DEF CallsInv, Alone, NoStraggler, RevivedOnlyByRace, EndsAfterHangup,
       InOrder, Finds, Busy
<1> QED
  BY <1>2, <1>3, <1>4, <1>5 DEF CallsNext

LEMMA CallsInvHolds == CallsSpec => []CallsInv
<1>1. CallsInit => CallsInv
  BY CallsAssumption
     DEF CallsInit, CallsInv, CallsTypeOK, NoRow, Free, Row, Work, Alone, EndsAfterHangup, NoStraggler,
         RevivedOnlyByRace, InOrder, TrueUnlessUnanswered, Meaning, Unanswered, Over, Busy, Active
<1> QED
  BY <1>1, CallsInvStep, PTL DEF CallsSpec

\* Any number of calls: a reader of the table is told the state of each call whose
\* handlers did not overlap and whose events all arrived, unless nobody answered it.
THEOREM TableTrueUnlessUnanswered == CallsSpec => []TrueUnlessUnanswered
BY CallsInvHolds, PTL DEF CallsInv

\* Any number of calls: only overlapping handlers bring an ended call back.
THEOREM RevivalNeedsRace == CallsSpec => []RevivedOnlyByRace
BY CallsInvHolds, PTL DEF CallsInv

-----------------------------------------------------------------------------
(* The service: both invariants hold from the start of either half, and a  *)
(* step of the service is a step of one half and leaves the other alone.   *)

TelephonyInv == ConnInv /\ CallsInv

LEMMA TelephonyInvHolds == TelephonySpec => []TelephonyInv
<1> USE AmiAssumption, CallsAssumption
<1>1. CallsInit => CallsInv
  BY DEF CallsInit, CallsInv, CallsTypeOK, NoRow, Free, Row, Work, Alone, EndsAfterHangup,
         NoStraggler, RevivedOnlyByRace, InOrder, TrueUnlessUnanswered, Meaning, Unanswered, Over, Busy,
         Active
<1>2. Init => ConnInv
  BY DEF Init, Down, ConnInv, TypeOK, DownIsBlank, Owed, Fresh, Stale, StaleBeforeLogin,
         ReconnectIffDead, FlagsFollowSocket, WaitingIsTimed, UnauthenticatedIsTimed
<1>3. Standing /\ goodSecret \in BOOLEAN => ConnInv
  BY DEF Standing, ConnInv, TypeOK, DownIsBlank, Owed, Fresh, Stale, StaleBeforeLogin,
         ReconnectIffDead, FlagsFollowSocket, WaitingIsTimed, UnauthenticatedIsTimed
<1>4. TelephonyInit => TelephonyInv
  BY <1>1, <1>2, <1>3 DEF TelephonyInit, TelephonyInv, Standing
<1>5. TelephonyInv /\ [TelephonyNext]_telephonyVars => TelephonyInv'
  BY ConnInvStep, CallsInvStep
     DEF TelephonyInv, TelephonyNext, ConnectionStep, CallsStep, telephonyVars
<1> QED
  BY <1>4, <1>5, PTL DEF TelephonySpec

\* Whichever half runs, both keep the types of their variables.
THEOREM TelephonyTypeCorrect == TelephonySpec => []TelephonyTypeOK
BY TelephonyInvHolds, PTL DEF TelephonyInv, ConnInv, CallsInv, TelephonyTypeOK

\* Whichever half runs while the other stays where it starts: the view of the
\* connection is true and nothing waits without a timer; the table is right about
\* every call that was answered, lost no event and had no overlapping handlers.
THEOREM TelephonyKeepsItsWord ==
  TelephonySpec =>
    [](/\ ConnectionIsKnown /\ NothingWaitsUntimed
       /\ TrueUnlessUnanswered /\ RevivedOnlyByRace)
BY TelephonyInvHolds, PTL
   DEF TelephonyInv, ConnInv, CallsInv, ConnectionIsKnown, NothingWaitsUntimed

\* Whichever half runs, a settled request stays settled, and a frame is torn
\* only by the reply to a login.
THEOREM TelephonyStepsKeepTheirs == TelephonySpec => SettledOnce /\ TornOnlyAtLogin
<1>1. TelephonyInv /\ [TelephonyNext]_telephonyVars =>
        /\ [\A a \in Action :
              outcome[a] \in {"resolved", "rejected", "lost"} => outcome'[a] = outcome[a]]_vars
        /\ [dispatched' = "torn" =>
              ~ amiConnected /\ asked \cap Login # {} /\ asked' \cap Login = {}]_vars
  BY SettlesOnceStep, TearsAtLoginStep
     DEF TelephonyInv, TelephonyNext, ConnectionStep, CallsStep, telephonyVars
<1> QED
  BY <1>1, TelephonyInvHolds, PTL DEF TelephonySpec, SettledOnce, TornOnlyAtLogin
=============================================================================
