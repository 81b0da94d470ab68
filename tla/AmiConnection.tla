---------------------------- MODULE AmiConnection ----------------------------
(***************************************************************************)
(* TelephonyService's connection to the Asterisk Manager Interface: the    *)
(* socket and its event handlers, the reconnect timer, the login, the      *)
(* receive buffer, and the actions that wait for a reply by ActionID or    *)
(* for their ten-second timer.                                             *)
(*                                                                         *)
(* Asterisk and the network are external.  While "calm" holds they behave: *)
(* connections are accepted and kept, requests are answered, the process   *)
(* is not killed.  While it does not, anything may happen to them.         *)
(*                                                                         *)
(* Node runs one callback at a time, so every handler is one action.       *)
(***************************************************************************)
CONSTANTS
  Action,         \* actions that API clients send, by ActionID
  Login,          \* ActionIDs of logins; bounds the logins not yet timed out
  None

Id == Action \cup Login

Event == "event"  \* a frame of Asterisk that answers nothing

ASSUME AmiAssumption ==
  /\ Action \cap Login = {}
  /\ Event \notin Id

VARIABLES
  proc,           \* the backend process: "up" or "down"
  socket,         \* amiClient: its socket, "none" before the first connect
  amiConnected, amiConnecting,
  reconnectTimer, \* whether the 5 s timer is set
  messageBuffer,  \* the unfinished frame in the buffer, or None
  callbacks,      \* keys of actionCallbacks
  timers,         \* ActionIDs whose 10 s timer has not fired yet
  asked,          \* ActionIDs Asterisk got on this connection and must answer
  outcome,        \* per action of a client: what became of it
  dispatched,     \* the AMI event the last step dispatched, if any
  goodSecret,     \* whether ASTERISK_AMI_SECRET is the secret of the user; fixed
  calm

envVars == <<goodSecret, calm>>
netVars == <<socket, amiConnected, amiConnecting, reconnectTimer, messageBuffer>>
vars == <<proc, netVars, callbacks, timers, asked, outcome, dispatched, envVars>>

\* "stale" marks an unfinished frame whose connection is gone: connectAMI()
\* opens a new socket without clearing messageBuffer.
Unfinished == [frame : Id \cup {Event}, stale : BOOLEAN]

Stale == messageBuffer # None /\ messageBuffer.stale

TypeOK ==
  /\ proc \in {"up", "down"}
  /\ socket \in {"none", "opening", "open", "failed", "closed"}
  /\ amiConnected \in BOOLEAN /\ amiConnecting \in BOOLEAN
  /\ reconnectTimer \in BOOLEAN
  /\ messageBuffer \in Unfinished \cup {None}
  /\ callbacks \subseteq Id
  /\ timers \subseteq Id
  /\ asked \subseteq Id
  /\ outcome \in [Action -> {"new", "waiting", "resolved", "rejected", "lost"}]
  /\ dispatched \in {"none", "whole", "torn"}
  /\ goodSecret \in BOOLEAN /\ calm \in BOOLEAN

Down ==
  /\ proc = "down" /\ socket = "none"
  /\ amiConnected = FALSE /\ amiConnecting = FALSE /\ reconnectTimer = FALSE
  /\ messageBuffer = None /\ callbacks = {} /\ timers = {} /\ asked = {}

Init ==
  /\ Down
  /\ outcome = [a \in Action |-> "new"]
  /\ dispatched = "none"
  /\ goodSecret \in BOOLEAN /\ calm \in BOOLEAN

-----------------------------------------------------------------------------
(* The socket and its handlers                                             *)

\* connectAMI() past its guard.
Dial ==
  /\ amiConnecting' = TRUE
  /\ socket' = "opening"
  /\ asked' = {}

\* The process starts and onModuleInit() connects.
Boot ==
  /\ proc = "down"
  /\ proc' = "up"
  /\ Dial
  /\ dispatched' = "none"
  /\ UNCHANGED <<amiConnected, reconnectTimer, messageBuffer, callbacks, timers,
                 outcome, envVars>>

\* A failed socket closes in the same turn of the event loop, so its "close"
\* comes before a timer of five seconds.
ReconnectTimerFires ==
  /\ reconnectTimer
  /\ socket # "failed"
  /\ reconnectTimer' = FALSE
  /\ IF amiConnected \/ amiConnecting
       THEN UNCHANGED <<socket, amiConnecting, asked>>
       ELSE Dial
  /\ dispatched' = "none"
  /\ UNCHANGED <<proc, amiConnected, messageBuffer, callbacks, timers, outcome, envVars>>

\* Faulty variants: the action has no timer; its callback has a wrong key.
SendUntimed(id) ==
  /\ callbacks' = callbacks \cup {id}
  /\ asked' = asked \cup {id}
  /\ UNCHANGED timers

SendMiskeyed(id) ==
  /\ callbacks' = callbacks \cup {Event}
  /\ timers' = timers \cup {id}
  /\ asked' = asked \cup {id}

\* sendAction(): the callback and its timer are set, the frame is written.
Send(id) ==
  /\ callbacks' = callbacks \cup {id}
  /\ timers' = timers \cup {id}
  /\ asked' = asked \cup {id}

\* Faulty variant: nothing is sent on the new connection.
ConnectsSilently(l) ==
  /\ socket = "opening"
  /\ socket' = "open"
  /\ amiConnecting' = FALSE
  /\ dispatched' = "none"
  /\ UNCHANGED <<proc, amiConnected, reconnectTimer, messageBuffer, callbacks,
                 timers, asked, outcome, envVars>>

\* "connect": the connection stands and the login is sent, its promise dropped.
SocketConnects(l) ==
  /\ socket = "opening"
  /\ l \notin callbacks \cup timers
  /\ socket' = "open"
  /\ amiConnecting' = FALSE
  /\ Send(l)
  /\ dispatched' = "none"
  /\ UNCHANGED <<proc, amiConnected, reconnectTimer, messageBuffer, outcome, envVars>>

\* Faulty variants: one of the two flags is left as it was.
ConnectedKept  == amiConnecting' = FALSE /\ UNCHANGED amiConnected
ConnectingKept == amiConnected' = FALSE /\ UNCHANGED amiConnecting

ResetFlags == amiConnected' = FALSE /\ amiConnecting' = FALSE

\* Faulty variant: nobody schedules the reconnect.
NoReconnect == UNCHANGED reconnectTimer

ScheduleReconnect == reconnectTimer' = TRUE

Disconnected(s) ==
  /\ socket' = s
  /\ ResetFlags
  /\ ScheduleReconnect
  /\ asked' = {}
  /\ messageBuffer' = IF messageBuffer = None THEN None
                      ELSE [messageBuffer EXCEPT !.stale = TRUE]
  /\ dispatched' = "none"
  /\ UNCHANGED <<proc, callbacks, timers, outcome, envVars>>

SocketError ==
  /\ ~ calm
  /\ socket \in {"opening", "open"}
  /\ Disconnected("failed")

\* Asterisk closes the session of a login that it refused.
LoginRefused == socket = "open" /\ ~ amiConnected /\ asked = {} /\ ~ goodSecret

SocketClose ==
  /\ \/ socket = "failed"
     \/ socket = "open" /\ ~ calm
     \/ LoginRefused
  /\ Disconnected("closed")

-----------------------------------------------------------------------------
(* Frames from Asterisk                                                    *)

\* Faulty variant: a frame that was handled stays in the buffer.
KeepFrame == UNCHANGED messageBuffer

TakeFrame == messageBuffer' = None

\* handleMessage() on a frame, alone or glued to what the buffer held.  Of a
\* key that occurs twice the last value counts, so a reply outranks the stale
\* beginning before it, but an "Event:" line of that beginning remains.
HandleFrame(f) ==
  /\ amiConnected' = (amiConnected \/ (f \in Login /\ goodSecret))
  /\ callbacks' = callbacks \ {f}
  /\ outcome' = [a \in Action |-> IF a = f /\ a \in callbacks THEN "resolved"
                                                              ELSE outcome[a]]
  /\ asked' = asked \ {f}
  /\ TakeFrame
  /\ dispatched' =
       IF Stale
         THEN IF Event \in {f, messageBuffer.frame} THEN "torn" ELSE "none"
         ELSE IF f = Event THEN "whole" ELSE "none"
  /\ UNCHANGED <<proc, socket, amiConnecting, reconnectTimer, timers, envVars>>

\* What Asterisk may send next: events only to a session that has logged in,
\* and nothing before the rest of a frame it has begun.
MaySend(f) ==
  /\ socket = "open"
  /\ f \in asked \/ (f = Event /\ amiConnected)
  /\ messageBuffer = None \/ Stale

WholeFrame(f) == MaySend(f) /\ HandleFrame(f)

\* A chunk ends inside the frame: processMessages() keeps it for later.
FrameBegins(f) ==
  /\ MaySend(f)
  /\ messageBuffer = None
  /\ messageBuffer' = [frame |-> f, stale |-> FALSE]
  /\ dispatched' = "none"
  /\ UNCHANGED <<proc, socket, amiConnected, amiConnecting, reconnectTimer,
                 callbacks, timers, asked, outcome, envVars>>

FrameEnds ==
  /\ socket = "open"
  /\ messageBuffer # None /\ ~ Stale
  /\ HandleFrame(messageBuffer.frame)

-----------------------------------------------------------------------------
(* Actions of API clients, and their timers                                *)

Request(a) ==
  /\ proc = "up"
  /\ outcome[a] = "new"
  /\ \/ /\ amiConnected
        /\ Send(a)
        /\ outcome' = [outcome EXCEPT ![a] = "waiting"]
     \/ /\ ~ amiConnected
        /\ outcome' = [outcome EXCEPT ![a] = "rejected"]
        /\ UNCHANGED <<callbacks, timers, asked>>
  /\ dispatched' = "none"
  /\ UNCHANGED <<proc, netVars, envVars>>

\* The process is gone with all its state; requests in flight get no answer.
Crash ==
  /\ proc' = "down" /\ socket' = "none"
  /\ amiConnected' = FALSE /\ amiConnecting' = FALSE /\ reconnectTimer' = FALSE
  /\ messageBuffer' = None /\ callbacks' = {} /\ timers' = {} /\ asked' = {}
  /\ outcome' = [a \in Action |-> IF outcome[a] = "waiting" THEN "lost" ELSE outcome[a]]
  /\ dispatched' = "none"
  /\ UNCHANGED envVars

\* In calm an answer takes less than the ten seconds of the timer.
TimeIsUp(id) == id \in timers /\ (calm => id \notin asked)

\* Faulty variant: the timer does not look whether the reply has come.
RejectAnyway(a) == outcome' = [outcome EXCEPT ![a] = "rejected"]

RejectWaiting(a) ==
  outcome' = IF a \in callbacks THEN [outcome EXCEPT ![a] = "rejected"] ELSE outcome

\* The timer of an action: it is never cleared, and does nothing once the
\* reply has come.
ActionTimerFires(a) ==
  /\ TimeIsUp(a)
  /\ timers' = timers \ {a}
  /\ callbacks' = callbacks \ {a}
  /\ RejectWaiting(a)
  /\ dispatched' = "none"
  /\ UNCHANGED <<proc, netVars, asked, envVars>>

\* The timer of a login: nobody handles the rejection of the promise that
\* login() drops, which ends a Node process.
LoginTimerFires(l) ==
  /\ TimeIsUp(l)
  /\ \/ l \in callbacks /\ Crash
     \/ /\ l \notin callbacks
        /\ timers' = timers \ {l}
        /\ dispatched' = "none"
        /\ UNCHANGED <<proc, netVars, callbacks, asked, outcome, envVars>>

-----------------------------------------------------------------------------
(* The environment                                                         *)

\* Asterisk loses what it was asked, with the connection left standing.
Forget ==
  /\ ~ calm
  /\ asked # {}
  /\ asked' = {}
  /\ dispatched' = "none"
  /\ UNCHANGED <<proc, netVars, callbacks, timers, outcome, envVars>>

Kill == ~ calm /\ proc = "up" /\ Crash

Weather ==
  /\ calm' = ~ calm
  /\ dispatched' = "none"
  /\ UNCHANGED <<proc, goodSecret, netVars, callbacks, timers, asked, outcome>>

Next ==
  \/ Boot \/ ReconnectTimerFires
  \/ \E l \in Login : SocketConnects(l) \/ LoginTimerFires(l)
  \/ SocketError \/ SocketClose
  \/ \E f \in Id \cup {Event} : WholeFrame(f) \/ FrameBegins(f)
  \/ FrameEnds
  \/ \E a \in Action : Request(a) \/ ActionTimerFires(a)
  \/ Forget \/ Kill \/ Weather

Spec == Init /\ [][Next]_vars

(***************************************************************************)
(* Fairness: the container is restarted (restart: unless-stopped), a dead  *)
(* socket closes, timers fire however the weather changes, and Asterisk in *)
(* calm accepts connections and answers what it was asked between the      *)
(* events it sends (Forget stands for what it never answers).              *)
(***************************************************************************)
AmiFairness ==
  /\ WF_vars(Boot) /\ WF_vars(ReconnectTimerFires) /\ WF_vars(SocketClose)
  /\ WF_vars(\E l \in Login : SocketConnects(l))
  /\ \A id \in Id : SF_vars(WholeFrame(id))
  /\ WF_vars(FrameEnds)
  /\ \A l \in Login : SF_vars(LoginTimerFires(l))
  /\ \A a \in Action : SF_vars(ActionTimerFires(a))

FairSpec == Spec /\ AmiFairness
-----------------------------------------------------------------------------
\* A reconnect is pending exactly while the socket is dead: no timer can fire into
\* a connection that is being set up or stands (connectAMI would destroy it).
ReconnectIffDead ==
  proc = "up" => (reconnectTimer <=> socket \in {"failed", "closed"})

\* isConnected() is true only on a standing connection whose login has been
\* answered, and amiConnecting only while one is opening.
FlagsFollowSocket ==
  /\ amiConnected => socket = "open" /\ asked \cap Login = {} /\ goodSecret
  /\ amiConnecting <=> socket = "opening"

(***************************************************************************)
(* Across errors, closes, reconnects, logins and crashes the flags of the  *)
(* service follow its socket, and a lost connection is never forgotten:    *)
(* a reconnect is pending exactly while the socket is dead.                *)
(***************************************************************************)
ConnectionIsKnown == ReconnectIffDead /\ FlagsFollowSocket

\* An action waits if and only if its callback is registered, and a registered
\* callback has its timer running.
WaitingIsTimed ==
  /\ callbacks \subseteq timers
  /\ \A a \in Action : outcome[a] = "waiting" <=> a \in callbacks

\* The login of a connection that is not logged in is registered with its timer
\* running, or was refused and Asterisk is about to close the session.
UnauthenticatedIsTimed ==
  socket = "open" /\ ~ amiConnected
    => callbacks \cap timers \cap Login # {} \/ ~ goodSecret

(***************************************************************************)
(* Nothing waits for ever, whatever connections come and go meanwhile: not *)
(* the request of a client, nor a connection that stands without being     *)
(* logged in.                                                              *)
(***************************************************************************)
NothingWaitsUntimed == WaitingIsTimed /\ UnauthenticatedIsTimed

(***************************************************************************)
(* The promise of sendAction() settles once: an answer that comes after    *)
(* the timer, a timer after the answer, or either after a crash changes    *)
(* nothing.                                                                *)
(***************************************************************************)
SettledOnce ==
  [][\A a \in Action :
       outcome[a] \in {"resolved", "rejected", "lost"} => outcome'[a] = outcome[a]]_vars

(***************************************************************************)
(* The rest of a frame whose connection broke is glued to the first frame  *)
(* of the next one, and that is the reply to the login: only that step can *)
(* dispatch an event that Asterisk never sent as such.                     *)
(***************************************************************************)
TornOnlyAtLogin ==
  [][dispatched' = "torn" => ~ amiConnected /\ asked \cap Login # {} /\ asked' \cap Login = {}]_vars

(***************************************************************************)
(* When Asterisk, network and host behave from some time on, the service   *)
(* ends up connected and stays so, even if that takes the crash of a       *)
(* process whose login was never answered.                                 *)
(***************************************************************************)
EventuallyConnected == <>[](goodSecret /\ calm) => <>[]amiConnected

\* Every request of a client comes to an end.
RequestsEnd == \A a \in Action : outcome[a] = "waiting" ~> outcome[a] # "waiting"

(***************************************************************************)
(* A lost AMI connection leads to a reconnect ("AMI connection closed,     *)
(* reconnecting..."), not to the end of the backend process.               *)
(***************************************************************************)
OnlyKilled == [][proc = "up" /\ proc' = "down" => Kill]_vars
=============================================================================
