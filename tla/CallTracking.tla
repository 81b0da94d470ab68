---------------------------- MODULE CallTracking ----------------------------
(***************************************************************************)
(* The "calls" table as TelephonyService keeps it from the events of the   *)
(* Asterisk Manager Interface.  Asterisk (external) sends the events of a  *)
(* channel in order; handleAmiEvent() starts one asynchronous handler per  *)
(* event and awaits none of them, so their queries may reach the database  *)
(* in another order.  Events sent while the connection is down (module     *)
(* AmiConnection) are lost: nothing asks Asterisk again.                   *)
(***************************************************************************)
CONSTANTS
  Call,           \* channels, by Uniqueid
  Slot,           \* handlers that can run at the same time
  NoCall

ASSUME CallsAssumption == NoCall \notin Call

VARIABLES
  channel,        \* each channel in Asterisk
  listening,      \* whether events reach the backend
  handler,        \* the handlers in flight
  row,            \* the calls table
  missed,         \* calls some event of which was lost, or its handler was
  raced           \* calls one of whose handlers started before another ended

callVars == <<channel, listening, handler, row, missed, raced>>

Active == {"RINGING", "IN_PROGRESS"}  \* the statuses getActiveCalls() selects

\* answerTime and endTime are kept as "is set".
Row == [status : Active \cup {"ABSENT", "COMPLETED"},
        answerTime : BOOLEAN, endTime : BOOLEAN]

NoRow == [status |-> "ABSENT", answerTime |-> FALSE, endTime |-> FALSE]

Free == [at |-> "idle", call |-> NoCall]

Work == [at : {"owner", "upsert", "answer", "end"}, call : Call] \cup {Free}

Over == {"ended", "abandoned"}

\* "offered": an agent of the queue has been rung for the call; "ended": hung up
\* after an agent had answered, "abandoned": before.
CallsTypeOK ==
  /\ channel \in [Call -> {"none", "new", "offered", "connected"} \cup Over]
  /\ listening \in BOOLEAN
  /\ handler \in [Slot -> Work]
  /\ row \in [Call -> Row]
  /\ missed \subseteq Call
  /\ raced \subseteq Call

CallsInit ==
  /\ channel = [c \in Call |-> "none"]
  /\ listening = TRUE
  /\ handler = [s \in Slot |-> Free]
  /\ row = [c \in Call |-> NoRow]
  /\ missed = {} /\ raced = {}

InFlight(c) == \E s \in Slot : handler[s].call = c

-----------------------------------------------------------------------------
(* Events.  The handler runs up to its first query in the same step.       *)

\* Asterisk's channel moves on and sends the event that handler "at" is for.
Sends(c, state, at) ==
  /\ channel' = [channel EXCEPT ![c] = state]
  /\ \/ /\ listening
        /\ \E s \in Slot : /\ handler[s] = Free
                           /\ handler' = [handler EXCEPT ![s] = [at |-> at, call |-> c]]
        /\ raced' = IF InFlight(c) THEN raced \cup {c} ELSE raced
        /\ UNCHANGED missed
     \/ /\ ~ listening
        /\ missed' = missed \cup {c}
        /\ UNCHANGED <<handler, raced>>
  /\ UNCHANGED <<listening, row>>

\* onNewChannel() looks its owner up first, unless the event names no number.
Newchannel(c) ==
  /\ channel[c] = "none"
  /\ \E at \in {"owner", "upsert"} : Sends(c, "new", at)

\* Faulty variant: the event ends the call.
AgentCalledEnds(c) ==
  /\ channel[c] \in {"new", "offered"}
  /\ Sends(c, "offered", "end")

\* An agent is rung; app_queue may ring several in turn.
AgentCalled(c) ==
  /\ channel[c] \in {"new", "offered"}
  /\ Sends(c, "offered", "answer")

AgentConnect(c) ==
  /\ channel[c] = "offered"
  /\ Sends(c, "connected", "answer")

Hangup(c) ==
  \/ channel[c] \in {"new", "offered"} /\ Sends(c, "abandoned", "end")
  \/ channel[c] = "connected" /\ Sends(c, "ended", "end")

-----------------------------------------------------------------------------
(* Queries of the handlers                                                 *)

Moves(s, work) == handler' = [handler EXCEPT ![s] = work]

ResolveOwner(s) ==
  /\ handler[s].at = "owner"
  /\ Moves(s, [at |-> "upsert", call |-> handler[s].call])
  /\ UNCHANGED <<channel, listening, row, missed, raced>>

\* The last query of a handler, on the row of its call.
Ends(s, new) ==
  /\ row' = [row EXCEPT ![handler[s].call] = new]
  /\ Moves(s, Free)
  /\ UNCHANGED <<channel, listening, missed, raced>>

Current(s) == row[handler[s].call]

\* The update arm of the upsert leaves the time stamps as they are.
Upsert(s) ==
  /\ handler[s].at = "upsert"
  /\ Ends(s, [Current(s) EXCEPT !.status = "RINGING"])

\* Faulty variant: only answerTime is written.
AnsweredSilently(r) == IF r = NoRow THEN NoRow ELSE [r EXCEPT !.answerTime = TRUE]

\* updateMany() changes no row when there is none.
Answered(r) ==
  IF r = NoRow THEN NoRow
  ELSE [r EXCEPT !.status = "IN_PROGRESS", !.answerTime = TRUE]

\* Faulty variant: only endTime is written.
EndedSilently(r) == IF r = NoRow THEN NoRow ELSE [r EXCEPT !.endTime = TRUE]

Ended(r) ==
  IF r = NoRow THEN NoRow ELSE [r EXCEPT !.status = "COMPLETED", !.endTime = TRUE]

Answer(s) ==
  /\ handler[s].at = "answer"
  /\ Ends(s, Answered(Current(s)))

End(s) ==
  /\ handler[s].at = "end"
  /\ Ends(s, Ended(Current(s)))

\* The process dies, of itself or because a query rejected in a handler that
\* nobody awaits, with every handler in flight.
CallsCrash ==
  /\ missed' = missed \cup {c \in Call : InFlight(c)}
  /\ handler' = [s \in Slot |-> Free]
  /\ listening' = FALSE
  /\ UNCHANGED <<channel, row, raced>>

\* The AMI connection comes and goes.
Connection ==
  /\ listening' = ~ listening
  /\ UNCHANGED <<channel, handler, row, missed, raced>>

CallEvent(c) == Newchannel(c) \/ AgentCalled(c) \/ AgentConnect(c) \/ Hangup(c)
Query(s) == ResolveOwner(s) \/ Upsert(s) \/ Answer(s) \/ End(s)

CallsNext ==
  \/ \E c \in Call : CallEvent(c)
  \/ \E s \in Slot : Query(s)
  \/ CallsCrash
  \/ Connection

CallsSpec == CallsInit /\ [][CallsNext]_callVars

\* Every query is answered.
CallsFairness == \A s \in Slot : WF_callVars(Query(s))
-----------------------------------------------------------------------------
\* The status in which the readers of the table would find each call: ringing and
\* in progress are counted apart (telefonia/page.tsx), completed calls are the
\* answered ones and missed calls the others (dashboard.service.ts).
Meaning(c) ==
  CASE channel[c] = "none"              -> "ABSENT"
    [] channel[c] \in {"new", "offered"} -> "RINGING"
    [] channel[c] = "connected"         -> "IN_PROGRESS"
    [] channel[c] = "ended"             -> "COMPLETED"
    [] channel[c] = "abandoned"         -> "MISSED"

\* The two statuses in which it finds a call that nobody has answered instead.
Unanswered(c) ==
  \/ channel[c] = "offered" /\ row[c].status = "IN_PROGRESS"
  \/ channel[c] = "abandoned" /\ row[c].status = "COMPLETED"

(***************************************************************************)
(* The row of a call means what its readers take it for once its handlers  *)
(* are done, provided that they ran one after the other, that no event was *)
(* lost, and that the call is not one that an agent failed to answer:      *)
(* ringing an agent is stored as an answer, and an abandoned call as a     *)
(* completed one.  The row of a call that was answered is right all along, *)
(* whatever happens to the handlers of other calls.                        *)
(***************************************************************************)
TrueUnlessUnanswered ==
  \A c \in Call \ (raced \cup missed) :
    ~ InFlight(c) => row[c].status = Meaning(c) \/ Unanswered(c)

(***************************************************************************)
(* A row that is active although its call has ended for the table (endTime *)
(* is set) is one whose handlers overtook each other: a lost event alone   *)
(* never brings an ended call back.                                        *)
(***************************************************************************)
RevivedOnlyByRace ==
  \A c \in Call : row[c].endTime /\ row[c].status \in Active => c \in raced

(***************************************************************************)
(* A hung-up call whose events all arrived in order is listed as active    *)
(* for no longer than its handlers take.                                   *)
(***************************************************************************)
EndedCallsLeave ==
  \A c \in Call :
    channel[c] \in Over ~> (row[c].status \notin Active \/ c \in raced \cup missed)

(***************************************************************************)
(* The list of active calls ("Chamadas ativas no momento") shows no call   *)
(* that is over, once the backend has handled every event it got.          *)
(***************************************************************************)
ActiveCallsAreActive ==
  \A c \in Call :
    channel[c] \in Over /\ (\A s \in Slot : handler[s] = Free)
      => row[c].status \notin Active
=============================================================================
