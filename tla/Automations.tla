----------------------------- MODULE Automations -----------------------------
(***************************************************************************)
(* AutomationsService: listeners on the event bus that run the automations *)
(* of a trigger, in creation order, against the payload of the event.  A   *)
(* run is one activation of a listener; runs are asynchronous functions    *)
(* that nobody awaits, so several of them, requests and webhook deliveries *)
(* interleave.  Conditions are evaluated on the payload, never on the row, *)
(* and an action that rejects abandons the rest of the run.                *)
(***************************************************************************)
EXTENDS ConversationStore, Naturals, Sequences

CONSTANTS
  Run,            \* slots of listener activations
  Automation,     \* automations, by primary key
  Created,        \* the sequence of automations by createdAt
  Trigger,        \* [Automation -> its trigger]
  Condition,      \* [Automation -> status the payload must show, or None]
  Actions,        \* [Automation -> the sequence of its actions]
  Switched        \* the automations that administrators switch on and off

\* SIDE_EFFECT stands for SEND_MESSAGE, ADD_TAG, SET_VARIABLE and WEBHOOK_CALL,
\* which leave conversations alone but can reject, and for an assignment whose
\* config names no queue or agent, which returns at once.
Action == [type : {"ASSIGN_QUEUE"}, to : Queue]
            \cup [type : {"ASSIGN_AGENT"}, to : Agent]
            \cup [type : {"CLOSE_CONVERSATION", "SIDE_EFFECT"}, to : {None}]

TriggerType == {"MESSAGE_RECEIVED", "KEYWORD_MATCH", "CONVERSATION_OPENED",
                "CONVERSATION_CLOSED"}

ASSUME AutomationsAssumption ==
  /\ Created \in Seq(Automation)
  /\ \A x \in Automation : \E i \in DOMAIN Created : Created[i] = x
  /\ \A i, j \in DOMAIN Created : Created[i] = Created[j] => i = j
  /\ Trigger \in [Automation -> TriggerType]
  /\ Condition \in [Automation -> Status \cup {None}]
  /\ Actions \in [Automation -> Seq(Action)]
  /\ Switched \subseteq Automation

VARIABLES
  run,            \* the activations in flight
  active          \* automations with isActive

autoVars == <<run, active>>

\* "phases" are the triggers still to be loaded, "todo" the automations of the
\* current one still to be executed, "act" the next action of the first.
RunRec == [at     : {"idle", "load", "act", "count"},
           conv   : Conversation \cup {None},
           status : Status,
           phases : Seq(TriggerType),
           todo   : Seq(Automation),
           act    : Nat]

Rest == [at |-> "idle", conv |-> None, status |-> "WAITING", phases |-> <<>>,
         todo |-> <<>>, act |-> 0]

AutoInit ==
  /\ run = [u \in Run |-> Rest]
  /\ active = Automation

AutoTypeOK ==
  /\ run \in [Run -> RunRec]
  /\ active \subseteq Automation

\* Faulty variant: closing runs the automations of opening.
PhasesMixed(type) ==
  CASE type = "message.received"     -> <<"MESSAGE_RECEIVED", "KEYWORD_MATCH">>
    [] type \in {"conversation.created", "conversation.closed"}
                                     -> <<"CONVERSATION_OPENED">>
    [] OTHER                         -> <<>>

Phases(type) ==
  CASE type = "message.received"     -> <<"MESSAGE_RECEIVED", "KEYWORD_MATCH">>
    [] type = "conversation.created" -> <<"CONVERSATION_OPENED">>
    [] type = "conversation.closed"  -> <<"CONVERSATION_CLOSED">>
    [] OTHER                         -> <<>>

Listened(e) == e # None /\ Phases(e.type) # <<>>

\* The bus calls the listener in the step that emits event e.
Listen(e) ==
  IF Listened(e)
    THEN \E u \in Run :
           /\ run[u] = Rest
           /\ run' = [run EXCEPT ![u] = [Rest EXCEPT !.at = "load", !.conv = e.conv,
                                           !.status = e.status, !.phases = Phases(e.type)]]
    ELSE UNCHANGED run

-----------------------------------------------------------------------------
\* The run at its next automation, or at its next phase, or over.
AtAutomation(r, todo) ==
  IF todo # <<>>
    THEN [r EXCEPT !.todo = todo, !.act = 1,
                   !.at = IF Actions[Head(todo)] = <<>> THEN "count" ELSE "act"]
    ELSE IF Len(r.phases) > 0
           THEN [r EXCEPT !.at = "load", !.todo = <<>>, !.act = 0]
           ELSE Rest

\* Some of the automations of S, each once, in any order.
Selections(S) ==
  {s \in UNION {[1..n -> S] : n \in 0..Len(Created)} :
     \A i, j \in DOMAIN s : s[i] = s[j] => i = j}

Before(x, y) == \E i, j \in DOMAIN Created : i < j /\ Created[i] = x /\ Created[j] = y

\* All of S by createdAt.
Sorted(S) ==
  {s \in Selections(S) : /\ \A x \in S : \E i \in DOMAIN s : s[i] = x
                         /\ \A i, j \in DOMAIN s : i < j => Before(s[i], s[j])}

\* The automations that will do something when their turn comes: findMany
\* sorts those of a trigger by createdAt and leaves those of the keywords, of
\* which some are in the message, in any order.
Loaded(trigger, status) ==
  LET S == {x \in active : Trigger[x] = trigger /\ Condition[x] \in {None, status}}
  IN  IF trigger = "KEYWORD_MATCH" THEN Selections(S) ELSE Sorted(S)

\* findMany, up to the first action that follows from it.
Load(u) ==
  /\ run[u].at = "load"
  /\ \E todo \in Loaded(Head(run[u].phases), run[u].status) :
       run' = [run EXCEPT ![u] = AtAutomation([run[u] EXCEPT !.phases = Tail(@)], todo)]
  /\ Silent
  /\ UNCHANGED <<conv, lookup, active>>

(* The row after an action, and the only columns it writes.                *)

\* Faulty variant: waitingSince is not set.
QueueUnclocked(q, row) ==
  [row EXCEPT !.queue = q, !.status = "WAITING", !.waiting = FALSE]

QueueGiven(q, row) == [row EXCEPT !.queue = q, !.status = "WAITING", !.waiting = TRUE]

\* Faulty variants: the agent is written to another column, or not at all.
AgentAsQueue(a, row) ==
  [row EXCEPT !.queue = a, !.status = "IN_PROGRESS", !.waiting = FALSE]

AgentForgotten(a, row) == [row EXCEPT !.status = "IN_PROGRESS", !.waiting = FALSE]

AgentGiven(a, row) ==
  [row EXCEPT !.agent = a, !.status = "IN_PROGRESS", !.waiting = FALSE]

\* Faulty variant: closedAt is forgotten.
AutoClosedUnstamped(row) == [row EXCEPT !.status = "CLOSED"]

AutoClosed(row) == [row EXCEPT !.status = "CLOSED", !.closedAt = TRUE]

Acted(a, row) ==
  CASE a.type = "ASSIGN_QUEUE"       -> QueueGiven(a.to, row)
    [] a.type = "ASSIGN_AGENT"       -> AgentGiven(a.to, row)
    [] a.type = "CLOSE_CONVERSATION" -> AutoClosed(row)
    [] OTHER                         -> row

\* Faulty variant: an action closes through ConversationsService.close(), whose
\* event starts another run.
ActThroughService(u) ==
  LET r == run[u]
      a == Actions[Head(r.todo)][r.act]
      next == [r EXCEPT !.act = @ + 1,
                        !.at = IF r.act < Len(Actions[Head(r.todo)]) THEN "act"
                                                                     ELSE "count"]
  IN
  /\ r.at = "act"
  /\ Save(r.conv, Acted(a, conv[r.conv]))
  /\ IF a.type = "CLOSE_CONVERSATION"
       THEN \E v \in Run \ {u} :
              /\ run[v] = Rest
              /\ run' = [run EXCEPT ![u] = next,
                           ![v] = [Rest EXCEPT !.at = "load", !.conv = r.conv,
                                    !.status = "CLOSED",
                                    !.phases = Phases("conversation.closed")]]
       ELSE run' = [run EXCEPT ![u] = next]
  /\ Silent
  /\ UNCHANGED active

\* Automations write the table directly: no event tells of what they did.
Act(u) ==
  LET r == run[u]
      x == Head(r.todo)
      a == Actions[x][r.act]
  IN
  /\ r.at = "act"
  /\ Save(r.conv, Acted(a, conv[r.conv]))
  /\ run' = [run EXCEPT ![u].act = @ + 1,
                        ![u].at = IF r.act < Len(Actions[x]) THEN "act" ELSE "count"]
  /\ Silent
  /\ UNCHANGED active

\* runCount and lastRunAt are written, a query like any other.
Count(u) ==
  /\ run[u].at = "count"
  /\ run' = [run EXCEPT ![u] = AtAutomation(@, Tail(@.todo))]
  /\ Silent
  /\ UNCHANGED <<conv, lookup, active>>

\* A query or the HTTP call of an action rejects; the bus logs the error.
Abandon(u) ==
  /\ run[u].at # "idle"
  /\ run' = [run EXCEPT ![u] = Rest]
  /\ Silent
  /\ UNCHANGED <<conv, lookup, active>>

\* PATCH and DELETE of an automation set isActive; runs keep what they loaded.
SetActive(x, on) ==
  /\ active' = IF on THEN active \cup {x} ELSE active \ {x}
  /\ Silent
  /\ UNCHANGED <<conv, lookup, run>>

RunStep(u) == Load(u) \/ Act(u) \/ Count(u)

AutoStep ==
  \/ \E u \in Run : RunStep(u) \/ Abandon(u)
  \/ \E x \in Switched, on \in BOOLEAN : SetActive(x, on)
=============================================================================
