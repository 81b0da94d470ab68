-------------------------------- MODULE Agents --------------------------------
(***************************************************************************)
(* What is kept about agents: their account and status with a log of the   *)
(* changes (UsersService), their membership in a queue (QueuesService) and *)
(* the sessions of their softphones (PbxService).  Changes read, write and *)
(* log in separate queries; signing in and out sets the status, too, and   *)
(* is part of Sessions.  The softphone (external) registers, sends         *)
(* heartbeats and ends its session; these calls overtake each other.       *)
(***************************************************************************)
EXTENDS Naturals, Sequences

CONSTANTS
  Agent,
  Employed,       \* those who are active at the start; the others were deleted before
  AgentStatus,
  StatusChange,   \* slots of status changes being handled
  MaxLog,         \* entries in the log of an agent
  MaxTurns,       \* sign-ins and sign-outs
  NoAgent

ASSUME AgentsAssumption ==
  /\ Employed \subseteq Agent /\ NoAgent \notin Agent
  /\ {"ONLINE", "OFFLINE"} \subseteq AgentStatus
  /\ MaxLog \in Nat /\ MaxTurns \in Nat

VARIABLES
  account,        \* active and status of every user
  statusLog,      \* his rows of agent_status_logs, in the order they were written
  change,         \* the status changes being handled
  member,         \* members of the queue: "no", "ready" or "paused"
  joining,        \* agents for whom an addMember() has passed its checks
  phone,          \* the softphone session of every agent
  registering,    \* registrations whose extension has been looked up
  turns,
  unlogged,       \* agents whose status changed without the log, or twice at a time,
                  \* since they were last given one
  since,          \* entries of the log that were there when that ended
  lastCall        \* the last of register and unregister that was handled

agentVars == <<account, statusLog, change, member, joining, phone, registering,
               turns, unlogged, since, lastCall>>

Account == [active : BOOLEAN, status : AgentStatus]

NoChange == [agent |-> NoAgent, at |-> "read", from |-> "OFFLINE", to |-> "OFFLINE"]

Handles(s, u) == change[s].agent = u
Engaged(u) == \E s \in StatusChange : Handles(s, u)

-----------------------------------------------------------------------------
(* updateStatus().  The guard of the API lets in who is active; a request   *)
(* of an agent who is deleted meanwhile goes on.                           *)

ReadStatus(s, u, to) ==
  /\ change[s] = NoChange
  /\ Len(statusLog[u]) < MaxLog
  /\ change' = [change EXCEPT ![s] = [agent |-> u, at |-> "write",
                                      from |-> account[u].status, to |-> to]]
  /\ unlogged' = IF Engaged(u) THEN unlogged \cup {u} ELSE unlogged \ {u}
  /\ since' = IF u \in unlogged /\ ~ Engaged(u) THEN [since EXCEPT ![u] = Len(statusLog[u])]
                                                ELSE since
  /\ UNCHANGED <<account, statusLog, member, joining, phone, registering, turns, lastCall>>

WriteStatus(s) ==
  /\ change[s].agent # NoAgent /\ change[s].at = "write"
  /\ account' = [account EXCEPT ![change[s].agent].status = change[s].to]
  /\ change' = [change EXCEPT ![s].at = "log"]
  /\ UNCHANGED <<statusLog, member, joining, phone, registering, turns, unlogged, since, lastCall>>

\* Faulty variant: the entry tells the status as it is by now.
LogReread(s) ==
  /\ change[s].at = "log"
  /\ LET u == change[s].agent IN
       statusLog' = [statusLog EXCEPT ![u] = Append(@, [from |-> account[u].status, to |-> change[s].to])]
  /\ change' = [change EXCEPT ![s] = NoChange]
  /\ UNCHANGED <<account, member, joining, phone, registering, turns, unlogged, since, lastCall>>

LogStatus(s) ==
  /\ change[s].at = "log"
  /\ statusLog' = [statusLog EXCEPT ![change[s].agent] =
                     Append(@, [from |-> change[s].from, to |-> change[s].to])]
  /\ change' = [change EXCEPT ![s] = NoChange]
  /\ UNCHANGED <<account, member, joining, phone, registering, turns, unlogged, since, lastCall>>

\* A query rejects or the process dies; what was written stays.
ChangeFails(s) ==
  /\ change[s].agent # NoAgent
  /\ unlogged' = IF change[s].at = "log" THEN unlogged \cup {change[s].agent} ELSE unlogged
  /\ change' = [change EXCEPT ![s] = NoChange]
  /\ UNCHANGED <<account, statusLog, member, joining, phone, registering, turns, since, lastCall>>

\* login() and logout() of AuthService write no log.
SignInOrOut(u) ==
  /\ turns < MaxTurns /\ turns' = turns + 1
  /\ \E status \in {"ONLINE", "OFFLINE"} : account' = [account EXCEPT ![u].status = status]
  /\ unlogged' = unlogged \cup {u}
  /\ UNCHANGED <<statusLog, change, member, joining, phone, registering, since, lastCall>>

\* delete(), the only one who is let: the body of a PATCH that names isActive
\* is refused.  Nothing makes an account active again.
Deactivate(u) ==
  /\ account[u].active
  /\ account' = [account EXCEPT ![u].active = FALSE]
  /\ UNCHANGED <<statusLog, change, member, joining, phone, registering, turns, unlogged, since,
                 lastCall>>

-----------------------------------------------------------------------------
(* The members of a queue.                                                 *)

CheckMember(u) ==
  /\ account[u].active
  /\ joining' = joining \cup {u}
  /\ UNCHANGED <<account, statusLog, change, member, phone, registering, turns, unlogged, since, lastCall>>

\* The upsert ends the pause of a member.
AddMember(u) ==
  /\ u \in joining
  /\ joining' = joining \ {u}
  /\ member' \in {member, [member EXCEPT ![u] = "ready"]}   \* or the query rejects
  /\ UNCHANGED <<account, statusLog, change, phone, registering, turns, unlogged, since, lastCall>>

UpdateMember(u, paused) ==
  /\ member[u] # "no"
  /\ member' = [member EXCEPT ![u] = IF paused THEN "paused" ELSE "ready"]
  /\ UNCHANGED <<account, statusLog, change, joining, phone, registering, turns, unlogged, since, lastCall>>

RemoveMember(u) ==
  /\ member[u] # "no"
  /\ member' = [member EXCEPT ![u] = "no"]
  /\ UNCHANGED <<account, statusLog, change, joining, phone, registering, turns, unlogged, since, lastCall>>

-----------------------------------------------------------------------------
(* Softphones.  One session each; "ended" keeps it from the list.          *)

NoSession == [known |-> FALSE, ended |-> FALSE, registered |-> FALSE]

\* The extension, if one is named, is looked up first.
LookUpExtension(u) ==
  /\ registering' = registering \cup {u}
  /\ UNCHANGED <<account, statusLog, change, member, joining, phone, turns, unlogged, since, lastCall>>

RegisterSession(u) ==
  /\ u \in registering
  /\ registering' = registering \ {u}
  /\ phone' = [phone EXCEPT ![u] = [known |-> TRUE, ended |-> FALSE, registered |-> TRUE]]
  /\ lastCall' = [lastCall EXCEPT ![u] = "register"]
  /\ UNCHANGED <<account, statusLog, change, member, joining, turns, unlogged, since>>

\* updateMany: no row, no effect.  A late heartbeat marks an ended session as
\* registered again, and leaves it ended.
Heartbeat(u) ==
  /\ phone' = [phone EXCEPT ![u].registered = @ \/ phone[u].known]
  /\ UNCHANGED <<account, statusLog, change, member, joining, registering, turns, unlogged, since, lastCall>>

UnregisterSession(u) ==
  /\ phone[u].known
  /\ phone' = [phone EXCEPT ![u].ended = TRUE, ![u].registered = FALSE]
  /\ lastCall' = [lastCall EXCEPT ![u] = "unregister"]
  /\ UNCHANGED <<account, statusLog, change, member, joining, registering, turns, unlogged, since>>

ListedSessions == {u \in Agent : phone[u].known /\ ~ phone[u].ended}

AgentsInit ==
  /\ account = [u \in Agent |-> [active |-> u \in Employed, status |-> "OFFLINE"]]
  /\ statusLog = [u \in Agent |-> <<>>]
  /\ change = [s \in StatusChange |-> NoChange]
  /\ member = [u \in Agent |-> "no"]
  /\ phone = [u \in Agent |-> NoSession]
  /\ joining = {} /\ registering = {} /\ turns = 0
  /\ unlogged = {} /\ since = [u \in Agent |-> 0]
  /\ lastCall = [u \in Agent |-> "none"]

AgentsNext ==
  \/ \E s \in StatusChange :
       \/ \E u \in Employed, to \in AgentStatus : ReadStatus(s, u, to)
       \/ WriteStatus(s) \/ LogStatus(s) \/ ChangeFails(s)
  \/ \E u \in Agent :
       \/ Deactivate(u) \/ CheckMember(u) \/ AddMember(u) \/ RemoveMember(u)
       \/ \E paused \in BOOLEAN : UpdateMember(u, paused)
  \/ \E u \in Employed :
       \/ SignInOrOut(u)
       \/ LookUpExtension(u) \/ RegisterSession(u) \/ Heartbeat(u) \/ UnregisterSession(u)

AgentsSpec == AgentsInit /\ [][AgentsNext]_agentVars

AgentsTypeOK ==
  /\ account \in [Agent -> Account]
  /\ statusLog \in [Agent -> Seq([from : AgentStatus, to : AgentStatus])]
  /\ change \in [StatusChange -> [agent : Agent \cup {NoAgent}, at : {"read", "write", "log"},
                            from : AgentStatus, to : AgentStatus]]
  /\ \A s \in StatusChange : change[s].agent = NoAgent => change[s] = NoChange
  /\ member \in [Agent -> {"no", "ready", "paused"}]
  /\ joining \subseteq Agent /\ registering \subseteq Agent
  /\ phone \in [Agent -> [known : BOOLEAN, ended : BOOLEAN, registered : BOOLEAN]]
  /\ turns \in 0..MaxTurns
  /\ unlogged \subseteq Agent /\ since \in [Agent -> Nat]
  /\ lastCall \in [Agent -> {"none", "register", "unregister"}]
-----------------------------------------------------------------------------
\* Each change begins where the one before ended, and the last tells the status,
\* from the last change on that found the status unlogged.
Chained(u) ==
  LET log == statusLog[u] IN
  /\ \A i \in (since[u] + 2)..Len(log) : log[i].from = log[i - 1].to
  /\ ~ Engaged(u) /\ Len(log) > since[u] => account[u].status = log[Len(log)].to

(***************************************************************************)
(* The status log of an agent is a chain that ends in his status.  Changes *)
(* that overlap, one that fails before its entry, and a sign-in or sign-   *)
(* out break it, and the next change, unless it is overlapped, too, begins *)
(* it anew: nothing that happened before is an excuse from then on.        *)
(* Somebody who was deleted before is no member of a queue, although       *)
(* checking and adding are two steps, and a session is listed exactly if   *)
(* its last registration came after its last end: a late heartbeat revives *)
(* none.                                                                   *)
(***************************************************************************)
AgentsAreAccountedFor ==
  /\ \A u \in Agent \ unlogged : Chained(u)
  /\ \A u \in Agent : member[u] # "no" => u \in Employed
  /\ ListedSessions = {u \in Agent : lastCall[u] = "register"}
=============================================================================
