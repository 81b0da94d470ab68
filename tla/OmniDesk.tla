------------------------------- MODULE OmniDesk -------------------------------
(***************************************************************************)
(* The customer-service core: agents' requests (Conversations), inbound    *)
(* webhooks (WhatsappInbox) and automations (Automations) on one           *)
(* conversations table, connected by the event bus.  The listener of an    *)
(* event starts in the step that emits it; everything after its first      *)
(* await interleaves with whatever else the process is doing.              *)
(***************************************************************************)
EXTENDS Conversations, Automations

CONSTANTS
  Delivery, Webhook, Message, Batch, ToNumber, Sender, Registered, PhoneTaken,
  MaxTries

ASSUME OmniDeskAssumption ==
  /\ Delivery \subseteq Handler
  /\ Batch \in [Webhook -> Seq(Message)]
  /\ \A w \in Webhook :
       /\ Batch[w] # <<>>
       /\ \A i, j \in DOMAIN Batch[w] : Batch[w][i] = Batch[w][j] => i = j
  /\ ToNumber \in [Webhook -> Number]
  /\ Sender \in [Message -> Contact]
  /\ Registered \subseteq Number /\ PhoneTaken \subseteq Contact
  /\ MaxTries \in Nat \ {0}

VARIABLES dlv, known, tries, ended, stored, heard

Inbox == INSTANCE WhatsappInbox

inboxVars == <<dlv, known, tries, ended, stored, heard>>
deskVars  == <<conv, lookup, emitted, req, transfers, inboxVars, autoVars>>

DeskInit == StoreInit /\ ApiInit /\ AutoInit /\ Inbox!InboxInit

Requests    == /\ ApiStep
               /\ Listen(emitted')
               /\ UNCHANGED <<inboxVars, active>>

Deliveries  == /\ Inbox!InboxStep
               /\ Listen(emitted')
               /\ UNCHANGED <<apiVars, active>>

Automating  == AutoStep /\ UNCHANGED <<apiVars, inboxVars>>

\* One process runs all of it, so it dies and restarts as one.
Restart ==
  /\ req' = [r \in Request |-> Idle]
  /\ Inbox!InboxLost
  /\ run' = [u \in Run |-> Rest]
  /\ lookup' = [h \in Handler |-> None]
  /\ Silent
  /\ UNCHANGED <<conv, transfers, active>>

DeskNext == Requests \/ Deliveries \/ Automating \/ Restart
DeskSpec == DeskInit /\ [][DeskNext]_deskVars

(***************************************************************************)
(* Every query and every HTTP call of a run ends (axios has a timeout), so *)
(* a run that can go on does.                                              *)
(***************************************************************************)
Proceed(u) == RunStep(u) /\ UNCHANGED <<apiVars, inboxVars>>

FairDeskSpec == DeskSpec /\ \A u \in Run : WF_deskVars(Proceed(u))

DeskTypeOK == StoreTypeOK /\ ApiTypeOK /\ Inbox!InboxTypeOK /\ AutoTypeOK
-----------------------------------------------------------------------------
(***************************************************************************)
(* What the requests guarantee among themselves (Conversations) survives   *)
(* webhooks and automations, which write the same rows by queries of their *)
(* own: final statuses keep their stamps, a wait without a clock has its   *)
(* transfer, and a lookup misses only what came to match after it.         *)
(***************************************************************************)
DeskKeepsRules ==
  /\ DeskTypeOK
  /\ StampsMatch
  /\ UnclockedWaitIsTransferred
  /\ StaleOnlyByOverlap

(***************************************************************************)
(* Automations do not feed themselves: once no request and no delivery is  *)
(* being handled any more, the runs they caused come to an end, even when  *)
(* an automation closes conversations and another one runs on closing.     *)
(***************************************************************************)
OutsideQuiet == /\ \A r \in Request : req[r].at = "idle"
                /\ \A d \in Delivery : dlv[d].at = "idle"

AutomationsSettle == <>[]OutsideQuiet => <>[](\A u \in Run : run[u] = Rest)

(***************************************************************************)
(* Automations never leave a conversation in progress without an agent:    *)
(* with them too, only reopen() does.                                      *)
(***************************************************************************)
DeskOnlyReopenLeavesUnattended ==
  [][\A c \in Conversation :
       ~ Unattended(c) /\ Unattended(c)'
         => \E r \in Request : /\ req[r].op = "reopen" /\ req[r].conv = c
                               /\ req'[r] = Idle]_deskVars

(***************************************************************************)
(* A closed conversation comes back without reopen(), assign() or          *)
(* transfer() only through a run whose event was about it while it was     *)
(* open, or about its closing by an agent: the payload that conditions are *)
(* tested on is as old as the event, but never of a closed conversation.   *)
(***************************************************************************)
RevivedByRunOrAgent ==
  [][\A c \in Conversation :
       conv[c].status = "CLOSED" /\ conv'[c].status # "CLOSED" =>
         \/ \E r \in Request : req[r].conv = c /\ req[r].at = "write" /\ req'[r] = Idle
         \/ \E u \in Run :
              /\ run[u].conv = c /\ run[u].at = "act"
              /\ \/ run[u].status # "CLOSED"
                 \/ Trigger[Head(run[u].todo)] = "CONVERSATION_CLOSED"]_deskVars
=============================================================================
