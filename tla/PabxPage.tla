------------------------------ MODULE PabxPage ------------------------------
(***************************************************************************)
(* The PABX page: tabs with one list each, lists of choices and the        *)
(* diagnosis that are always there, all polled, and the saves, deletes and *)
(* the apply of the administrator, each of which invalidates every list    *)
(* when it is answered.  Of a list only its age is modelled: how many      *)
(* writes of this page the server had carried out when it was read.  What  *)
(* a form holds is the matter of CrudForm.                                 *)
(*                                                                         *)
(* React Query (external): a poll or a mount joins the fetch that is under *)
(* way; an invalidation starts the fetches of the mounted lists anew, but  *)
(* joins those that load for the first time and leaves hidden lists to     *)
(* their next mount.  An answer takes the mark of the invalidation away.   *)
(***************************************************************************)
EXTENDS Naturals

CONSTANTS
  Tab,            \* tabs with a list
  ReadOnly,       \* those without a form: recordings, softphone sessions
  Always,         \* the lists outside the tabs, the diagnosis among them
  Call,           \* slots of saves, deletes and applies
  MaxWrites       \* how many of them are made

ASSUME PabxPageAssumption ==
  ReadOnly \subseteq Tab /\ Tab \cap Always = {} /\ MaxWrites \in Nat

VARIABLES
  tab,            \* the open tab
  dialog,         \* whether its form is open
  list,           \* age and fetch of every list
  request,        \* the writes under way
  writes,         \* writes made so far
  carried,        \* writes the server has carried out
  told,           \* how many of them were, when one was last reported to the page
  excused         \* lists that may be older: see Invalidated

pageVars == <<tab, dialog, list, request, writes, carried, told, excused>>

List == Tab \cup Always
Shown == Always \cup {tab}

\* "read": the server has read the rows, at the age "seen".
ListState == [loaded : BOOLEAN, age : 0..MaxWrites, stale : BOOLEAN,
              fetch : {"no", "sent", "read"}, seen : 0..MaxWrites]

Unloaded == [loaded |-> FALSE, age |-> 0, stale |-> TRUE, fetch |-> "no", seen |-> 0]

Sent(l) == [l EXCEPT !.fetch = "sent", !.seen = 0]
Joined(l) == IF l.fetch = "no" THEN Sent(l) ELSE l
Restarted(l) == IF l.loaded THEN Sent(l) ELSE Joined(l)

-----------------------------------------------------------------------------
(* Lists.                                                                  *)

Poll(q) ==
  /\ q \in Shown
  /\ list' = [list EXCEPT ![q] = Joined(@)]
  /\ UNCHANGED <<tab, dialog, request, writes, carried, told, excused>>

\* The button "Atualizar" of the tab.
Refresh ==
  /\ ~ dialog
  /\ list' = [list EXCEPT ![tab] = Restarted(@)]
  /\ excused' = IF list[tab].loaded THEN excused \ {tab} ELSE excused
  /\ UNCHANGED <<tab, dialog, request, writes, carried, told>>

ReadRows(q) ==
  /\ list[q].fetch = "sent"
  /\ list' = [list EXCEPT ![q].fetch = "read", ![q].seen = carried]
  /\ UNCHANGED <<tab, dialog, request, writes, carried, told, excused>>

RowsArrive(q) ==
  /\ list[q].fetch = "read"
  /\ list' = [list EXCEPT ![q] = [loaded |-> TRUE, age |-> @.seen, stale |-> FALSE,
                                  fetch |-> "no", seen |-> 0]]
  /\ excused' = IF list[q].seen >= told THEN excused \ {q} ELSE excused
  /\ UNCHANGED <<tab, dialog, request, writes, carried, told>>

\* Twice: retry is 1.  The old rows stay on the page.
RowsFail(q) ==
  /\ list[q].fetch # "no"
  /\ list' = [list EXCEPT ![q].fetch = "no", ![q].seen = 0]
  /\ excused' = excused \cup {q}
  /\ UNCHANGED <<tab, dialog, request, writes, carried, told>>

\* A list that is mounted is fetched if it is stale, or older than thirty seconds.
\* The panel left behind and its form are gone; its request goes on.
OpenTab(t) ==
  /\ t # tab /\ ~ dialog
  /\ tab' = t
  /\ list' \in {[list EXCEPT ![t] = Joined(@)]} \cup (IF list[t].stale THEN {} ELSE {list})
  /\ request' = [c \in Call |-> IF request[c].kind = "apply" THEN request[c]
                                ELSE [request[c] EXCEPT !.here = FALSE]]
  /\ UNCHANGED <<dialog, writes, carried, told, excused>>

-----------------------------------------------------------------------------
(* Writes.                                                                 *)

\* "here": of the panel that is mounted now.
Idle == [kind |-> "none", at |-> "done", here |-> FALSE]

WriteState == [kind : {"none", "save", "delete", "apply"}, at : {"sent", "done", "failed"},
               here : BOOLEAN]

Pending(kind) == \E c \in Call : request[c].kind = kind /\ request[c].here

OpenDialog ==
  /\ tab \notin ReadOnly /\ ~ dialog
  /\ dialog' = TRUE
  /\ UNCHANGED <<tab, list, request, writes, carried, told, excused>>

CloseDialog ==
  /\ dialog
  /\ dialog' = FALSE
  /\ UNCHANGED <<tab, list, request, writes, carried, told, excused>>

Begins(kind) ==
  /\ writes < MaxWrites
  /\ writes' = writes + 1
  /\ \E c \in Call : /\ request[c] = Idle
                     /\ request' = [request EXCEPT ![c] = [kind |-> kind, at |-> "sent", here |-> TRUE]]
  /\ UNCHANGED <<tab, dialog, list, carried, told, excused>>

\* Both buttons wait for the answer to the click before.
PressSave  == dialog /\ ~ Pending("save") /\ Begins("save")
PressApply == ~ dialog /\ ~ Pending("apply") /\ Begins("apply")

\* These do not, and any row of the list has one.
PressDelete == tab \notin ReadOnly /\ ~ dialog /\ list[tab].loaded /\ Begins("delete")

CarryOut(c) ==
  /\ request[c].kind # "none" /\ request[c].at = "sent"
  /\ \/ /\ request' = [request EXCEPT ![c].at = "done"]
        /\ carried' = carried + 1
     \/ /\ request' = [request EXCEPT ![c].at = "failed"]
        /\ carried' \in {carried, carried + 1}    \* carried out and not answered in time
  /\ UNCHANGED <<tab, dialog, list, writes, told, excused>>

\* Faulty variant: the fetch that is under way will do.
InvalidatedJoining ==
  /\ list' = [q \in List |-> IF q \in Shown THEN Joined([list[q] EXCEPT !.stale = TRUE])
                                            ELSE [list[q] EXCEPT !.stale = TRUE]]
  /\ excused' = excused \cup {q \in List : list[q].fetch # "no" /\ (q \notin Shown \/ ~ list[q].loaded)}

Invalidated ==
  /\ list' = [q \in List |-> IF q \in Shown THEN Restarted([list[q] EXCEPT !.stale = TRUE])
                                            ELSE [list[q] EXCEPT !.stale = TRUE]]
  /\ excused' = excused \cup {q \in List : list[q].fetch # "no" /\ (q \notin Shown \/ ~ list[q].loaded)}

\* onSuccess and onError, which only writes a message.  Only a panel that is still
\* mounted has a form to close, whichever it is by now.
Answer(c) ==
  /\ request[c].kind # "none" /\ request[c].at # "sent"
  /\ request' = [request EXCEPT ![c] = Idle]
  /\ LET mine == request[c].kind = "save" /\ request[c].here IN
     IF request[c].at = "done"
       THEN /\ dialog' = (dialog /\ ~ mine)
            /\ told' = carried
            /\ Invalidated
       ELSE UNCHANGED <<dialog, told, list, excused>>
  /\ UNCHANGED <<tab, writes, carried>>

PageInit ==
  /\ tab \in Tab
  /\ dialog = FALSE
  /\ list = [q \in List |-> IF q \in Shown THEN Sent(Unloaded) ELSE Unloaded]
  /\ request = [c \in Call |-> Idle]
  /\ writes = 0 /\ carried = 0 /\ told = 0
  /\ excused = {}

PageNext ==
  \/ \E q \in List : Poll(q) \/ ReadRows(q) \/ RowsArrive(q) \/ RowsFail(q)
  \/ Refresh
  \/ \E t \in Tab : OpenTab(t)
  \/ OpenDialog \/ CloseDialog
  \/ PressSave \/ PressDelete \/ PressApply
  \/ \E c \in Call : CarryOut(c) \/ Answer(c)

PageSpec == PageInit /\ [][PageNext]_pageVars

PageTypeOK ==
  /\ tab \in Tab
  /\ dialog \in BOOLEAN
  /\ list \in [List -> ListState]
  /\ request \in [Call -> WriteState]
  /\ writes \in 0..MaxWrites /\ carried \in 0..writes /\ told \in 0..carried
  /\ excused \subseteq List
-----------------------------------------------------------------------------
(***************************************************************************)
(* Once the page has reported a write, no list that it shows goes back to  *)
(* before it: polls that were under way are not mistaken for the refetch.  *)
(* Except for a failed fetch, only a list that was being loaded for the    *)
(* first time, or behind another tab, may miss it, until its next fetch.   *)
(***************************************************************************)
OwnWritesShow ==
  \A q \in Shown :
    list[q].loaded /\ list[q].fetch = "no" => list[q].age >= told \/ q \in excused
=============================================================================
