------------------------------ MODULE Presence ------------------------------
(***************************************************************************)
(* OmniGateway's record of who is online, and the conversation rooms that  *)
(* browser tabs join, with the socket store of the frontend on the other   *)
(* side.  socket.io is external: a client whose connection breaks gets a   *)
(* new socket when it reconnects, while the server may take the old one    *)
(* for alive until its ping times out; what a client emits meanwhile is    *)
(* kept and sent, in order, on the next connection.                        *)
(***************************************************************************)
EXTENDS Naturals, Sequences

CONSTANTS
  User,
  Tab,            \* browser tabs showing the service desk
  Owner,          \* [Tab -> the user signed in there]
  Socket,         \* server-side sockets, by client.id
  Conversation,
  MaxUnsent,      \* emits a tab may have under way; bounds the model only
  None

ASSUME PresenceAssumption ==
  /\ Owner \in [Tab -> User]
  /\ None \notin User \cup Tab \cup Socket \cup Conversation

VARIABLES
  peer,           \* server: the tab at the other end of each socket, or None
  connectedUsers, \* server: Map userId -> socketId
  rooms,          \* server: the conversation rooms each socket is in
  link,           \* client: the socket each tab is connected by, or None
  selected,       \* client: selectedConvId of each tab
  unsent,         \* client: joins and leaves under way to the server
  shadowed        \* sockets that outlived another socket of their user

vars == <<peer, connectedUsers, rooms, link, selected, unsent, shadowed>>

Emit == {"join", "leave"} \X Conversation

TypeOK ==
  /\ peer \in [Socket -> Tab \cup {None}]
  /\ connectedUsers \in [User -> Socket \cup {None}]
  /\ rooms \in [Socket -> SUBSET Conversation]
  /\ link \in [Tab -> Socket \cup {None}]
  /\ selected \in [Tab -> Conversation \cup {None}]
  /\ unsent \in [Tab -> Seq(Emit)]
  /\ shadowed \subseteq Socket

Init ==
  /\ peer = [s \in Socket |-> None]
  /\ connectedUsers = [u \in User |-> None]
  /\ rooms = [s \in Socket |-> {}]
  /\ link = [t \in Tab |-> None]
  /\ selected = [t \in Tab |-> None]
  /\ unsent = [t \in Tab |-> <<>>]
  /\ shadowed = {}

Alive(s) == peer[s] # None           \* as far as the server knows
UserOf(s) == Owner[peer[s]]

-----------------------------------------------------------------------------
(* The gateway                                                             *)

\* Faulty variants: the map gets the wrong id; gets nothing.
ListsTab(t, s) == connectedUsers' = [connectedUsers EXCEPT ![Owner[t]] = t]
ListsNobody(t, s) == UNCHANGED connectedUsers

Lists(t, s) == connectedUsers' = [connectedUsers EXCEPT ![Owner[t]] = s]

\* handleConnection() with a token that verifies; one that does not leaves
\* nothing behind.  The client has its socket from here on.
Connect(t, s) ==
  /\ link[t] = None
  /\ ~ Alive(s)
  /\ peer' = [peer EXCEPT ![s] = t]
  /\ link' = [link EXCEPT ![t] = s]
  /\ Lists(t, s)
  /\ UNCHANGED <<rooms, selected, unsent, shadowed>>

\* Faulty variant: the entry of the user stays.
StaysListed(s) == UNCHANGED connectedUsers

Unlists(s) == connectedUsers' = [connectedUsers EXCEPT ![UserOf(s)] = None]

\* handleDisconnect(), once the server notices: the user is deleted from the
\* map whichever socket it was.
Disconnect(s) ==
  /\ Alive(s)
  /\ link[peer[s]] # s
  /\ peer' = [peer EXCEPT ![s] = None]
  /\ rooms' = [rooms EXCEPT ![s] = {}]
  /\ Unlists(s)
  /\ shadowed' = (shadowed \ {s})
       \cup {x \in Socket \ {s} : Alive(x) /\ UserOf(x) = UserOf(s)}
  /\ UNCHANGED <<link, selected, unsent>>

\* handleJoinConversation() or handleLeaveConversation(), for the oldest emit.
Arrive(t) ==
  LET s == link[t]
      e == Head(unsent[t])
  IN
  /\ s # None /\ unsent[t] # <<>>
  /\ unsent' = [unsent EXCEPT ![t] = Tail(@)]
  /\ rooms' = [rooms EXCEPT ![s] = IF e[1] = "join" THEN @ \cup {e[2]} ELSE @ \ {e[2]}]
  /\ UNCHANGED <<peer, connectedUsers, link, selected, shadowed>>

-----------------------------------------------------------------------------
(* The tab                                                                 *)

\* The connection breaks: emits on their way are lost, the server has not
\* noticed yet, and nothing will be emitted again when the tab reconnects.
Break(t) ==
  /\ link[t] # None
  /\ link' = [link EXCEPT ![t] = None]
  /\ unsent' = [unsent EXCEPT ![t] = <<>>]
  /\ UNCHANGED <<peer, connectedUsers, rooms, selected, shadowed>>

\* Faulty variant: the old room is not left.
JoinsOnly(sent, old, new) == sent \o IF new = None THEN <<>> ELSE << <<"join", new>> >>

\* The effect of the page emits twice when the selection goes from old to new.
Moves(sent, old, new) ==
  sent \o (IF old = None THEN <<>> ELSE << <<"leave", old>> >>)
       \o (IF new = None THEN <<>> ELSE << <<"join", new>> >>)

\* selectedConvId changes: the effect of the page leaves the old one, joins the new.
Select(t, c) ==
  /\ selected[t] # c
  /\ Len(Moves(unsent[t], selected[t], c)) <= MaxUnsent
  /\ selected' = [selected EXCEPT ![t] = c]
  /\ unsent' = [unsent EXCEPT ![t] = Moves(@, selected[t], c)]
  /\ UNCHANGED <<peer, connectedUsers, rooms, link, shadowed>>

\* The tab gets another access token: the layout drops its socket for a new one,
\* and the effect, which depends on the socket as well, cleans up and runs again.
\* By then the store has the new socket: both emits wait for it to connect.
Renew(t) ==
  /\ link' = [link EXCEPT ![t] = None]
  /\ unsent' = [unsent EXCEPT ![t] = Moves(<<>>, selected[t], selected[t])]
  /\ UNCHANGED <<peer, connectedUsers, rooms, selected, shadowed>>

\* The backend process dies: every client sees its connection break.
Restart ==
  /\ peer' = [s \in Socket |-> None]
  /\ connectedUsers' = [u \in User |-> None]
  /\ rooms' = [s \in Socket |-> {}]
  /\ link' = [t \in Tab |-> None]
  /\ unsent' = [t \in Tab |-> IF link[t] = None THEN unsent[t] ELSE <<>>]
  /\ shadowed' = {}
  /\ UNCHANGED selected

Next ==
  \/ \E t \in Tab, s \in Socket : Connect(t, s)
  \/ \E s \in Socket : Disconnect(s)
  \/ \E t \in Tab : Arrive(t) \/ Break(t) \/ Renew(t)
  \/ \E t \in Tab, c \in Conversation \cup {None} : Select(t, c)
  \/ Restart

Spec == Init /\ [][Next]_vars
-----------------------------------------------------------------------------
ListedIsConnected ==
  \A u \in User :
    connectedUsers[u] # None =>
      Alive(connectedUsers[u]) /\ UserOf(connectedUsers[u]) = u

UnlistedIsShadowed ==
  \A s \in Socket :
    Alive(s) /\ connectedUsers[UserOf(s)] = None => s \in shadowed

(***************************************************************************)
(* The map of online users names living sockets of the right users, across *)
(* reconnections that overlap the socket they replace; and a user with a   *)
(* connection is in it, unless another socket of that user was             *)
(* disconnected since the connection was made: the only way to drop out is *)
(* a second tab or a reconnection.                                         *)
(***************************************************************************)
ListFollowsSockets == ListedIsConnected /\ UnlistedIsShadowed

(***************************************************************************)
(* A tab whose emits have all arrived is in no other conversation's room   *)
(* than the one it shows, whatever connections broke or were replaced in   *)
(* between.                                                                *)
(***************************************************************************)
NoForeignRoom ==
  \A t \in Tab :
    link[t] # None /\ unsent[t] = <<>> => rooms[link[t]] \subseteq {selected[t]}
=============================================================================
