-------------------------- MODULE Presence_proofs --------------------------
(***************************************************************************)
(* Proofs about Presence for any number of users, tabs, sockets and        *)
(* conversations.                                                          *)
(***************************************************************************)
EXTENDS Presence, TLAPS

LEMMA MovesType ==
  ASSUME NEW u \in Seq(Emit), NEW a \in Conversation \cup {None}, NEW b \in Conversation \cup {None}
  PROVE  Moves(u, a, b) \in Seq(Emit)
<1> DEFINE old == IF a = None THEN <<>> ELSE <<<<"leave", a>>>>
           new == IF b = None THEN <<>> ELSE <<<<"join", b>>>>
<1>1. old \in Seq(Emit) /\ new \in Seq(Emit)
  <2>1. a # None => <<"leave", a>> \in Emit
    BY DEF Emit
  <2>2. b # None => <<"join", b>> \in Emit
    BY DEF Emit
  <2>3. ASSUME NEW e \in Emit PROVE <<e>> \in Seq(Emit)
    OBVIOUS
  <2> QED
    BY <2>1, <2>2, <2>3
<1>2. Moves(u, a, b) = u \o old \o new
  BY DEF Moves
<1> QED
  <2> HIDE DEF old, new
  <2> QED
    BY <1>1, <1>2

\* Every action of gateway and tabs keeps the variables typed.
LEMMA TypeStep == TypeOK /\ [Next]_vars => TypeOK'
<1> USE PresenceAssumption DEF TypeOK
<1> SUFFICES ASSUME TypeOK, [Next]_vars PROVE TypeOK'
  OBVIOUS
<1>1. ASSUME NEW t \in Tab, NEW s \in Socket, Connect(t, s) PROVE TypeOK'
  BY <1>1 DEF Connect, Lists
<1>2. ASSUME NEW s \in Socket, Disconnect(s) PROVE TypeOK'
  BY <1>2 DEF Disconnect, Unlists
<1>3. ASSUME NEW t \in Tab, Arrive(t) PROVE TypeOK'
  <2>1. /\ link[t] \in Socket
        /\ Head(unsent[t]) \in Emit /\ Tail(unsent[t]) \in Seq(Emit)
    BY <1>3 DEF Arrive
  <2>2. Head(unsent[t])[2] \in Conversation
    BY <2>1 DEF Emit
  <2> QED
    BY <1>3, <2>1, <2>2 DEF Arrive
<1>4. ASSUME NEW t \in Tab, Break(t) PROVE TypeOK'
  BY <1>4 DEF Break
<1>5. ASSUME NEW t \in Tab, NEW c \in Conversation \cup {None}, Select(t, c) PROVE TypeOK'
  BY <1>5, MovesType DEF Select
<1>8. ASSUME NEW t \in Tab, Renew(t) PROVE TypeOK'
  <2>1. <<>> \in Seq(Emit)
    OBVIOUS
  <2> QED
    BY <1>8, <2>1, MovesType DEF Renew
<1>6. CASE Restart
  BY <1>6 DEF Restart
<1>7. CASE UNCHANGED vars
  BY <1>7 DEF vars
<1> QED
  BY <1>1, <1>2, <1>3, <1>4, <1>5, <1>6, <1>7, <1>8 DEF Next

\* The server's sockets and rooms and the clients' links keep their types.
THEOREM TypeCorrect == Spec => []TypeOK
<1>1. Init => TypeOK
  BY PresenceAssumption DEF Init, TypeOK
<1> QED
  BY <1>1, TypeStep, PTL DEF Spec

-----------------------------------------------------------------------------
(* The map of online users                                                 *)

OnlineInv == TypeOK /\ ListedIsConnected /\ UnlistedIsShadowed

LEMMA OnlineStep == OnlineInv /\ [Next]_vars => OnlineInv'
<1> USE PresenceAssumption DEF OnlineInv, TypeOK, ListedIsConnected, UnlistedIsShadowed,
                               Alive, UserOf
<1> SUFFICES ASSUME OnlineInv, [Next]_vars, TypeOK' PROVE OnlineInv'
  BY TypeStep
<1>1. ASSUME NEW t \in Tab, NEW s \in Socket, Connect(t, s) PROVE OnlineInv'
  <2>1. ListedIsConnected'
    BY <1>1 DEF Connect, Lists
  <2>2. UnlistedIsShadowed'
    BY <1>1 DEF Connect, Lists
  <2> QED
    BY <2>1, <2>2
<1>2. ASSUME NEW s \in Socket, Disconnect(s) PROVE OnlineInv'
  <2>1. ListedIsConnected'
    BY <1>2 DEF Disconnect, Unlists
  <2>2. UnlistedIsShadowed'
    BY <1>2 DEF Disconnect, Unlists
  <2> QED
    BY <2>1, <2>2
<1>3. ASSUME UNCHANGED <<peer, connectedUsers, shadowed>> PROVE OnlineInv'
  BY <1>3
<1>4. CASE Restart
  BY <1>4 DEF Restart
<1> QED
  BY <1>1, <1>2, <1>3, <1>4 DEF Next, Arrive, Break, Renew, Select, Moves, vars

LEMMA OnlineHolds == Spec => []OnlineInv
<1>1. Init => OnlineInv
  BY PresenceAssumption
     DEF Init, OnlineInv, TypeOK, ListedIsConnected, UnlistedIsShadowed, Alive
<1> QED
  BY <1>1, OnlineStep, PTL DEF Spec

\* getOnlineUsers() names only users that have a living socket, and a connected
\* user leaves the list only when another socket of theirs ends.
THEOREM ListsFollowSockets == Spec => []ListFollowsSockets
<1>1. OnlineInv => ListFollowsSockets
  BY DEF OnlineInv, ListFollowsSockets
<1> QED
  BY <1>1, OnlineHolds, PTL

-----------------------------------------------------------------------------
(* The rooms of a tab                                                      *)

\* A leave of c is under way to the server, and no join of it after that.
Leaving(t, c) ==
  \E i \in DOMAIN unsent[t] :
    /\ unsent[t][i] = <<"leave", c>>
    /\ \A j \in DOMAIN unsent[t] : j > i => unsent[t][j] # <<"join", c>>

\* The socket of the tab is in the room of c, or is on its way into it.
Bound(t, c) ==
  \/ link[t] # None /\ c \in rooms[link[t]]
  \/ \E i \in DOMAIN unsent[t] : unsent[t][i] = <<"join", c>>

LinksAlive == \A t \in Tab : link[t] # None => peer[link[t]] = t

DeadInNoRoom == \A s \in Socket : peer[s] = None => rooms[s] = {}

WillLeave ==
  \A t \in Tab, c \in Conversation :
    c # selected[t] /\ Bound(t, c) => Leaving(t, c)

RoomInv == TypeOK /\ LinksAlive /\ DeadInNoRoom /\ WillLeave /\ NoForeignRoom

LEMMA Emits ==
  /\ \A c, d \in Conversation : <<"leave", c>> # <<"join", d>>
  /\ \A e \in Emit : /\ e[1] = "join" => e = <<"join", e[2]>>
                     /\ e[1] # "join" => e = <<"leave", e[2]>>
                     /\ e[2] \in Conversation
BY DEF Emit

LEMMA Tails ==
  ASSUME NEW u \in Seq(Emit), u # <<>>
  PROVE  /\ Len(u) \in Nat /\ Len(u) >= 1 /\ DOMAIN u = 1..Len(u)
         /\ DOMAIN Tail(u) = 1..(Len(u) - 1)
         /\ \A i \in 1..(Len(u) - 1) : Tail(u)[i] = u[i + 1]
         /\ Head(u) = u[1] /\ Head(u) \in Emit
OBVIOUS

LEMMA WillLeaveArrive ==
  ASSUME RoomInv, TypeOK', NEW t \in Tab, Arrive(t) PROVE WillLeave'
<1> DEFINE u == unsent[t]
           s == link[t]
           e == Head(u)
           w == Tail(u)
           n == Len(u)
<1>1. /\ s \in Socket /\ s # None
      /\ unsent' = [unsent EXCEPT ![t] = w]
      /\ rooms' = [rooms EXCEPT ![s] = IF e[1] = "join" THEN rooms[s] \cup {e[2]}
                                                       ELSE rooms[s] \ {e[2]}]
      /\ link' = link /\ selected' = selected
      /\ rooms \in [Socket -> SUBSET Conversation] /\ unsent \in [Tab -> Seq(Emit)]
      /\ link \in [Tab -> Socket \cup {None}]
  BY PresenceAssumption DEF Arrive, RoomInv, TypeOK
<1>2. /\ n \in Nat /\ n >= 1 /\ DOMAIN u = 1..n /\ DOMAIN w = 1..(n - 1)
      /\ \A i \in 1..(n - 1) : w[i] = u[i + 1]
      /\ e = u[1] /\ e \in Emit
  BY Tails DEF Arrive, RoomInv, TypeOK
<1> SUFFICES ASSUME NEW v \in Tab, NEW c \in Conversation,
                    c # selected[v], Bound(v, c)'
             PROVE  Leaving(v, c)'
  BY <1>1 DEF WillLeave
<1> HIDE DEF u, s, e, w, n
<1>3. CASE v # t
  <2>1. unsent'[v] = unsent[v] /\ link'[v] = link[v]
    BY <1>1, <1>3
  <2>2. link[v] # None => link[v] # s /\ rooms'[link[v]] = rooms[link[v]]
    BY <1>1, <1>3 DEF LinksAlive, RoomInv, s
  <2>3. Bound(v, c)
    BY <2>1, <2>2 DEF Bound
  <2>4. Leaving(v, c)
    BY <2>3 DEF WillLeave, RoomInv
  <2> QED
    BY <2>1, <2>4 DEF Leaving
<1>4. CASE v = t
  <2>0. /\ e[1] = "join" => e = <<"join", e[2]>> /\ e # <<"leave", c>>
        /\ <<"leave", c>> # <<"join", c>>
    BY <1>2, Emits
  <2>1. unsent'[t] = w /\ link'[t] = s
    BY <1>1 DEF s
  <2>2. \/ c \in rooms[s] /\ e # <<"leave", c>>
        \/ \E i \in 1..n : u[i] = <<"join", c>>
    <3>1. CASE c \in rooms'[s]
      <4>1. CASE e[1] = "join"
        <5>1. e = <<"join", e[2]>> /\ rooms'[s] = rooms[s] \cup {e[2]}
          BY <1>1, <2>0, <4>1
        <5>2. CASE c = e[2]
          BY <1>2, <5>1, <5>2
        <5>3. CASE c \in rooms[s]
          BY <2>0, <4>1, <5>3
        <5> QED
          BY <3>1, <5>1, <5>2, <5>3
      <4>2. CASE e[1] # "join"
        <5>1. c \in rooms[s] /\ c # e[2]
          BY <1>1, <3>1, <4>2
        <5>2. e # <<"leave", c>>
          BY <5>1
        <5> QED
          BY <5>1, <5>2
      <4> QED
        BY <4>1, <4>2
    <3>2. CASE \E i \in 1..(n - 1) : w[i] = <<"join", c>>
      BY <1>2, <3>2
    <3>3. c \in rooms'[s] \/ \E i \in 1..(n - 1) : w[i] = <<"join", c>>
      BY <1>1, <1>2, <1>4, <2>1 DEF Bound
    <3> QED
      BY <3>1, <3>2, <3>3
  <2>3. Bound(t, c)
    BY <1>1, <1>2, <2>2 DEF Bound, s, u
  <2>4. PICK i \in 1..n : /\ u[i] = <<"leave", c>>
                          /\ \A j \in 1..n : j > i => u[j] # <<"join", c>>
    <3>1. Leaving(t, c)
      BY <1>4, <2>3 DEF WillLeave, RoomInv
    <3> QED
      BY <1>2, <3>1 DEF Leaving, u
  <2>5. i # 1
    <3> SUFFICES ASSUME i = 1 PROVE FALSE
      OBVIOUS
    <3>1. e = <<"leave", c>>
      BY <1>2, <2>4
    <3>2. PICK k \in 1..n : u[k] = <<"join", c>>
      BY <2>2, <3>1
    <3>3. k > 1
      <4>1. k # 1
        <5> SUFFICES ASSUME k = 1 PROVE <<"leave", c>> = <<"join", c>>
          BY <2>0
        <5> QED
          BY <1>2, <3>1, <3>2
      <4> QED
        BY <1>2, <4>1
    <3> QED
      BY <2>4, <3>2, <3>3
  <2>6. /\ i - 1 \in 1..(n - 1) /\ w[i - 1] = <<"leave", c>>
        /\ \A j \in 1..(n - 1) : j > i - 1 => w[j] # <<"join", c>>
    <3>1. i - 1 \in 1..(n - 1) /\ (i - 1) + 1 = i
      BY <1>2, <2>5
    <3>2. \A j \in 1..(n - 1) : j > i - 1 => j + 1 \in 1..n /\ j + 1 > i
      BY <1>2
    <3> QED
      BY <1>2, <2>4, <3>1, <3>2
  <2> QED
    BY <1>2, <1>4, <2>1, <2>6 DEF Leaving
<1> QED
  BY <1>3, <1>4

LEMMA WillLeaveSelect ==
  ASSUME RoomInv, TypeOK', NEW t \in Tab, NEW c0 \in Conversation \cup {None}, Select(t, c0)
  PROVE  WillLeave'
<1> DEFINE u == unsent[t]
           n == Len(u)
           old == IF selected[t] = None THEN <<>> ELSE <<<<"leave", selected[t]>>>>
           new == IF c0 = None THEN <<>> ELSE <<<<"join", c0>>>>
           w == u \o old \o new
<1>1. /\ unsent' = [unsent EXCEPT ![t] = w] /\ selected' = [selected EXCEPT ![t] = c0]
      /\ rooms' = rooms /\ link' = link
      /\ unsent \in [Tab -> Seq(Emit)] /\ selected \in [Tab -> Conversation \cup {None}]
      /\ c0 # selected[t]
  BY DEF Select, Moves, RoomInv, TypeOK
<1>2. /\ n \in Nat /\ DOMAIN u = 1..n /\ DOMAIN w = 1..(n + Len(old) + Len(new))
      /\ \A i \in 1..n : w[i] = u[i]
      /\ Len(old) \in {0, 1} /\ Len(new) \in {0, 1}
      /\ \A i \in DOMAIN w : i > n =>
           \/ w[i] = <<"leave", selected[t]>> /\ selected[t] # None
           \/ w[i] = <<"join", c0>> /\ c0 # None
      /\ selected[t] # None => Len(old) = 1 /\ w[n + 1] = <<"leave", selected[t]>>
  <2>1. u \in Seq(Emit)
    BY <1>1
  <2>2. CASE selected[t] = None /\ c0 = None
    BY <2>1, <2>2
  <2>3. CASE selected[t] # None /\ c0 = None
    BY <2>1, <2>3
  <2>4. CASE selected[t] = None /\ c0 # None
    BY <2>1, <2>4
  <2>5. CASE selected[t] # None /\ c0 # None
    BY <2>1, <2>5
  <2> QED
    BY <2>2, <2>3, <2>4, <2>5
<1> SUFFICES ASSUME NEW v \in Tab, NEW c \in Conversation,
                    c # selected'[v], Bound(v, c)'
             PROVE  Leaving(v, c)'
  BY DEF WillLeave
<1> HIDE DEF u, n, old, new, w
<1>3. CASE v # t
  <2>1. unsent'[v] = unsent[v] /\ selected'[v] = selected[v]
    BY <1>1, <1>3
  <2>2. Bound(v, c)
    BY <1>1, <2>1 DEF Bound
  <2>3. Leaving(v, c)
    BY <2>1, <2>2 DEF WillLeave, RoomInv
  <2> QED
    BY <2>1, <2>3 DEF Leaving
<1>4. CASE v = t
  <2>1. unsent'[t] = w /\ c # c0
    BY <1>1, <1>4
  <2>2. \A i \in DOMAIN w : i > n => w[i] # <<"join", c>>
    <3>1. c # None /\ (c0 # None => <<"join", c0>> # <<"join", c>>)
      BY PresenceAssumption, <2>1
    <3>2. selected[t] # None => <<"leave", selected[t]>> # <<"join", c>>
      BY <1>1, Emits
    <3> QED
      BY <1>2, <3>1, <3>2
  <2>3. CASE c = selected[t]
    <3>1. n + 1 \in DOMAIN w /\ w[n + 1] = <<"leave", c>>
      <4>1. selected[t] # None
        BY PresenceAssumption, <2>3
      <4>2. Len(old) = 1 /\ w[n + 1] = <<"leave", c>>
        BY <1>2, <2>3, <4>1
      <4>3. n + 1 \in 1..(n + Len(old) + Len(new))
        BY <1>2, <4>2
      <4> QED
        BY <1>2, <4>2, <4>3
    <3>2. \A j \in DOMAIN w : j > n + 1 => w[j] # <<"join", c>>
      BY <1>2, <2>2
    <3> QED
      BY <1>4, <2>1, <3>1, <3>2 DEF Leaving
  <2>4. CASE c # selected[t]
    <3>1. Bound(t, c)
      <4>1. CASE link'[t] # None /\ c \in rooms'[link'[t]]
        BY <1>1, <4>1 DEF Bound
      <4>2. CASE \E i \in DOMAIN w : w[i] = <<"join", c>>
        <5>1. PICK i \in 1..n : u[i] = <<"join", c>>
          BY <1>2, <2>2, <4>2
        <5> QED
          BY <1>2, <5>1 DEF Bound, u
      <4> QED
        BY <1>4, <2>1, <4>1, <4>2 DEF Bound
    <3>2. Leaving(t, c)
      BY <2>4, <3>1 DEF WillLeave, RoomInv
    <3>3. PICK i \in 1..n : /\ u[i] = <<"leave", c>>
                            /\ \A j \in 1..n : j > i => u[j] # <<"join", c>>
      BY <1>2, <3>2 DEF Leaving, u
    <3>4. i \in DOMAIN w /\ w[i] = <<"leave", c>>
      BY <1>2, <3>3
    <3>5. \A j \in DOMAIN w : j > i => w[j] # <<"join", c>>
      BY <1>2, <2>2, <3>3
    <3> QED
      BY <1>4, <2>1, <3>4, <3>5 DEF Leaving
  <2> QED
    BY <2>3, <2>4
<1> QED
  BY <1>3, <1>4

LEMMA TwoEmits ==
  ASSUME NEW x \in Emit, NEW y \in Emit, NEW k \in DOMAIN (<<>> \o <<x>> \o <<y>>)
  PROVE  (<<>> \o <<x>> \o <<y>>)[k] \in {x, y}
OBVIOUS

LEMMA StillLeaving ==
  ASSUME RoomInv, NEW v \in Tab, NEW c \in Conversation, c # selected'[v], Bound(v, c),
         selected'[v] = selected[v], unsent'[v] = unsent[v]
  PROVE  Leaving(v, c)'
<1>1. Leaving(v, c)
  BY DEF WillLeave, RoomInv
<1> QED
  BY <1>1 DEF Leaving

LEMMA RoomStep == RoomInv /\ [Next]_vars => RoomInv'
<1> USE PresenceAssumption DEF TypeOK
<1> SUFFICES ASSUME RoomInv, [Next]_vars, TypeOK' PROVE RoomInv'
  BY TypeStep DEF RoomInv
<1>1. LinksAlive' /\ DeadInNoRoom' /\ WillLeave'
  <2>1. ASSUME NEW t \in Tab, NEW s \in Socket, Connect(t, s)
        PROVE  LinksAlive' /\ DeadInNoRoom' /\ WillLeave'
    <3>1. rooms[s] = {} /\ link' = [link EXCEPT ![t] = s] /\ peer' = [peer EXCEPT ![s] = t]
          /\ UNCHANGED <<rooms, selected, unsent>> /\ peer[s] = None
      BY <2>1 DEF Connect, Lists, Alive, DeadInNoRoom, RoomInv
    <3>2. LinksAlive' /\ DeadInNoRoom'
      BY <3>1 DEF LinksAlive, DeadInNoRoom, RoomInv
    <3>3. ASSUME NEW v \in Tab, NEW c \in Conversation, c # selected'[v], Bound(v, c)'
          PROVE  Leaving(v, c)'
      <4>1. Bound(v, c)
        BY <3>1, <3>3 DEF Bound, RoomInv
      <4> QED
        BY <3>1, <3>3, <4>1, StillLeaving
    <3> QED
      BY <3>2, <3>3 DEF WillLeave
  <2>2. ASSUME NEW s \in Socket, Disconnect(s)
        PROVE  LinksAlive' /\ DeadInNoRoom' /\ WillLeave'
    <3>1. /\ peer' = [peer EXCEPT ![s] = None] /\ rooms' = [rooms EXCEPT ![s] = {}]
          /\ UNCHANGED <<link, selected, unsent>>
          /\ \A t \in Tab : link[t] # s
      BY <2>2 DEF Disconnect, Unlists, Alive, LinksAlive, RoomInv
    <3>2. LinksAlive' /\ DeadInNoRoom'
      BY <3>1 DEF LinksAlive, DeadInNoRoom, RoomInv
    <3>3. ASSUME NEW v \in Tab, NEW c \in Conversation, c # selected'[v], Bound(v, c)'
          PROVE  Leaving(v, c)'
      <4>1. Bound(v, c)
        BY <3>1, <3>3 DEF Bound, RoomInv
      <4> QED
        BY <3>1, <3>3, <4>1, StillLeaving
    <3> QED
      BY <3>2, <3>3 DEF WillLeave
  <2>3. ASSUME NEW t \in Tab, Arrive(t)
        PROVE  LinksAlive' /\ DeadInNoRoom' /\ WillLeave'
    <3>1. LinksAlive' /\ DeadInNoRoom'
      BY <2>3 DEF Arrive, LinksAlive, DeadInNoRoom, RoomInv
    <3> QED
      BY <2>3, <3>1, WillLeaveArrive
  <2>4. ASSUME NEW t \in Tab, Break(t)
        PROVE  LinksAlive' /\ DeadInNoRoom' /\ WillLeave'
    <3>1. /\ link' = [link EXCEPT ![t] = None] /\ unsent' = [unsent EXCEPT ![t] = <<>>]
          /\ UNCHANGED <<peer, rooms, selected>>
      BY <2>4 DEF Break
    <3>2. LinksAlive' /\ DeadInNoRoom'
      BY <3>1 DEF LinksAlive, DeadInNoRoom, RoomInv
    <3>3. ASSUME NEW v \in Tab, NEW c \in Conversation, c # selected'[v], Bound(v, c)'
          PROVE  Leaving(v, c)'
      <4>1. v # t
        BY <3>1, <3>3 DEF Bound, RoomInv
      <4>2. Bound(v, c)
        BY <3>1, <3>3, <4>1 DEF Bound, RoomInv
      <4> QED
        BY <3>1, <3>3, <4>1, <4>2, StillLeaving DEF RoomInv
    <3> QED
      BY <3>2, <3>3 DEF WillLeave
  <2>5. ASSUME NEW t \in Tab, NEW c \in Conversation \cup {None}, Select(t, c)
        PROVE  LinksAlive' /\ DeadInNoRoom' /\ WillLeave'
    <3>1. LinksAlive' /\ DeadInNoRoom'
      BY <2>5 DEF Select, Moves, LinksAlive, DeadInNoRoom, RoomInv
    <3> QED
      BY <2>5, <3>1, WillLeaveSelect
  <2>8. ASSUME NEW t \in Tab, Renew(t)
        PROVE  LinksAlive' /\ DeadInNoRoom' /\ WillLeave'
    <3>1. /\ link' = [link EXCEPT ![t] = None] /\ UNCHANGED <<peer, rooms, selected>>
          /\ unsent' = [unsent EXCEPT ![t] = Moves(<<>>, selected[t], selected[t])]
      BY <2>8 DEF Renew
    <3>2. LinksAlive' /\ DeadInNoRoom'
      BY <3>1 DEF LinksAlive, DeadInNoRoom, RoomInv
    <3>3. ASSUME NEW v \in Tab, NEW c \in Conversation, c # selected'[v], Bound(v, c)'
          PROVE  Leaving(v, c)'
      <4>1. CASE v = t
        <5>1. link'[t] = None /\ unsent'[t] = Moves(<<>>, selected[t], selected[t])
              /\ selected' = selected
          BY <3>1 DEF RoomInv
        <5>2. ASSUME NEW i \in DOMAIN unsent'[t] PROVE unsent'[t][i] # <<"join", c>>
          <6>1. selected[t] # None
            <7>1. <<>> \o <<>> \o <<>> = <<>> /\ DOMAIN <<>> = {}
              OBVIOUS
            <7>2. selected[t] = None => unsent'[t] = <<>> \o <<>> \o <<>>
              BY <5>1, Zenon DEF Moves
            <7> QED
              BY <5>2, <7>1, <7>2
          <6>2. <<"leave", selected[t]>> \in Emit /\ <<"join", selected[t]>> \in Emit
            BY <6>1 DEF Emit, RoomInv
          <6>3. unsent'[t][i] \in {<<"leave", selected[t]>>, <<"join", selected[t]>>}
            <7>1. unsent'[t] = <<>> \o << <<"leave", selected[t]>> >> \o << <<"join", selected[t]>> >>
              BY <5>1, <6>1, Zenon DEF Moves
            <7> QED
              BY <5>2, <6>2, <7>1, TwoEmits, Zenon
          <6>4. <<"leave", selected[t]>> # <<"join", c>> /\ <<"join", selected[t]>> # <<"join", c>>
            BY <3>3, <4>1, <5>1
          <6> QED
            BY <6>3, <6>4
        <5> QED
          BY <3>3, <4>1, <5>1, <5>2 DEF Bound
      <4>2. CASE v # t
        <5>1. Bound(v, c)
          BY <3>1, <3>3, <4>2 DEF Bound, RoomInv
        <5> QED
          BY <3>1, <3>3, <4>2, <5>1, StillLeaving DEF RoomInv
      <4> QED
        BY <4>1, <4>2
    <3> QED
      BY <3>2, <3>3 DEF WillLeave
  <2>6. CASE Restart
    <3>1. /\ \A t \in Tab : link'[t] = None
          /\ \A t \in Tab : unsent'[t] \in {unsent[t], <<>>}
          /\ \A s \in Socket : rooms'[s] = {}
          /\ selected' = selected
      BY <2>6 DEF Restart
    <3>2. LinksAlive' /\ DeadInNoRoom'
      BY <3>1 DEF LinksAlive, DeadInNoRoom
    <3>3. ASSUME NEW v \in Tab, NEW c \in Conversation, c # selected'[v], Bound(v, c)'
          PROVE  Leaving(v, c)'
      <4>1. unsent'[v] = unsent[v]
        BY <3>1, <3>3 DEF Bound
      <4>2. Bound(v, c)
        BY <3>1, <3>3, <4>1 DEF Bound
      <4> QED
        BY <3>1, <3>3, <4>1, <4>2, StillLeaving DEF RoomInv
    <3> QED
      BY <3>2, <3>3 DEF WillLeave
  <2>7. CASE UNCHANGED vars
    <3>1. LinksAlive' /\ DeadInNoRoom'
      BY <2>7 DEF vars, LinksAlive, DeadInNoRoom, RoomInv
    <3>2. ASSUME NEW v \in Tab, NEW c \in Conversation, c # selected'[v], Bound(v, c)'
          PROVE  Leaving(v, c)'
      <4>1. Bound(v, c)
        BY <2>7, <3>2 DEF vars, Bound
      <4> QED
        BY <2>7, <3>2, <4>1, StillLeaving DEF vars
    <3> QED
      BY <3>1, <3>2 DEF WillLeave
  <2> QED
    BY <2>1, <2>2, <2>3, <2>4, <2>5, <2>6, <2>7, <2>8 DEF Next
<1>2. NoForeignRoom'
  <2> SUFFICES ASSUME NEW t \in Tab, link'[t] # None, unsent'[t] = <<>>,
                      NEW c \in Conversation, c \in rooms'[link'[t]]
               PROVE  c = selected'[t]
    BY DEF NoForeignRoom
  <2>1. Bound(t, c)' /\ ~ Leaving(t, c)'
    BY DEF Bound, Leaving
  <2> QED
    BY <1>1, <2>1 DEF WillLeave
<1> QED
  BY <1>1, <1>2 DEF RoomInv

\* Whatever breaks in between, a tab whose emits have arrived is in no other
\* conversation's room than the one it shows.
THEOREM NoTabInForeignRoom == Spec => []NoForeignRoom
<1>1. Init => RoomInv
  BY PresenceAssumption
     DEF Init, RoomInv, TypeOK, LinksAlive, DeadInNoRoom, WillLeave, Bound, NoForeignRoom
<1>2. RoomInv => NoForeignRoom
  BY DEF RoomInv
<1> QED
  BY <1>1, <1>2, RoomStep, PTL DEF Spec
=============================================================================
