----------------------------- MODULE MCPresence -----------------------------
(* A user with two tabs and another with one; three sockets, so that the    *)
(* connection of a tab overlaps the one it replaces.                        *)
EXTENDS Presence, TLC

CONSTANTS u1, u2, t1, t2, t3

MCOwner == t1 :> u1 @@ t2 :> u1 @@ t3 :> u2

Symmetry ==
  Permutations(Socket) \cup Permutations(Conversation) \cup Permutations({t1, t2})
=============================================================================
