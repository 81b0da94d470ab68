---------------------------- MODULE InboxContract ----------------------------
(***************************************************************************)
(* What an inbound channel promises about each delivery of a webhook body, *)
(* said without contacts, conversations or queries: the messages of the    *)
(* body are stored one at a time and each is announced before the next one *)
(* is stored; a delivery ends as handled only when all of them have been;  *)
(* an error or the death of the process ends it anywhere.                  *)
(***************************************************************************)
EXTENDS Naturals

CONSTANTS
  Webhook,        \* bodies
  Size,           \* [Webhook -> number of messages in the body]
  MaxTries        \* deliveries of one body

VARIABLE attempt  \* the progress of every delivery of every body

Fresh == [stage |-> "new", stored |-> 0, heard |-> 0]

Begun(w, n) == attempt[w][n].stage # "new"

Set(w, n, a) == attempt' = [attempt EXCEPT ![w][n] = a]

\* Deliveries of a body begin in order; one to an unknown number is over at once.
Begin(w, n) ==
  /\ ~ Begun(w, n)
  /\ \A k \in 1..(n - 1) : Begun(w, k)
  /\ \E stage \in {"open", "ignored"} : Set(w, n, [Fresh EXCEPT !.stage = stage])

Store(w, n) ==
  LET a == attempt[w][n] IN
  /\ a.stage = "open"
  /\ a.stored = a.heard
  /\ a.stored < Size[w]
  /\ Set(w, n, [a EXCEPT !.stored = @ + 1])

Announce(w, n) ==
  LET a == attempt[w][n] IN
  /\ a.stage = "open"
  /\ a.heard < a.stored
  /\ Set(w, n, [a EXCEPT !.heard = @ + 1,
                         !.stage = IF a.stored = Size[w] THEN "handled" ELSE "open"])

Break(w, n) ==
  /\ attempt[w][n].stage = "open"
  /\ Set(w, n, [attempt[w][n] EXCEPT !.stage = "broken"])

\* The process dies: every open delivery breaks at once.
BreakAll ==
  attempt' = [w \in Webhook |-> [n \in 1..MaxTries |->
                IF attempt[w][n].stage = "open"
                  THEN [attempt[w][n] EXCEPT !.stage = "broken"]
                  ELSE attempt[w][n]]]

Init == attempt = [w \in Webhook |-> [n \in 1..MaxTries |-> Fresh]]

Next ==
  \/ \E w \in Webhook, n \in 1..MaxTries :
       Begin(w, n) \/ Store(w, n) \/ Announce(w, n) \/ Break(w, n)
  \/ BreakAll

Spec == Init /\ [][Next]_attempt
=============================================================================
