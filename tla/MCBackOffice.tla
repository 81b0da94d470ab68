----------------------------- MODULE MCBackOffice -----------------------------
(* Each part in the smallest instance in which its hazards occur: applies   *)
(* around two edits that may overlap, two updates of two chats, two         *)
(* executions with and without a type, one row with a secret and one that   *)
(* is not there yet, a tab with a form and one without, two conversations,  *)
(* two editors, an agent and one who was deleted, two flows from one        *)
(* blueprint.                                                               *)
EXTENDS BackOffice, TLC

CONSTANTS e1, q1, v1, r1, k1, k2, c1, c2, x1, x2, n1, n2, t1, t2

On(to)  == [active |-> TRUE, type |-> "OUTSIDE", to |-> to]
MCConfigured == e1 :> [On({}) EXCEPT !.active = FALSE] @@ q1 :> On({}) @@ v1 :> On({})
                  @@ r1 :> [On({v1}) EXCEPT !.type = "IVR"]

\* A PATCH of both halves of a destination, beside one of its value, the queue's
\* retirement, or an option for a device that is not there.
Do(op, thing, names, type, to) ==
  [op |-> op, thing |-> thing, names |-> names, type |-> type, to |-> to, isActive |-> TRUE]
MCAsked == <<{Do("save", r1, {"type", "value"}, "QUEUE", {q1})},
             {Do("save", r1, {"value"}, "OUTSIDE", {v1}),
              Do("retire", q1, {}, "OUTSIDE", {}),
              Do("add", v1, {}, "OUTSIDE", {e1})}>>

MCChatOf == k1 :> c1 @@ k2 :> c2

MCKindOf == x1 :> "IXC" @@ x2 :> AnyKind

MCGiven == "r1" :> [f \in Field |-> "a"] @@ "r2" :> [f \in Field |-> "absent"]

MCPortBodies == {<<>>, [signal |-> 4], [start |-> 3], [end |-> 3]}

\* None, and more than the log keeps.
MCPostedLogs == {<<>>, <<0, 0, 0>>}

MCBlueprint == {[nodes |-> {n1, n2}, start |-> n1, links |-> {<<n1, n2>>}]}

\* The slots of all parts, and the flows, go by the same two names.
Symmetry == Permutations(Applier)

\* The parts at rest tell no states apart.
Running ==
  <<part, CASE part = "pbx" -> pbxVars [] part = "telegram" -> telegramVars
            [] part = "integrations" -> integrationVars [] part = "crud" -> crudVars
            [] part = "page" -> pageVars [] part = "desk" -> deskVars
            [] part = "numbers" -> numberVars [] part = "agents" -> agentVars
            [] part = "flows" -> flowVars>>
===============================================================================
