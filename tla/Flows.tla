-------------------------------- MODULE Flows --------------------------------
(***************************************************************************)
(* Communication flows (FlowsService): graphs of nodes that administrators *)
(* draw or make from blueprints, and executions that stand at a node and   *)
(* that some client moves on, for nothing in the program runs them.  Rows  *)
(* of flows are never removed, those of nodes are; the ids of nodes are    *)
(* primary keys, and a blueprint brings its own.  The database (external)  *)
(* refuses links and executions at nodes that are not there, removes the   *)
(* links of a removed node and leaves its executions at none; both follow  *)
(* a node that gets another id.  What only the list of flows looks at,     *)
(* isActive and status, is left out, and with it delete().                 *)
(***************************************************************************)
EXTENDS Naturals, FiniteSets

CONSTANTS
  Flow,
  Node,           \* ids of nodes
  Blueprint,      \* [nodes, start, links]: the models of buildBlueprint()
  Run,            \* executions
  MaxLinks,       \* bound of the connections drawn by hand
  NoNode, NoFlow

ASSUME FlowsAssumption ==
  /\ MaxLinks \in Nat /\ NoNode \notin Node /\ NoFlow \notin Flow
  /\ \A b \in Blueprint : /\ b.nodes \subseteq Node /\ b.start \in b.nodes
                          /\ b.links \subseteq b.nodes \X b.nodes

VARIABLES
  flow,           \* whether it was created, and its start node
  node,           \* the flow a node belongs to, or NoFlow if there is none
  links,          \* rows of flow_connections: flow, source and target
  run,            \* the executions
  redrawn,        \* flows whose start or nodes were changed by hand
  unstamped,      \* executions whose finishedAt was set or cleared by hand
  revived         \* executions that were over and got another status

flowVars == <<flow, node, links, run, redrawn, unstamped, revived>>

Final == {"FINISHED", "FAILED", "CANCELLED"}
RunStatus == Final \cup {"RUNNING"}

Nodes == {n \in Node : node[n] # NoFlow}

\* "reads": startExecution() has read its flow, and is about to create the row.
NoRun == [at |-> "none", flow |-> NoFlow, node |-> NoNode, status |-> "RUNNING", finished |-> FALSE]

-----------------------------------------------------------------------------
(* Drawing.                                                                *)

\* Faulty variant: nodes that are there are taken over (connectOrCreate).
CreateByTakeover(f, b) ==
  /\ ~ flow[f].made
  /\ flow' = [flow EXCEPT ![f] = [made |-> TRUE, start |-> b.start]]
  /\ node' = [n \in Node |-> IF n \in b.nodes THEN f ELSE node[n]]
  /\ links' = links \cup {<<f, l[1], l[2]>> : l \in b.links}
  /\ UNCHANGED <<run, redrawn, unstamped, revived>>

\* One transaction, which is refused when another flow has a node of the blueprint.
CreateFromBlueprint(f, b) ==
  /\ ~ flow[f].made
  /\ b.nodes \cap Nodes = {}
  /\ flow' = [flow EXCEPT ![f] = [made |-> TRUE, start |-> b.start]]
  /\ node' = [n \in Node |-> IF n \in b.nodes THEN f ELSE node[n]]
  /\ links' = links \cup {<<f, l[1], l[2]>> : l \in b.links}
  /\ UNCHANGED <<run, redrawn, unstamped, revived>>

\* create() without nodes; the body may name any start.
CreateFlow(f, start) ==
  /\ ~ flow[f].made
  /\ flow' = [flow EXCEPT ![f] = [made |-> TRUE, start |-> start]]
  /\ redrawn' = redrawn \cup {f}
  /\ UNCHANGED <<node, links, run, unstamped, revived>>

UpdateFlow(f, start) ==
  /\ flow[f].made
  /\ flow' = [flow EXCEPT ![f].start = start]
  /\ redrawn' = IF start = flow[f].start THEN redrawn ELSE redrawn \cup {f}
  /\ UNCHANGED <<node, links, run, unstamped, revived>>

AddNode(f, n) ==
  /\ flow[f].made /\ node[n] = NoFlow
  /\ node' = [node EXCEPT ![n] = f]
  /\ UNCHANGED <<flow, links, run, redrawn, unstamped, revived>>

\* The body is passed on as it is, and may give the node to another flow, or
\* another id; with neither, nothing that is modelled changes.
UpdateNode(n, f, m) ==
  LET renamed(x) == IF x = n THEN m ELSE x IN
  /\ n \in Nodes /\ flow[f].made
  /\ (m = n /\ f # node[n]) \/ node[m] = NoFlow
  /\ node' = [node EXCEPT ![n] = NoFlow, ![m] = f]
  /\ links' = {<<l[1], renamed(l[2]), renamed(l[3])>> : l \in links}
  /\ run' = [r \in Run |-> IF run[r].at = "row" THEN [run[r] EXCEPT !.node = renamed(@)] ELSE run[r]]
  /\ redrawn' = redrawn \cup {node[n], f}
  /\ UNCHANGED <<flow, unstamped, revived>>

\* Of any flow: the one in the URL is read, and forgotten.
DeleteNode(n) ==
  /\ n \in Nodes
  /\ node' = [node EXCEPT ![n] = NoFlow]
  /\ links' = {l \in links : n \notin {l[2], l[3]}}
  /\ run' = [r \in Run |-> IF run[r].at = "row" /\ run[r].node = n
                             THEN [run[r] EXCEPT !.node = NoNode] ELSE run[r]]
  /\ redrawn' = redrawn \cup {node[n]}
  /\ UNCHANGED <<flow, unstamped, revived>>

\* The nodes may be of other flows than the connection.
AddConnection(f, m, n) ==
  /\ flow[f].made /\ {m, n} \subseteq Nodes
  /\ Cardinality(links) < MaxLinks
  /\ links' = links \cup {<<f, m, n>>}
  /\ UNCHANGED <<flow, node, run, redrawn, unstamped, revived>>

DeleteConnection(l) ==
  /\ links' = links \ {l}
  /\ UNCHANGED <<flow, node, run, redrawn, unstamped, revived>>

-----------------------------------------------------------------------------
(* Executing.                                                              *)

StartReads(r, f) ==
  /\ run[r].at = "none" /\ flow[f].made
  /\ \E n \in {flow[f].start} \cup Node :      \* of the flow, or of the body
       run' = [run EXCEPT ![r] = [NoRun EXCEPT !.at = "reads", !.flow = f, !.node = n]]
  /\ UNCHANGED <<flow, node, links, redrawn, unstamped, revived>>

\* Refused when its node is not there.
StartExecution(r) ==
  /\ run[r].at = "reads"
  /\ run' = [run EXCEPT ![r] = IF @.node \in Nodes \cup {NoNode} THEN [@ EXCEPT !.at = "row"] ELSE NoRun]
  /\ UNCHANGED <<flow, node, links, redrawn, unstamped, revived>>

\* A final status brings the time; else the body may set it, or null.
Stamped(old, status, finished) ==
  IF status \in Final THEN TRUE ELSE IF finished = "as it is" THEN old ELSE finished = "date"

\* The body names some of node, status and finishedAt, in any order of statuses.
UpdateExecution(r, n, status, finished) ==
  /\ run[r].at = "row" /\ n \in Nodes \cup {run[r].node}
  /\ run' = [run EXCEPT ![r].node = n,
                        ![r].status = IF status = "as it is" THEN @ ELSE status,
                        ![r].finished = Stamped(@, status, finished)]
  /\ unstamped' = IF finished # "as it is" THEN unstamped \cup {r} ELSE unstamped
  /\ revived' = IF run[r].status \in Final /\ status = "RUNNING" THEN revived \cup {r} ELSE revived
  /\ UNCHANGED <<flow, node, links, redrawn>>

FlowsInit ==
  /\ flow = [f \in Flow |-> [made |-> FALSE, start |-> NoNode]]
  /\ node = [n \in Node |-> NoFlow]
  /\ links = {}
  /\ run = [r \in Run |-> NoRun]
  /\ redrawn = {} /\ unstamped = {} /\ revived = {}

Drawing ==
  \/ \E f \in Flow :
       \/ \E b \in Blueprint : CreateFromBlueprint(f, b)
       \/ \E start \in Node \cup {NoNode} :
            CreateFlow(f, start) \/ UpdateFlow(f, start)
       \/ \E m, n \in Node : AddNode(f, n) \/ AddConnection(f, m, n) \/ UpdateNode(n, f, m)
  \/ \E n \in Node : DeleteNode(n)
  \/ \E l \in links : DeleteConnection(l)

Executing ==
  \E r \in Run :
    \/ \E f \in Flow : StartReads(r, f)
    \/ StartExecution(r)
    \/ \E n \in Node \cup {NoNode}, status \in RunStatus \cup {"as it is"},
          finished \in {"as it is", "date", "null"} : UpdateExecution(r, n, status, finished)

FlowsNext == Drawing \/ Executing

FlowsSpec == FlowsInit /\ [][FlowsNext]_flowVars

FlowsTypeOK ==
  /\ flow \in [Flow -> [made : BOOLEAN, start : Node \cup {NoNode}]]
  /\ node \in [Node -> Flow \cup {NoFlow}]
  /\ links \subseteq Flow \X Node \X Node
  /\ run \in [Run -> [at : {"none", "reads", "row"}, flow : Flow \cup {NoFlow},
                      node : Node \cup {NoNode}, status : RunStatus, finished : BOOLEAN]]
  /\ redrawn \subseteq Flow /\ unstamped \subseteq Run /\ revived \subseteq Run
-----------------------------------------------------------------------------
(***************************************************************************)
(* An execution stands at a node there is, or at none; an over one has its *)
(* end and a running one has none, unless it was revived or a body named   *)
(* finishedAt.  A flow made from a blueprint keeps its start among its own *)
(* nodes until somebody redraws it, whatever other flows are made of the   *)
(* same blueprint, and no connection leads to a removed node.              *)
(***************************************************************************)
FlowsHoldTogether ==
  /\ \A r \in Run : run[r].at = "row" =>
       /\ run[r].node \in Nodes \cup {NoNode}
       /\ r \notin unstamped => /\ run[r].status \in Final => run[r].finished
                                /\ run[r].finished => run[r].status \in Final \/ r \in revived
  /\ \A f \in Flow \ redrawn : flow[f].made => flow[f].start \in Nodes /\ node[flow[f].start] = f
  /\ \A l \in links : {l[2], l[3]} \subseteq Nodes
=============================================================================
