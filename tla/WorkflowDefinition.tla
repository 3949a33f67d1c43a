-------------------------- MODULE WorkflowDefinition --------------------------
(***************************************************************************)
(* The authoring of one workflow (workflow_definition_service.py), the     *)
(* validator a publication passes (workflow_validation_service.py), and    *)
(* the checks a start repeats (workflow_execution_service.py,              *)
(* start_workflow_run).  Every request reads in one statement or more and  *)
(* writes in a later one, and no write repeats the check of the status it  *)
(* read: two requests can pass each other, and an edit or a publication    *)
(* can be committed after what it was allowed for has changed.             *)
(*                                                                         *)
(* An edge is a row: [from, to, by, cond]; nothing in the schema forbids   *)
(* two rows for the same pair, so `by' tells them apart.  A node's         *)
(* configuration is the one registry entry it needs.                       *)
(***************************************************************************)
EXTENDS Integers, FiniteSets

CONSTANTS
    Node,          \* node keys
    Order,         \* [1..Cardinality(Node) -> Node]: the order rows come back in
    TypeOf,        \* [Node -> the type it is added with]
    Entry,         \* registry entries: agent and evaluation definition versions
    Nothing,       \* no configuration
    Author,        \* requests that edit, publish, copy, deprecate or retire
    Starter,       \* requests that start a run
    MaxFanOut,     \* settings.workflow_max_fan_out
    MaxVersions, MaxRequests   \* bounds of the runs

ASSUME DefinitionAssumption ==
    /\ MaxFanOut \in Nat \ {0} /\ MaxVersions \in Nat \ {0}
    /\ Nothing \notin Entry
    /\ IsFiniteSet(Node)
    /\ {Order[i] : i \in 1..Cardinality(Node)} = Node

VARIABLES
    status,    \* [1..MaxVersions -> none | draft | active | deprecated | retired]
    graph,     \* [1..MaxVersions -> [nodes, config, edges, gone]]
    current,   \* workflows.current_status
    live,      \* the registry entries that are ACTIVE
    author,    \* [Author -> the request being served]
    starter,   \* [Starter -> the request being served]
    runs,      \* the runs that were started
    late,      \* history: versions changed after a publisher had begun to read them
    made,      \* history: how many versions were created
    requests   \* how many requests were begun

definitionVars == <<status, graph, current, live, author, starter, runs, late, made, requests>>

Version == 1..MaxVersions
Free == [pc |-> "idle"]
Edge(f, t, a, cond) == [from |-> f, to |-> t, by |-> a, cond |-> cond]
EmptyGraph == [nodes |-> {}, config |-> [n \in Node |-> Nothing], edges |-> {}, gone |-> {}]

\* create_workflow: a workflow with an empty draft.
NewWorkflow ==
    /\ status = [v \in Version |-> IF v = 1 THEN "draft" ELSE "none"]
    /\ graph = [v \in Version |-> EmptyGraph]
    /\ current = "none"
    /\ live = Entry
    /\ author = [a \in Author |-> Free]
    /\ starter = [s \in Starter |-> Free]
    /\ runs = {}
    /\ late = {}
    /\ made = 1

DefinitionInit == NewWorkflow /\ requests = 0

-----------------------------------------------------------------------------
(* The validator, on the nodes and edges it has loaded *)

Sources(g, n) == {e \in g.edges : e.to = n}
Targets(g, n) == {e \in g.edges : e.from = n}
Successors(g) == {<<e.from, e.to>> : e \in g.edges}
Predecessors(g) == {<<e.to, e.from>> : e \in g.edges}
Around(g) == Successors(g) \cup Predecessors(g)

\* What is left of start after so many rounds of a loop: round k makes body[k][s] of s.
Loop(rounds, body, start) ==
    LET after[k \in 0..rounds] == IF k = 0 THEN start ELSE body[k][after[k - 1]]
    IN after[rounds]

Rounds == 1..Cardinality(Node)

\* Breadth-first search: what the relation R reaches from S, a step further in
\* each round.
Reach(R, S) ==
    Loop(Cardinality(Node),
         [k \in Rounds |-> [T \in SUBSET Node |-> T \cup {r[2] : r \in {q \in R : q[1] \in T}}]], S)

\* The state of the depth-first search.
Search == [visited : SUBSET Node, stack : SUBSET Node, found : BOOLEAN]

Linked(g, n, m) == \E e \in g.edges : e.from = n /\ e.to = m

\* Mutant of Popped: a node is never taken off the stack.
PoppedNever(d, n) == d
Popped(d, n) == [d EXCEPT !.stack = @ \ {n}]

\* has_cycle(n) in the state d, if the calls it makes do what `call' does.
HasCycle(g, call, n, d) ==
    LET follow == [i \in Rounds |-> [s \in Search |->
            IF s.found \/ ~Linked(g, n, Order[i]) THEN s
            ELSE IF Order[i] \notin s.visited THEN call[Order[i]][s]
            ELSE [s EXCEPT !.found = Order[i] \in s.stack]]]
        left == Loop(Cardinality(Node), follow,
                     [visited |-> d.visited \cup {n}, stack |-> d.stack \cup {n}, found |-> FALSE])
    IN IF left.found THEN left ELSE Popped(left, n)

\* Every call visits a node, so calls are never nested deeper than there are nodes.
DepthFirst(g) ==
    LET calls[k \in 0..Cardinality(Node)] ==
            [n \in Node |-> [d \in Search |->
                IF k = 0 THEN [d EXCEPT !.found = TRUE] ELSE HasCycle(g, calls[k - 1], n, d)]]
    IN calls[Cardinality(Node)]

Cyclic(g) ==
    LET search == [i \in Rounds |-> [d \in Search |->
            IF d.found \/ Order[i] \notin g.nodes \/ Order[i] \in d.visited THEN d
            ELSE DepthFirst(g)[Order[i]][d]]]
    IN Loop(Cardinality(Node), search, [visited |-> {}, stack |-> {}, found |-> FALSE]).found

\* _validate_no_cycles and _validate_connectivity index a table of the nodes.
Readable(g) == \A e \in g.edges : e.from \in g.nodes /\ e.to \in g.nodes

Entries(g) == {n \in g.nodes : Sources(g, n) = {}}
Terminals(g) == {n \in g.nodes : Targets(g, n) = {} \/ TypeOf[n] = "terminal"}
Some(S) == {CHOOSE n \in S : TRUE}

\* Edges the engine does not provide for: from a node to itself, a second one for
\* the same pair, with a condition, or more than MaxFanOut from one node.
EdgeIssues(g) ==
    {e \in g.edges :
       \/ e.from = e.to
       \/ e.cond
       \/ \E d \in g.edges \ {e} : d.from = e.from /\ d.to = e.to
       \/ Cardinality(Targets(g, e.from)) > MaxFanOut}

Unconnected(g) == IF g.nodes = {} THEN {} ELSE g.nodes \ Reach(Around(g), Some(g.nodes))
Unreachable(g) == IF Entries(g) = {} THEN {} ELSE g.nodes \ Reach(Successors(g), Entries(g))
DeadEnds(g) == IF Terminals(g) = {} THEN {} ELSE g.nodes \ Reach(Predecessors(g), Terminals(g))

\* What an AGENT node names must be ACTIVE.
AgentIssues(g, active) == {n \in g.nodes : TypeOf[n] = "agent" /\ g.config[n] \notin active}

\* So must what an EVALUATION node names, and its one incoming edge comes from
\* an AGENT node.
EvaluationIssues(g, active) ==
    {n \in g.nodes :
       /\ TypeOf[n] = "evaluation"
       /\ \/ g.config[n] \notin active
          \/ ~ \E e \in g.edges : Sources(g, n) = {e} /\ TypeOf[e.from] = "agent"}

Accepts(g, active) ==
    /\ g.nodes # {} /\ Entries(g) # {} /\ Terminals(g) # {}
    /\ EdgeIssues(g) = {} /\ ~Cyclic(g)
    /\ Unconnected(g) = {} /\ Unreachable(g) = {} /\ DeadEnds(g) = {}
    /\ AgentIssues(g, active) = {} /\ EvaluationIssues(g, active) = {}

-----------------------------------------------------------------------------
(* Requests that edit a version *)

\* Mutant of Editable: the status is not looked at.
EditableAlways(v) == status[v] # "none"
Editable(v) == status[v] = "draft"

Begin(a, request) ==
    /\ author[a] = Free
    /\ requests < MaxRequests
    /\ author' = [author EXCEPT ![a] = request]
    /\ requests' = requests + 1
    /\ UNCHANGED <<status, graph, current, live, starter, runs, late, made>>

AddNodeRead(a) == \E v \in Version, n \in Node, config \in Entry \cup {Nothing} :
    /\ Editable(v)
    /\ n \notin graph[v].nodes \cup graph[v].gone   \* bound: a deleted key is not used again
    /\ Begin(a, [pc |-> "add_node", v |-> v, draft |-> status[v] = "draft", n |-> n, config |-> config])

UpdateNodeRead(a) == \E v \in Version, config \in Entry : \E n \in graph[v].nodes :
    /\ Editable(v)
    /\ Begin(a, [pc |-> "update_node", v |-> v, draft |-> status[v] = "draft", n |-> n, config |-> config])

DeleteNodeRead(a) == \E v \in Version : \E n \in graph[v].nodes :
    /\ Editable(v)
    /\ Sources(graph[v], n) \cup Targets(graph[v], n) = {}
    /\ Begin(a, [pc |-> "delete_node", v |-> v, draft |-> status[v] = "draft", n |-> n])

AddEdgeRead(a) == \E v \in Version, cond \in BOOLEAN : \E f, t \in graph[v].nodes :
    /\ Editable(v)
    /\ f # t
    /\ ~ \E e \in graph[v].edges : e.from = f /\ e.to = t
    /\ Begin(a, [pc |-> "add_edge", v |-> v, draft |-> status[v] = "draft", e |-> Edge(f, t, a, cond)])

DeleteEdgeRead(a) == \E v \in Version : \E e \in graph[v].edges :
    /\ Editable(v)
    /\ Begin(a, [pc |-> "delete_edge", v |-> v, draft |-> status[v] = "draft", e |-> e])

EndsExist(g, e) == {e.from, e.to} \subseteq g.nodes

\* What a write makes of the rows as they are by now: the unique key refuses a
\* node that another request added, the foreign keys an edge whose end is gone;
\* deleting a node deletes its edges; a row that is gone is not changed.
NodeAdded(g, n, config) ==
    IF n \in g.nodes THEN g ELSE [g EXCEPT !.nodes = @ \cup {n}, !.config[n] = config]
NodeUpdated(g, n, config) == IF n \in g.nodes THEN [g EXCEPT !.config[n] = config] ELSE g
NodeDeleted(g, n) ==
    IF n \notin g.nodes THEN g
    ELSE [nodes |-> g.nodes \ {n}, config |-> [g.config EXCEPT ![n] = Nothing],
          edges |-> g.edges \ (Sources(g, n) \cup Targets(g, n)), gone |-> g.gone \cup {n}]
EdgeAdded(g, e) == IF EndsExist(g, e) THEN [g EXCEPT !.edges = @ \cup {e}] ELSE g
EdgeDeleted(g, e) == [g EXCEPT !.edges = @ \ {e}]

Edited(r, g) ==
    CASE r.pc = "add_node"    -> NodeAdded(g, r.n, r.config)
      [] r.pc = "update_node" -> NodeUpdated(g, r.n, r.config)
      [] r.pc = "delete_node" -> NodeDeleted(g, r.n)
      [] r.pc = "add_edge"    -> EdgeAdded(g, r.e)
      [] r.pc = "delete_edge" -> EdgeDeleted(g, r.e)

Edits == {"add_node", "update_node", "delete_node", "add_edge", "delete_edge"}

\* A publisher has read part of the version, or it is published.
BeingPublished(v) ==
    \/ status[v] # "draft"
    \/ \E b \in Author : author[b].pc \in {"load_edges", "judge", "publish"} /\ author[b].v = v

EditWrite(a) ==
    /\ author[a].pc \in Edits
    /\ LET r == author[a]
           g == Edited(r, graph[r.v])
       IN /\ graph' = [graph EXCEPT ![r.v] = g]
          /\ late' = IF r.draft /\ g # graph[r.v] /\ BeingPublished(r.v) THEN late \cup {r.v} ELSE late
    /\ author' = [author EXCEPT ![a] = Free]
    /\ UNCHANGED <<status, current, live, starter, runs, made, requests>>

-----------------------------------------------------------------------------
(* Publication, copies, the end of a version *)

PublishRead(a) == \E v \in Version :
    status[v] = "draft" /\ Begin(a, [pc |-> "load_nodes", v |-> v])

LoadNodes(a) ==
    /\ author[a].pc = "load_nodes"
    /\ author' = [author EXCEPT ![a] = [pc |-> "load_edges", v |-> @.v, g |-> graph[@.v]]]
    /\ UNCHANGED <<status, graph, current, live, starter, runs, late, made, requests>>

LoadEdges(a) ==
    /\ author[a].pc = "load_edges"
    /\ author' = [author EXCEPT ![a].pc = "judge", ![a].g.edges = graph[author[a].v].edges]
    /\ UNCHANGED <<status, graph, current, live, starter, runs, late, made, requests>>

\* The validator.  An edge whose node it did not load makes it raise.
Judge(a) ==
    /\ author[a].pc = "judge"
    /\ author' = [author EXCEPT ![a] =
          IF Readable(@.g) /\ Accepts(@.g, live) THEN [pc |-> "publish", v |-> @.v] ELSE Free]
    /\ UNCHANGED <<status, graph, current, live, starter, runs, late, made, requests>>

PublishWrite(a) ==
    /\ author[a].pc = "publish"
    /\ status' = [status EXCEPT ![author[a].v] = "active"]
    /\ current' = "active"
    /\ author' = [author EXCEPT ![a] = Free]
    /\ UNCHANGED <<graph, live, starter, runs, late, made, requests>>

Latest == CHOOSE v \in Version : status[v] # "none" /\ \A w \in Version : status[w] # "none" => w <= v

\* clone_version, and the creation of an empty version: the number is read first.
CopyRead(a) == \E source \in {v \in Version : status[v] # "none"} \cup {0} :
    /\ Latest < MaxVersions
    /\ Begin(a, [pc |-> "copy", v |-> source, new |-> Latest + 1])

Taken(v) == status[v] # "none"

\* One transaction: the source's rows are read in it; a number that was taken
\* meanwhile is refused.
CopyWrite(a) ==
    /\ author[a].pc = "copy"
    /\ LET r == author[a]
       IN IF Taken(r.new) THEN UNCHANGED <<status, graph, made>>
          ELSE /\ status' = [status EXCEPT ![r.new] = "draft"]
               /\ graph' = [graph EXCEPT ![r.new] =
                               IF r.v = 0 THEN EmptyGraph ELSE [graph[r.v] EXCEPT !.gone = {}]]
               /\ made' = made + 1
    /\ author' = [author EXCEPT ![a] = Free]
    /\ UNCHANGED <<current, live, starter, runs, late, requests>>

Later == [active |-> "deprecated", deprecated |-> "retired"]

WithdrawRead(a) == \E v \in Version :
    status[v] \in DOMAIN Later /\ Begin(a, [pc |-> "withdraw", v |-> v, to |-> Later[status[v]]])

WithdrawWrite(a) ==
    /\ author[a].pc = "withdraw"
    /\ status' = [status EXCEPT ![author[a].v] = author[a].to]
    /\ author' = [author EXCEPT ![a] = Free]
    /\ UNCHANGED <<graph, current, live, starter, runs, late, made, requests>>

\* A registry entry is deprecated or retired; it is never ACTIVE again.
RetireEntry ==
    /\ requests < MaxRequests
    /\ requests' = requests + 1
    /\ \E e \in live : live' = live \ {e}
    /\ UNCHANGED <<status, graph, current, author, starter, runs, late, made>>

-----------------------------------------------------------------------------
(* The start of a run *)

\* asked is history: the entries that were ACTIVE when the request came.
StartRead(s) == \E v \in Version :
    /\ starter[s] = Free
    /\ requests < MaxRequests
    /\ requests' = requests + 1
    /\ status[v] = "active"
    /\ starter' = [starter EXCEPT ![s] = [pc |-> "nodes", v |-> v, asked |-> live]]
    /\ UNCHANGED <<status, graph, current, live, author, runs, late, made>>

StartNodes(s) ==
    /\ starter[s].pc = "nodes"
    /\ LET g == graph[starter[s].v]
           needs == {g.config[n] : n \in {m \in g.nodes : TypeOf[m] = "evaluation"}}
       IN starter' = [starter EXCEPT ![s] = IF g.nodes = {} THEN Free
                         ELSE [pc |-> "edges", v |-> @.v, asked |-> @.asked,
                               nodes |-> g.nodes, needs |-> needs]]
    /\ UNCHANGED <<status, graph, current, live, author, runs, late, made, requests>>

\* Defence in depth: no condition, no excessive fan-out.
StartEdges(s) ==
    /\ starter[s].pc = "edges"
    /\ LET g == graph[starter[s].v]
       IN starter' = [starter EXCEPT ![s] =
            IF (\E e \in g.edges : e.cond) \/ (\E n \in Node : Cardinality(Targets(g, n)) > MaxFanOut)
            THEN Free ELSE [@ EXCEPT !.pc = "preflight"]]
    /\ UNCHANGED <<status, graph, current, live, author, runs, late, made, requests>>

\* Mutant of Preflight: what was valid at publication is trusted.
PreflightNone(needs) == TRUE
Preflight(needs) == needs \subseteq live

StartPreflight(s) ==
    /\ starter[s].pc = "preflight"
    /\ starter' = [starter EXCEPT ![s] = IF Preflight(@.needs) THEN [@ EXCEPT !.pc = "create"] ELSE Free]
    /\ UNCHANGED <<status, graph, current, live, author, runs, late, made, requests>>

StartCreate(s) ==
    /\ starter[s].pc = "create"
    /\ LET r == starter[s]
       IN runs' = runs \cup {[v |-> r.v, asked |-> r.asked, nodes |-> r.nodes, needs |-> r.needs]}
    /\ starter' = [starter EXCEPT ![s] = Free]
    /\ UNCHANGED <<status, graph, current, live, author, late, made, requests>>

DefinitionNext ==
    \/ \E a \in Author :
         \/ AddNodeRead(a) \/ UpdateNodeRead(a) \/ DeleteNodeRead(a) \/ AddEdgeRead(a) \/ DeleteEdgeRead(a)
         \/ EditWrite(a)
         \/ PublishRead(a) \/ LoadNodes(a) \/ LoadEdges(a) \/ Judge(a) \/ PublishWrite(a)
         \/ CopyRead(a) \/ CopyWrite(a) \/ WithdrawRead(a) \/ WithdrawWrite(a)
    \/ RetireEntry
    \/ \E s \in Starter :
         StartRead(s) \/ StartNodes(s) \/ StartEdges(s) \/ StartPreflight(s) \/ StartCreate(s)

DefinitionSpec == DefinitionInit /\ [][DefinitionNext]_definitionVars

-----------------------------------------------------------------------------
(* Properties *)

\* Every row and request has one of the forms the code gives it; the edges of a
\* version join nodes it has.
DefinitionTypeOK ==
    /\ status \in [Version -> {"none", "draft", "active", "deprecated", "retired"}]
    /\ \A v \in Version : /\ graph[v].nodes \subseteq Node
                          /\ Readable(graph[v])
    /\ current \in {"none", "active"}
    /\ live \subseteq Entry
    /\ \A r \in runs : r.nodes # {} /\ status[r.v] \notin {"none", "draft"}

\* What a graph must be for the engine to run it to its end: its nodes can be
\* numbered so that every edge leads upwards, nothing in it stands apart.
Runnable(g) ==
    /\ g.nodes # {}
    /\ \E number \in [g.nodes -> 1..Cardinality(g.nodes)] :
          \A e \in g.edges : number[e.from] < number[e.to]
    /\ \A part \in SUBSET g.nodes : part \notin {{}, g.nodes} =>
          \E e \in g.edges : (e.from \in part) # (e.to \in part)

\* What the engine does not provide for: conditions, two edges for one pair, a
\* fan-out above the limit, an evaluation of anything but one agent's output.
WithinEngine(g) ==
    /\ \A e \in g.edges : ~e.cond
    /\ \A n \in g.nodes :
         /\ Cardinality(Targets(g, n)) = Cardinality({e.to : e \in Targets(g, n)})
         /\ Cardinality(Targets(g, n)) <= MaxFanOut
         /\ TypeOf[n] = "evaluation" => {TypeOf[e.from] : e \in Sources(g, n)} = {"agent"}
                                        /\ Cardinality(Sources(g, n)) = 1

Configured(g, active) ==
    \A n \in g.nodes : TypeOf[n] \in {"agent", "evaluation"} => g.config[n] \in active

\* The validator's searches accept exactly the graphs that can be run: the entry,
\* terminal and reachability checks refuse no graph that is sound, and the
\* depth-first search misses no cycle and invents none
\* (workflow_validation_service.py, validate).
ValidatorIsExact ==
    \A a \in Author : author[a].pc = "judge" /\ Readable(author[a].g) =>
        LET g == author[a].g
        IN Accepts(g, live) <=> Runnable(g) /\ WithinEngine(g) /\ Configured(g, live)

\* A version that was published can be run, however editors and publishers
\* interleaved: only an edit that began on the draft and was committed while or
\* after it was published can spoil it (workflow_definition_service.py, line 4).
PublishedIsRunnable ==
    \A v \in Version : status[v] \notin {"none", "draft"} /\ v \notin late =>
        Runnable(graph[v]) /\ WithinEngine(graph[v])

\* Two requests that create the next version never write over one another: there
\* are as many versions as were created, numbered without a gap.
NoVersionIsLost == {v \in Version : status[v] # "none"} = 1..made

\* The versions of a workflow are all there, and the published ones can be run.
VersionInv ==
    /\ DefinitionTypeOK
    /\ PublishedIsRunnable
    /\ NoVersionIsLost

\* No run is started on an evaluation definition or evaluator that was withdrawn
\* before the start was asked for, even if the workflow was published while it
\* was ACTIVE (workflow_execution_service.py, start_workflow_run, preflight).
NoRunOnWithdrawnEntry == \A r \in runs : r.needs \subseteq r.asked
=============================================================================
