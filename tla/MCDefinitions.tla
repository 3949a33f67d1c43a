----------------------------- MODULE MCDefinitions -----------------------------
(***************************************************************************)
(* The routing of models and the authoring of a workflow share no state;   *)
(* one run checks both: a behaviour begins with the requests of one of     *)
(* them spent and explores the other.                                      *)
(***************************************************************************)
EXTENDS ModelRouting, WorkflowDefinition, TLC

CONSTANTS
    a, b, c, p1, p2, m1, m2, unpriced,      \* offerings, their providers and models
    n1, n2, n3, n4, agent1, rubric1, nothing,   \* nodes and registry entries
    seed                                    \* who wrote the edges a draft begins with

MCModelOf == (a :> m1) @@ (b :> m2) @@ (c :> m1)
MCProviderOf == (a :> p1) @@ (b :> p1) @@ (c :> p2)
MCPlace == (a :> 1) @@ (c :> 2) @@ (b :> 3)
MCPrices == {<<0, 0>>, <<0, 2>>, <<1, 1>>, <<unpriced, 1>>}
MCOrder == <<n1, n2, n3, n4>>
MCTypeOf == (n1 :> "agent") @@ (n2 :> "agent") @@ (n3 :> "evaluation") @@ (n4 :> "human_approval")

vars == <<routingVars, definitionVars>>

Spent(r, s, h, d) == [refreshes |-> r, switches |-> s, history |-> h, decisions |-> d]

\* Four places to begin routing from, each with some of the requests spent.
RoutingSeeds ==
    /\ refresh = [r \in Refresher |-> Idle]
    /\ overlapped = FALSE
    /\ switch = [s \in Switcher |-> Idle]
    /\ calls = [o \in Offering |-> NoCalls]
    /\ findings = [o \in Offering |-> NoFindings]
    /\ router = NotRouting
    /\ decided = NotRouting
    /\ down = {}
    /\ \/ \* any catalogue; two facts of history; one decision with evidence
          /\ price \in [Offering -> MCPrices]
          /\ policy = [v \in PolicyVersion |-> v \in Supported]
          /\ routingOps = Spent(MaxRefreshes, MaxSwitches, 0, MaxDecisions - 1)
       \/ \* refreshes that race each other and a decision
          /\ price \in {[o \in Offering |-> Absent], [o \in Offering |-> <<0, 0>>]}
          /\ policy = [v \in PolicyVersion |-> FALSE]
          /\ routingOps = Spent(0, MaxSwitches, MaxHistory, MaxDecisions - 1)
       \/ \* switches that race each other and a decision
          /\ price = [o \in Offering |-> <<1, 1>>]
          /\ policy \in {p \in [PolicyVersion -> BOOLEAN] : Cardinality({v \in PolicyVersion : p[v]}) <= 1}
          /\ routingOps = Spent(MaxRefreshes, 0, MaxHistory - 1, MaxDecisions - 1)
    /\ modelStatus = [m \in Model |->
          IF \E o \in Offering : ModelOf[o] = m /\ price[o] # Absent THEN "active" ELSE "absent"]
    /\ listed = [p \in Provider |-> {ModelOf[o] : o \in {q \in Offers(p) : price[q] # Absent}}]

Pairs(N) == {e \in N \X N : e[1] # e[2]}
Needed(n) == CASE TypeOf[n] = "agent" -> agent1 [] TypeOf[n] = "evaluation" -> rubric1 [] OTHER -> nothing
Drawn(N, E) ==
    [nodes |-> N, gone |-> {},
     config |-> [n \in Node |-> IF n \in N THEN Needed(n) ELSE nothing],
     edges |-> {Edge(e[1], e[2], seed, FALSE) : e \in E}]

\* A draft of all nodes with any edges, and one request left; or one of two small
\* drafts, the second short of an edge, and all the requests.
DefinitionSeeds ==
    /\ status = [v \in Version |-> IF v = 1 THEN "draft" ELSE "none"]
    /\ current = "none"
    /\ live = Entry
    /\ author = [x \in Author |-> Free]
    /\ starter = [s \in Starter |-> Free]
    /\ runs = {}
    /\ late = {}
    /\ made = 1
    /\ \E start \in {[n |-> Node, e |-> E, spent |-> MaxRequests - 1] : E \in SUBSET Pairs(Node)}
                    \cup {[n |-> {n1, n2, n3}, e |-> E, spent |-> 0] :
                             E \in {{<<n1, n2>>, <<n2, n3>>}, {<<n1, n2>>}}} :
         /\ graph = [v \in Version |-> IF v = 1 THEN Drawn(start.n, start.e) ELSE EmptyGraph]
         /\ requests = start.spent

Init ==
    \/ RoutingSeeds /\ NewWorkflow /\ requests = MaxRequests
    \/ DefinitionSeeds /\ EmptyCatalogue /\ routingOps = Spent(MaxRefreshes, MaxSwitches, MaxHistory, MaxDecisions)
Next ==
    \/ RoutingNext /\ UNCHANGED definitionVars
    \/ DefinitionNext /\ UNCHANGED routingVars
Spec == Init /\ [][Next]_vars

\* Requests of one kind are interchangeable.
Symmetry == Permutations(Author) \cup Permutations(Refresher) \cup Permutations(Switcher)
=============================================================================
