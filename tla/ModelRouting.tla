----------------------------- MODULE ModelRouting -----------------------------
(***************************************************************************)
(* Which provider model an Agent Run is given: the model catalogue and its *)
(* refreshes (model_registry_service.py), the switch of the evidence       *)
(* policy (model_intelligence_service.py, set_evidence_routing), and one   *)
(* routing decision (model_resolution.py, routing_evidence.py), which      *)
(* reads the catalogue, the policy, the calls and the findings in four     *)
(* statements while the rest goes on changing.                             *)
(*                                                                         *)
(* SQLite gives every SELECT its own snapshot; a session writes what it    *)
(* changed when it commits.  A price is a pair (input, output); of an      *)
(* offering's identifiers only their order matters (Place).                *)
(***************************************************************************)
EXTENDS Integers, Sequences, FiniteSets

CONSTANTS
    Offering,       \* provider_models rows: what some provider may offer
    ModelOf,        \* [Offering -> the model (canonical id) it offers]
    ProviderOf,     \* [Offering -> its provider]
    Place,          \* [Offering -> Nat]: canonical id, provider name, row id, in order
    Unknown,        \* a price the provider has not stated
    Prices,         \* the prices a provider may state, each <<input, output>>
    Refresher,      \* requests that refresh a provider's catalogue
    PolicyVersion,  \* router_policy_versions (numbers)
    Supported,      \* those whose configuration this code can honour
    Switcher,       \* requests that turn evidence routing on or off
    MinObservations, MinEvaluatedRuns,   \* thresholds of the evidence policy
    MaxRefreshes, MaxSwitches, MaxHistory, MaxDecisions   \* bounds of the runs

ASSUME RoutingAssumption ==
    /\ Place \in [Offering -> Nat]
    /\ \A o \in Offering, q \in Offering : Place[o] = Place[q] => o = q
    /\ Unknown \notin Nat
    /\ Prices \subseteq (Nat \cup {Unknown}) \X (Nat \cup {Unknown})
    /\ "none" \notin Offering
    /\ Supported \subseteq PolicyVersion
    /\ MinObservations >= 1 /\ MinEvaluatedRuns >= 1

VARIABLES
    price,        \* [Offering -> its price, or Absent before it was ever listed]
    modelStatus,  \* [Model -> absent | active | unavailable]
    down,         \* the providers whose last connection test failed
    refresh,      \* [Refresher -> the refresh in flight]
    listed,       \* history: what each provider's last committed refresh listed
    overlapped,   \* history: two refreshes were in flight together
    policy,       \* [PolicyVersion -> BOOLEAN]: its status is active
    switch,       \* [Switcher -> the switch in flight]
    calls,        \* [Offering -> [completed, failed]], of one project and role
    findings,     \* [Offering -> [runs, met, partial, notMet, notApplicable]]
    router,       \* the routing decision being made
    decided,      \* the last decision
    routingOps    \* how often each bounded operation has been begun

catalogue == <<price, modelStatus, down, refresh, listed, overlapped>>
evidence  == <<policy, switch, calls, findings>>
routingVars == <<price, modelStatus, down, refresh, listed, overlapped, policy, switch,
                 calls, findings, router, decided, routingOps>>

Absent == <<"absent">>
Model == {ModelOf[o] : o \in Offering}
Provider == {ProviderOf[o] : o \in Offering}
Offers(p) == {o \in Offering : ProviderOf[o] = p}
NoPick == "none"

NoCalls == [completed |-> 0, failed |-> 0]
NoFindings == [runs |-> 0, met |-> 0, partial |-> 0, notMet |-> 0, notApplicable |-> 0]
Idle == [pc |-> "idle"]
NotRouting == [pc |-> "idle"]

\* Nothing listed, nothing asked.
EmptyCatalogue ==
    /\ price = [o \in Offering |-> Absent]
    /\ modelStatus = [m \in Model |-> "absent"]
    /\ down = {}
    /\ refresh = [r \in Refresher |-> Idle]
    /\ listed = [p \in Provider |-> {}]
    /\ overlapped = FALSE
    /\ policy = [v \in PolicyVersion |-> FALSE]
    /\ switch = [s \in Switcher |-> Idle]
    /\ calls = [o \in Offering |-> NoCalls]
    /\ findings = [o \in Offering |-> NoFindings]
    /\ router = NotRouting
    /\ decided = NotRouting

RoutingInit == EmptyCatalogue /\ routingOps = [refreshes |-> 0, switches |-> 0, history |-> 0, decisions |-> 0]

Spend(kind, bound) ==
    /\ routingOps[kind] < bound
    /\ routingOps' = [routingOps EXCEPT ![kind] = @ + 1]

-----------------------------------------------------------------------------
(* The catalogue *)

\* list_models answers over the network, before any row is read; a failed call
\* records itself and leaves the catalogue alone.
Fetch(r) ==
    /\ refresh[r] = Idle
    /\ Spend("refreshes", MaxRefreshes)
    /\ \E p \in Provider : \E seen \in SUBSET Offers(p) : \E offer \in [seen -> Prices] :
          refresh' = [refresh EXCEPT ![r] =
              [pc |-> "fetched", provider |-> p, seen |-> seen, offer |-> offer]]
    /\ overlapped' = (overlapped \/ \E s \in Refresher \ {r} : refresh[s] # Idle)
    /\ UNCHANGED <<price, modelStatus, down, listed, evidence, router, decided>>

\* The models and offerings are read one by one; a known row is flushed only at
\* the end.
ReadCatalogue(r) ==
    /\ refresh[r].pc = "fetched"
    /\ refresh' = [refresh EXCEPT ![r] =
          [pc |-> "read", provider |-> @.provider, seen |-> @.seen, offer |-> @.offer,
           status |-> modelStatus, price |-> price]]
    /\ UNCHANGED <<price, modelStatus, down, listed, overlapped, evidence, router, decided, routingOps>>

Seen(f) == {ModelOf[o] : o \in f.seen}
\* Mutant of Missing: a refresh only adds.
MissingNone(f) == {}
Missing(f) == {ModelOf[o] : o \in {q \in Offers(f.provider) : f.price[q] # Absent}} \ Seen(f)

\* A row that was new to this refresh may meanwhile have been inserted by another:
\* the unique constraint refuses it, and the whole refresh.
Collides(f) == \E o \in f.seen :
    \/ f.price[o] = Absent /\ price[o] # Absent
    \/ f.status[ModelOf[o]] = "absent" /\ modelStatus[ModelOf[o]] # "absent"

\* Only what differs from what was read is written: a value that already was the
\* wanted one is not written again, whatever another session made of it.
Written(new, readValue, now) == IF new = readValue THEN now ELSE new

CommitRefresh(r) ==
    /\ refresh[r].pc = "read"
    /\ LET f == refresh[r]
       IN IF Collides(f) THEN UNCHANGED <<price, modelStatus, listed>>
          ELSE /\ price' = [o \in Offering |->
                     IF o \in f.seen THEN Written(f.offer[o], f.price[o], price[o]) ELSE price[o]]
               /\ modelStatus' = [m \in Model |->
                     CASE m \in Seen(f)    -> Written("active", f.status[m], modelStatus[m])
                       [] m \in Missing(f) -> Written("unavailable", f.status[m], modelStatus[m])
                       [] OTHER            -> modelStatus[m]]
               /\ listed' = [listed EXCEPT ![f.provider] = Seen(f)]
    /\ refresh' = [refresh EXCEPT ![r] = Idle]
    /\ UNCHANGED <<down, overlapped, evidence, router, decided, routingOps>>

\* A connection test records the health it found.
TestConnection ==
    /\ Spend("history", MaxHistory)
    /\ \E p \in Provider : down' = IF p \in down THEN down \ {p} ELSE down \cup {p}
    /\ UNCHANGED <<price, modelStatus, refresh, listed, overlapped, evidence, router, decided>>

-----------------------------------------------------------------------------
(* The evidence policy and the evidence *)

Highest(S) == CHOOSE v \in S : \A w \in S : w <= v

\* The supported version that is active, or else the highest supported one.
EvidencePolicyRow ==
    IF \E v \in Supported : policy[v] THEN Highest({v \in Supported : policy[v]})
    ELSE Highest(Supported)

ReadSwitch(s) ==
    /\ switch[s] = Idle
    /\ Supported # {}
    /\ Spend("switches", MaxSwitches)
    /\ \E enabled \in BOOLEAN :
          switch' = [switch EXCEPT ![s] = [pc |-> "write", enabled |-> enabled,
                        target |-> EvidencePolicyRow, active |-> policy[EvidencePolicyRow]]]
    /\ UNCHANGED <<catalogue, policy, calls, findings, router, decided>>

\* One transaction: the others are made inactive, and the target active -- but
\* its status is written only if it differs from the one that was read.
Switched(w) == [v \in PolicyVersion |->
    IF w.enabled /\ v = w.target THEN policy[v] \/ ~w.active ELSE FALSE]

WriteSwitch(s) ==
    /\ switch[s].pc = "write"
    /\ policy' = Switched(switch[s])
    /\ switch' = [switch EXCEPT ![s] = Idle]
    /\ UNCHANGED <<catalogue, calls, findings, router, decided, routingOps>>

\* A call of the project and role ends, or an evaluation of its output (of one
\* criterion) completes.
Observe ==
    /\ Spend("history", MaxHistory)
    /\ \E o \in Offering :
         \/ \E outcome \in {"completed", "failed"} :
               /\ calls' = [calls EXCEPT ![o][outcome] = @ + 1]
               /\ UNCHANGED findings
         \/ \E finding \in {"met", "partial", "notMet", "notApplicable"} :
               /\ findings' = [findings EXCEPT ![o].runs = @ + 1, ![o][finding] = @ + 1]
               /\ UNCHANGED calls
    /\ UNCHANGED <<catalogue, policy, switch, router, decided>>

\* How an offering's calls look: the rate is compared with one half.
Reliability(c) ==
    IF c.completed + c.failed < MinObservations THEN "insufficient"
    ELSE IF 2 * c.failed > c.completed + c.failed THEN "demoted" ELSE "ok"

\* How its evaluations look: NOT_MET from three tenths up is negative, and MET
\* from seven tenths up positive.
Quality(f) ==
    LET judged == f.met + f.partial + f.notMet
    IN IF f.runs < MinEvaluatedRuns \/ judged = 0 THEN "insufficient"
       ELSE IF 10 * f.notMet >= 3 * judged THEN "negative"
       ELSE IF 10 * f.met >= 7 * judged THEN "positive" ELSE "mixed"

\* Mutant of SortKey: a clean record outranks a missing one.
SortKeyStrict(c, f) ==
    <<IF Reliability(c) = "ok" THEN 0 ELSE 1,
      CASE Quality(f) = "positive" -> 0 [] Quality(f) = "negative" -> 2 [] OTHER -> 1>>
\* Insufficient and mixed evidence are neutral.
SortKey(c, f) ==
    <<IF Reliability(c) = "demoted" THEN 1 ELSE 0,
      CASE Quality(f) = "positive" -> 0 [] Quality(f) = "negative" -> 2 [] OTHER -> 1>>

Sufficient(c, f) == Reliability(c) # "insufficient" \/ Quality(f) # "insufficient"

-----------------------------------------------------------------------------
(* A routing decision *)

Mode == {"free_only", "prefer_free", "any"}

Classify(p) ==
    IF p[1] = Unknown \/ p[2] = Unknown THEN "unknown"
    ELSE IF p[1] = 0 /\ p[2] = 0 THEN "free" ELSE "paid"

\* An offering as one SELECT over the three tables returns it.
Candidate(o) == [price |-> price[o], active |-> modelStatus[ModelOf[o]] = "active",
                 up |-> ProviderOf[o] \notin down]

CatalogueEligible(c) == c.active /\ c.up
PolicyEligible(mode, class) ==
    CASE mode = "free_only"   -> class = "free"
      [] mode = "prefer_free" -> class # "unknown"
      [] mode = "any"         -> TRUE

Eligible(mode, seen) ==
    {o \in DOMAIN seen : CatalogueEligible(seen[o]) /\ PolicyEligible(mode, Classify(seen[o].price))}

Tier == [free |-> 0, paid |-> 1, unknown |-> 2]
\* An input price nobody stated counts as infinite.
InputCost(p) == IF p[1] = Unknown THEN <<1, 0>> ELSE <<0, p[1]>>
TieBreakKey(o, p) == <<Tier[Classify(p)], InputCost(p)[1], InputCost(p)[2], Place[o]>>

\* Mutant of Boundary: evidence may cross from free to paid.
BoundaryLifted(mode, class) == <<>>
Boundary(mode, class) ==
    CASE mode = "prefer_free" -> IF class = "free" THEN <<0>> ELSE <<1>>
      [] mode = "any"         -> IF class = "unknown" THEN <<1>> ELSE <<0>>
      [] OTHER                -> <<>>

Precedes(s, t) ==
    \E i \in DOMAIN s : s[i] < t[i] /\ \A j \in 1..(i - 1) : s[j] = t[j]
First(S, key) == CHOOSE o \in S : \A q \in S \ {o} : Precedes(key[o], key[q])

TieBreakPick(mode, seen) ==
    LET S == Eligible(mode, seen)
    IN First(S, [o \in S |-> TieBreakKey(o, seen[o].price)])
EvidencePick(mode, seen, c, f) ==
    LET S == Eligible(mode, seen)
        class == [o \in S |-> Classify(seen[o].price)]
    IN First(S, [o \in S |-> Boundary(mode, class[o]) \o SortKey(c[o], f[o])
                                \o TieBreakKey(o, seen[o].price)])

\* route: a manual choice is checked and never replaced; an auto policy reads
\* the candidates and, if one is eligible, goes on to the evidence.
RouteManual ==
    /\ router.pc = "idle"
    /\ Spend("decisions", MaxDecisions)
    /\ \E o \in Offering :
          decided' = [pc |-> "decided", mode |-> "manual", asked |-> o,
                      seen |-> [q \in {o} |-> Candidate(q)],
                      pick |-> IF price[o] # Absent /\ CatalogueEligible(Candidate(o)) THEN o ELSE NoPick]
    /\ UNCHANGED <<catalogue, evidence, router>>

RouteAuto ==
    /\ router.pc = "idle"
    /\ Spend("decisions", MaxDecisions)
    /\ \E mode \in Mode :
          LET seen == [o \in {q \in Offering : price[q] # Absent} |-> Candidate(o)]
          IN IF Eligible(mode, seen) = {}
             THEN /\ decided' = [pc |-> "decided", mode |-> mode, seen |-> seen, pick |-> NoPick]
                  /\ UNCHANGED router
             ELSE /\ router' = [pc |-> "policy", mode |-> mode, seen |-> seen]
                  /\ UNCHANGED decided
    /\ UNCHANGED <<catalogue, evidence>>

ByTieBreak ==
    decided' = [pc |-> "decided", mode |-> router.mode, seen |-> router.seen,
                pick |-> TieBreakPick(router.mode, router.seen)]

\* No active version, or one whose configuration cannot be honoured: the
\* deterministic order stands.
ReadPolicy ==
    /\ router.pc = "policy"
    /\ LET active == {v \in PolicyVersion : policy[v]}
       IN IF active = {} \/ Highest(active) \notin Supported
          THEN ByTieBreak /\ router' = NotRouting
          ELSE /\ router' = [router EXCEPT !.pc = "calls"]
               /\ UNCHANGED decided
    /\ UNCHANGED <<catalogue, evidence, routingOps>>

ReadCalls ==
    /\ router.pc = "calls"
    /\ router' = [pc |-> "findings", mode |-> router.mode, seen |-> router.seen, calls |-> calls]
    /\ UNCHANGED <<catalogue, evidence, decided, routingOps>>

\* The evidence orders the candidates if any of them has enough of it.
ReadFindings ==
    /\ router.pc = "findings"
    /\ LET S == Eligible(router.mode, router.seen)
       IN IF \E o \in S : Sufficient(router.calls[o], findings[o])
          THEN decided' = [pc |-> "decided", mode |-> router.mode, seen |-> router.seen,
                  pick |-> EvidencePick(router.mode, router.seen, router.calls, findings),
                  calls |-> router.calls, findings |-> findings]
          ELSE ByTieBreak
    /\ router' = NotRouting
    /\ UNCHANGED <<catalogue, evidence, routingOps>>

\* Loading the evidence may fail; learning data never blocks an execution.
EvidenceFails ==
    /\ router.pc \in {"calls", "findings"}
    /\ ByTieBreak
    /\ router' = NotRouting
    /\ UNCHANGED <<catalogue, evidence, routingOps>>

RoutingNext ==
    \/ \E r \in Refresher : Fetch(r) \/ ReadCatalogue(r) \/ CommitRefresh(r)
    \/ TestConnection
    \/ \E s \in Switcher : ReadSwitch(s) \/ WriteSwitch(s)
    \/ Observe
    \/ RouteManual \/ RouteAuto \/ ReadPolicy \/ ReadCalls \/ ReadFindings \/ EvidenceFails

RoutingSpec == RoutingInit /\ [][RoutingNext]_routingVars

-----------------------------------------------------------------------------
(* Properties *)

\* Every row, request and decision has one of the forms the code gives it; an
\* offering has a model.
RoutingTypeOK ==
    /\ price \in [Offering -> Prices \cup {Absent}]
    /\ modelStatus \in [Model -> {"absent", "active", "unavailable"}]
    /\ \A o \in Offering : price[o] # Absent => modelStatus[ModelOf[o]] # "absent"
    /\ down \subseteq Provider
    /\ \A r \in Refresher : refresh[r].pc \in {"idle", "fetched", "read"}
    /\ listed \in [Provider -> SUBSET Model]
    /\ policy \in [PolicyVersion -> BOOLEAN]
    /\ \A s \in Switcher : switch[s].pc \in {"idle", "write"}
    /\ router.pc \in {"idle", "policy", "calls", "findings"}
    /\ decided.pc = "decided" => decided.pick \in Offering \cup {NoPick}

RespectsPolicy(d) ==
    LET class == [o \in DOMAIN d.seen |-> Classify(d.seen[o].price)]
        usable == {o \in DOMAIN d.seen : CatalogueEligible(d.seen[o])}
        Has(k) == \E o \in usable : class[o] = k
        picked == IF d.pick = NoPick THEN "nothing" ELSE class[d.pick]
    IN /\ d.pick \in usable \cup {NoPick}
       /\ CASE d.mode = "free_only"   -> picked = IF Has("free") THEN "free" ELSE "nothing"
            [] d.mode = "prefer_free" -> picked = IF Has("free") THEN "free"
                                                  ELSE IF Has("paid") THEN "paid" ELSE "nothing"
            [] d.mode = "any"         -> IF Has("free") \/ Has("paid")
                                         THEN picked \in {"free", "paid"}
                                         ELSE picked = IF usable # {} THEN "unknown" ELSE "nothing"

\* A decision keeps to the policy it was asked for, whatever the evidence says
\* and whatever changed while it was being made: FREE_ONLY never takes a model
\* that costs or may cost, PREFER_FREE pays only if nothing eligible is free,
\* ANY takes an unknown price only if no price is known, and none refuses
\* while something is eligible (model_resolution.py, _evidence_key).
PolicyIsRespected == decided.pc = "decided" /\ decided.mode \in Mode => RespectsPolicy(decided)

FairToNewModels(d) ==
    LET first == TieBreakPick(d.mode, d.seen)
    IN ~Sufficient(d.calls[first], d.findings[first]) /\ d.pick # first =>
          Quality(d.findings[d.pick]) = "positive"

\* A new model is never penalised for being new (routing_evidence.py, lines
\* 28-30): evidence takes the place of a first choice that has none only for a
\* model whose evaluations are positive, never for one that merely has a record.
ColdStartIsNeutral ==
    decided.pc = "decided" /\ "calls" \in DOMAIN decided /\ decided.pick # NoPick => FairToNewModels(decided)

\* However many requests turn evidence routing on and off at once, at most one
\* policy version is active (set_evidence_routing).
OneActivePolicy ==
    \A v \in PolicyVersion, w \in PolicyVersion : policy[v] /\ policy[w] => v = w

\* A model that has left the catalogues is not offered to the router: an active
\* model was in the last list of some provider.  The refreshes that overlap are
\* excluded, since each writes only what differs from what it read.
ActiveIsListed ==
    ~overlapped => \A m \in Model : modelStatus[m] = "active" => \E p \in Provider : m \in listed[p]

\* What a decision rests on is sound, however refreshes and switches interleave.
CatalogueInv ==
    /\ RoutingTypeOK
    /\ OneActivePolicy
    /\ ActiveIsListed
=============================================================================
