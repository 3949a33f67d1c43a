SPECIFICATION Spec
CONSTANTS
 a = a
 b = b
 c = c
 p1 = p1
 p2 = p2
 m1 = m1
 m2 = m2
 unpriced = unpriced
 n1 = n1
 n2 = n2
 n3 = n3
 n4 = n4
 agent1 = agent1
 rubric1 = rubric1
 nothing = nothing
 seed = seed
 Offering = {a, b, c}
 ModelOf <- MCModelOf
 ProviderOf <- MCProviderOf
 Place <- MCPlace
 Unknown = unpriced
 Prices <- MCPrices
 Refresher = {r1, r2}
 PolicyVersion = {1, 2}
 Supported = {1}
 Switcher = {s1, s2}
 MinObservations = 1
 MinEvaluatedRuns = 1
 MaxRefreshes = 2
 MaxSwitches = 2
 MaxHistory = 2
 MaxDecisions = 1
 Node = {n1, n2, n3, n4}
 Order <- MCOrder
 TypeOf <- MCTypeOf
 Entry = {agent1, rubric1}
 Nothing = nothing
 Author = {u1, u2}
 Starter = {st}
 MaxFanOut = 2
 MaxVersions = 3
 MaxRequests = 3
INVARIANTS
    CatalogueInv
    PolicyIsRespected
    ColdStartIsNeutral
    VersionInv
    ValidatorIsExact
    NoRunOnWithdrawnEntry
CHECK_DEADLOCK FALSE
SYMMETRY Symmetry
