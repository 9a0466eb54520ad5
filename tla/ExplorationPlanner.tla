------------------------- MODULE ExplorationPlanner -------------------------
(***************************************************************************)
(* The planner that decides which requirement modules each variation of a  *)
(* job realises (apps/api/src/explorationPlanner.ts), and the validation   *)
(* of its plan (packages/contracts/src/exploration.ts).                    *)
(* Modules are placed one after the other in an order that a hash of the   *)
(* seed completes, on the variations with the fewest modules, which the    *)
(* hash orders too: whatever it decides is left open here.  Only the parts *)
(* of a graph and a request that decide which modules are chosen are       *)
(* modelled; a module without a maximum has one that no plan reaches.      *)
(***************************************************************************)
EXTENDS Integers, FiniteSets

CONSTANTS
    Module,     \* requirement modules
    Variation,  \* variations of the job
    Input       \* graphs with requests: mode, matches, priority, min, max,
                \* deps and conflicts of the modules; level, locked, excluded

\* What validateRequirementModuleGraph lets pass, of a graph's bounds and references.
ValidGraph(i) ==
    \A m \in Module :
        /\ i.mode[m] \in {"always", "conditional", "sampled", "global_rule"}
        /\ i.min[m] \in Nat /\ i.max[m] \in Nat /\ i.min[m] <= i.max[m]
        /\ i.deps[m] \subseteq Module \ {m} /\ i.conflicts[m] \subseteq Module \ {m}

\* What the module assumes of its constants; the module of a run asserts it.
Assumptions ==
    /\ IsFiniteSet(Module) /\ IsFiniteSet(Variation) /\ Variation # {}
    /\ \A i \in Input : ValidGraph(i) /\ i.level \in 0 .. 100

VARIABLES
    input,      \* the graph and the request
    todo,       \* optional modules still to be placed
    sampled,    \* variation -> the optional modules placed on it
    verdict     \* "asked", "planning", "planned" or "refused"

plannerVars == <<input, todo, sampled, verdict>>

TypeOK ==
    /\ input \in Input /\ todo \subseteq Module
    /\ sampled \in [Variation -> SUBSET Module]
    /\ verdict \in {"asked", "planning", "planned", "refused"}

Init ==
    /\ input \in Input /\ todo = {}
    /\ sampled = [v \in Variation |-> {}]
    /\ verdict = "asked"

-----------------------------------------------------------------------------
VariationCount == Cardinality(Variation)
Smaller(a, b) == IF a <= b THEN a ELSE b
Larger(a, b) == IF a >= b THEN a ELSE b

OfMode(modes) == {m \in Module : input.mode[m] \in modes}
alwaysModules == OfMode({"always"})
optionalModules ==
    (OfMode({"sampled"}) \cup (OfMode({"conditional"}) \cap input.matches)) \ input.excluded

ValidSelections ==
    /\ input.excluded \cap OfMode({"always", "global_rule"}) = {}
    /\ input.excluded \cap input.locked = {}

validateSelections ==
    /\ verdict = "asked"
    /\ IF ValidSelections
       THEN verdict' = "planning" /\ todo' = optionalModules
       ELSE verdict' = "refused" /\ UNCHANGED todo
    /\ UNCHANGED <<input, sampled>>

priorityWeight(m) ==
    CASE input.priority[m] = "critical" -> 4 [] input.priority[m] = "high" -> 3
      [] input.priority[m] = "medium" -> 2 [] OTHER -> 1

\* Locked modules first, then by priority.
Precedes(l, r) ==
    \/ l \in input.locked /\ r \notin input.locked
    \/ (l \in input.locked <=> r \in input.locked) /\ priorityWeight(l) > priorityWeight(r)

\* In quarters: what of the range between the bounds a priority may use.
PriorityFactor(m) ==
    CASE priorityWeight(m) >= 3 -> 4 [] priorityWeight(m) = 2 -> 3 [] OTHER -> 2

coverageTarget(m) ==
    LET minimum == Smaller(VariationCount, Larger(input.min[m], IF m \in input.locked THEN 1 ELSE 0))
        maximum == Smaller(VariationCount, input.max[m])
    IN  Smaller(maximum,
                minimum + ((maximum - minimum) * input.level * PriorityFactor(m)) \div 400)

\* The first candidates of an order by load.
LeastLoaded(n) ==
    {s \in SUBSET Variation :
        /\ Cardinality(s) = n
        /\ \A v \in s, w \in Variation \ s : Cardinality(sampled[v]) <= Cardinality(sampled[w])}

Had(v) == alwaysModules \cup sampled[v]

\* Mutant: the dependencies of a dependency are forgotten.
WalkedOnce(m, v) == ({m} \cup input.deps[m]) \ Had(v)

\* The modules that addModuleWithDependencies visits, from m along dependencies
\* and no further than those the variation has.
Walked(m, v) ==
    LET within[n \in 0 .. Cardinality(Module)] ==
            IF n = 0 THEN {m} \ Had(v)
            ELSE within[n - 1] \cup ((UNION {input.deps[d] : d \in within[n - 1]}) \ Had(v))
    IN  within[Cardinality(Module)]

\* It throws on an excluded module and on a cycle.
Throws(m, v) ==
    \E w \in Walked(m, v) :
        w \in input.excluded \/ \E d \in input.deps[w] \ Had(v) : w \in Walked(d, v)

addModuleWithDependencies(m, chosen) ==
    IF \E v \in chosen : Throws(m, v)
    THEN verdict' = "refused" /\ UNCHANGED <<todo, sampled>>
    ELSE /\ sampled' = [v \in Variation |->
                IF v \in chosen THEN sampled[v] \cup (Walked(m, v) \ OfMode({"global_rule"}))
                ELSE sampled[v]]
         /\ todo' = todo \ {m}
         /\ UNCHANGED verdict

place(m) ==
    /\ verdict = "planning" /\ m \in todo
    /\ ~\E other \in todo : Precedes(other, m)
    /\ \E chosen \in LeastLoaded(coverageTarget(m)) : addModuleWithDependencies(m, chosen)
    /\ UNCHANGED input

Selected(v) == alwaysModules \cup sampled[v]
Coverage(m) == Cardinality({v \in Variation : m \in Selected(v)})

\* What validateBatchExplorationPlan can find wrong with a plan made here.
ValidPlan ==
    /\ \A v \in Variation :
        /\ Selected(v) # {}     \* a focus
        /\ \A m \in Selected(v) :
            input.deps[m] \subseteq Selected(v) /\ input.conflicts[m] \cap Selected(v) = {}
    /\ \A m \in OfMode({"sampled"}) \ input.excluded : Coverage(m) \in input.min[m] .. input.max[m]

validateBatchExplorationPlan ==
    /\ verdict = "planning" /\ todo = {}
    /\ verdict' = IF ValidPlan THEN "planned" ELSE "refused"
    /\ UNCHANGED <<input, todo, sampled>>

Next ==
    \/ validateSelections
    \/ \E m \in Module : place(m)
    \/ validateBatchExplorationPlan

Spec == Init /\ [][Next]_plannerVars

-----------------------------------------------------------------------------
DependedUpon == UNION {input.deps[m] : m \in Module}

DependencyOrder ==
    \E rank \in [Module -> 1 .. Cardinality(Module)] :
        \A m \in Module : \A d \in input.deps[m] : rank[d] < rank[m]

\* A request that a graph can serve: nothing chosen can conflict, every
\* dependency can come along and none is limited, the bounds fit the number
\* of variations, and a module that is in each of them gives it a focus.
Plannable ==
    /\ ValidSelections /\ DependencyOrder
    /\ \E m \in Module :
        m \in alwaysModules \/ (m \in optionalModules /\ input.min[m] >= VariationCount)
    /\ \A m \in Module \ input.excluded :
        /\ input.conflicts[m] \subseteq input.excluded
        /\ input.deps[m] \cap (input.excluded \cup OfMode({"global_rule"})) = {}
        /\ m \in alwaysModules => input.deps[m] \subseteq alwaysModules
        /\ input.mode[m] = "sampled" =>
            /\ input.min[m] <= VariationCount
            /\ m \in DependedUpon => input.max[m] >= VariationCount

\* Such a request gets its plan, however the hash breaks ties: the planner does
\* not run into the validation of its own plan.  In a plan that comes out, an
\* eligible module that the user locked is in some variation, and modules
\* without dependencies are spread evenly (explorationPlanner.ts).
RequestServed ==
    /\ verdict = "refused" => ~Plannable
    /\ verdict = "planned" =>
        /\ \A m \in input.locked \cap optionalModules :
            input.max[m] > 0 => \E v \in Variation : m \in sampled[v]
        /\ DependedUpon = {} =>
            \A v, w \in Variation : Cardinality(sampled[v]) <= Cardinality(sampled[w]) + 1

\* Mutant: the sampled modules that it does not have are still asked for.
onlyUserExclusions(v) == [selected |-> Selected(v), excluded |-> input.excluded]

\* The plan of one variation, retried on its own: the sampled modules that it
\* does not have are excluded from it, and the validation is asked again.
deriveVariationRetryExplorationSnapshot(v) ==
    [selected |-> Selected(v),
     excluded |-> input.excluded \cup {m \in OfMode({"sampled"}) : m \notin Selected(v)}]

\* Every variation of a plan can be retried as planned, provided that no module
\* asks for more than one variation: a minimum of two, which the schema of a
\* graph admits, is never met by one (exploration-planning-api-flow.test.ts).
VariationsRetryable ==
    verdict = "planned" /\ (\A m \in Module : input.min[m] <= 1) =>
        \A v \in Variation : LET retry == deriveVariationRetryExplorationSnapshot(v) IN
            \A m \in OfMode({"sampled"}) \ retry.excluded :
                (IF m \in retry.selected THEN 1 ELSE 0) \in input.min[m] .. input.max[m]

\* Refuted: a locked module whose condition does not hold is left out of an
\* accepted plan without a word.
LockedIsThere ==
    verdict = "planned" =>
        \A m \in input.locked \ OfMode({"always", "global_rule"}) :
            \E v \in Variation : m \in sampled[v]
=============================================================================
