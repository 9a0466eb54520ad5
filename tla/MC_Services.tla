----------------------------- MODULE MC_Services -----------------------------
(***************************************************************************)
(* An instance of Services for TLC: the inputs of the planner and of the   *)
(* jobs, the workspaces of the lanes, and what is symmetric.               *)
(***************************************************************************)
EXTENDS Services, TLC

CONSTANTS q1, q2, v1, v2, l1, l2, d1

\* Three requirement modules: the first may depend on the second, that on the
\* third, and the first and the second may exclude each other.
RequirementModules == 1 .. 3
Kinds == {<<a, b, c>> : a \in {"sampled", "conditional"},
                        b \in {"always", "conditional", "unmet", "sampled", "global_rule"},
                        c \in {"always", "unmet", "sampled", "global_rule"}}
Dependencies == {<<{}, {}, {}>>, <<{2}, {}, {}>>, <<{2}, {3}, {}>>, <<{2}, {1}, {}>>, <<{3}, {3}, {}>>}
Conflicts == {<<{}, {}, {}>>, <<{2}, {}, {}>>}
Minima == {<<0, 0, 0>>, <<1, 0, 0>>, <<2, 1, 0>>, <<0, 3, 0>>}
LockedExcluded == {<<{}, {}>>, <<{1}, {}>>, <<{2}, {3}>>, <<{1}, {2}>>}

PlannerInputs ==
    {[mode |-> [m \in RequirementModules |-> IF kind[m] = "unmet" THEN "conditional" ELSE kind[m]],
      matches |-> {m \in RequirementModules : kind[m] = "conditional"},
      priority |-> <<"medium", "high", "low">>,
      deps |-> deps, conflicts |-> conflicts,
      min |-> min, max |-> [m \in RequirementModules |-> IF min[m] = 1 THEN 1 ELSE 9],
      level |-> level, locked |-> selection[1], excluded |-> selection[2]] :
        kind \in Kinds, deps \in Dependencies, conflicts \in Conflicts, min \in Minima,
        level \in {0, 50, 100}, selection \in LockedExcluded}

FirstInput == CHOOSE i \in PlannerInputs : TRUE

\* Jobs with packs of their own, fewer than they have variations, and with none;
\* the second and the third pack suit the two planned variations differently.
Job(plugins, packs, auto, planned, source) ==
    [plugins |-> plugins, packs |-> packs, auto |-> auto, count |-> 2, planned |-> planned, source |-> source]

Jobs == {Job({d1}, <<>>, "absent", TRUE, NoUnit), Job({}, <<2>>, "absent", FALSE, Refine),
         Job({d1}, <<3>>, "no", TRUE, NoUnit)}

Suits == <<<<1, 1>>, <<1, 2>>, <<2, 2>>>>

OwnWorkspace == [l \in Lane |-> l]

Drafts == [p \in {"index.html", "dist/index.html"} |-> IF p = "index.html" THEN 2 ELSE 1]

\* The lanes are alike: the stream begins on the first.
OnFirstLane == ServicesInit /\ serve.lane = l1

MCSpec == OnFirstLane /\ [][ServicesNext]_servicesVars

\* Requests and calls, and the variations of a job, that nothing tells apart.
ServicesSymmetry == Permutations({q1, q2}) \cup Permutations({v1, v2})
=============================================================================
