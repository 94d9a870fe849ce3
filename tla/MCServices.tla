----------------------------- MODULE MCServices -----------------------------
(***************************************************************************)
(* The parts of the program that share no state with one another in one    *)
(* run of TLC: `chosen` says which of them takes steps, the others rest in *)
(* an initial state.  The states of the run are the disjoint union of the  *)
(* states of the components, so that one search of the state space answers *)
(* for each of them what a run of its own would.                           *)
(***************************************************************************)
EXTENDS MCMctsSearch, LlmClient, RemoteCache, DbAccess, RagStore, Decision,
        Workload, Posterior, BatchRunner

VARIABLE chosen

\* RemoteCache: hints that leave the baseline's plan as it is, and others that lead
\* to a slow one, which times out under a cap by the baseline only.
MCCachePlan == "h0" :> "default" @@ "h1" :> "default" @@ "h2" :> "slow"
MCPlanTime == "default" :> 2 @@ "slow" :> 3

\* RagStore: two configurations of one query, one of another.
MCQueryOf == "c1" :> "q1" @@ "c2" :> "q1" @@ "c3" :> "q2"
MCRuntimeOf == "c1" :> 2 @@ "c2" :> 4 @@ "c3" :> 1
MCBaselineTimeOf == "q1" :> 4 @@ "q2" :> 4
MCSimilarity == [q \in {"q1", "q2"} |-> "c1" :> 2 @@ "c2" :> 1 @@ "c3" :> 2]

MCSample == <<"s1", "s2">>

\* Workload: executions with one text under two plans, two texts with one
\* digest, one that fails the safety filter, one that is fast.
MCLog ==
    LET E(s, m, d, p, t, ok) == [statement |-> s, md5 |-> m, digest |-> d,
                                 plan |-> p, time |-> t, safe |-> ok]
    IN  {E("q1", "m1", "d1", "p1", 2, TRUE), E("q2", "m1", "d1", "p2", 5, TRUE),
         E("q3", "m2", "d2", "p1", 4, FALSE), E("q4", "m3", "d1", "p1", 3, TRUE),
         E("q5", "m4", "d3", "p3", 1, TRUE), E("q6", "m5", "d4", "p4", 6, TRUE)}

MCParentOf == <<0, 1>>

MCInstanceOf == "b1" :> "i1" @@ "b2" :> "i1" @@ "b3" :> "i2"
MCWorksFor == "v1" :> "i1" @@ "v2" :> "i1" @@ "v3" :> "i2"
MCLastRoundOf == "i1" :> 1 @@ "i2" :> 0

servicesVars == <<searchVars, clientVars, cacheVars, dbVars, ragVars, decisionVars,
                  workloadVars, posteriorVars, batchVars, chosen>>

\* A component that rests does so in one of its initial states.
ServicesInit ==
    /\ chosen \in {"search", "client", "cache", "db", "rag", "decision", "workload",
                   "posterior", "batch"}
    /\ SearchInit /\ ClientInit /\ CacheInit /\ DbInit /\ RagInit /\ DecisionInit
    /\ BatchInit
    /\ WorkloadInit /\ (chosen # "workload" => wanted = {} /\ source = "slow_log_table")
    /\ PosteriorInit
    /\ chosen # "posterior" =>
          \A t \in Tags : sftNodes[t] = [action |-> "A1", hints |-> "new",
                                         digest |-> "none", seconds |-> Untimed]

Search == /\ chosen = "search" /\ SearchNext
          /\ UNCHANGED <<clientVars, cacheVars, dbVars, ragVars, decisionVars,
                         workloadVars, posteriorVars, batchVars, chosen>>
Client == /\ chosen = "client" /\ ClientNext
          /\ UNCHANGED <<searchVars, cacheVars, dbVars, ragVars, decisionVars,
                         workloadVars, posteriorVars, batchVars, chosen>>
Cache == /\ chosen = "cache" /\ CacheNext
         /\ UNCHANGED <<searchVars, clientVars, dbVars, ragVars, decisionVars,
                        workloadVars, posteriorVars, batchVars, chosen>>
Db == /\ chosen = "db" /\ DbNext
      /\ UNCHANGED <<searchVars, clientVars, cacheVars, ragVars, decisionVars,
                     workloadVars, posteriorVars, batchVars, chosen>>
Rag == /\ chosen = "rag" /\ RagNext
       /\ UNCHANGED <<searchVars, clientVars, cacheVars, dbVars, decisionVars,
                      workloadVars, posteriorVars, batchVars, chosen>>
Optimize == /\ chosen = "decision" /\ DecisionNext
           /\ UNCHANGED <<searchVars, clientVars, cacheVars, dbVars, ragVars,
                          workloadVars, posteriorVars, batchVars, chosen>>
Load == /\ chosen = "workload" /\ WorkloadNext
        /\ UNCHANGED <<searchVars, clientVars, cacheVars, dbVars, ragVars, decisionVars,
                       posteriorVars, batchVars, chosen>>
Correct == /\ chosen = "posterior" /\ PosteriorNext
           /\ UNCHANGED <<searchVars, clientVars, cacheVars, dbVars, ragVars,
                          decisionVars, workloadVars, batchVars, chosen>>
Batch == /\ chosen = "batch" /\ BatchNext
         /\ UNCHANGED <<searchVars, clientVars, cacheVars, dbVars, ragVars, decisionVars,
                        workloadVars, posteriorVars, chosen>>

ServicesNext == \/ Search \/ Client \/ Cache \/ Db \/ Rag \/ Optimize \/ Load
                \/ Correct \/ Batch

ServicesSpec == ServicesInit /\ [][ServicesNext]_servicesVars

\* The types of the variables of every component.
ServicesTypeOK ==
    /\ SearchTypeOK /\ ClientTypeOK /\ CacheTypeOK /\ DbTypeOK /\ RagTypeOK
    /\ DecisionTypeOK /\ WorkloadTypeOK /\ PosteriorTypeOK /\ BatchTypeOK
=============================================================================
