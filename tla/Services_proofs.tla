-------------------------- MODULE Services_proofs --------------------------
(***************************************************************************)
(* What one run checks of the components that share no state (MCServices)  *)
(* holds of each of them for every value of the constants: every step of   *)
(* the run is a step of one component and leaves the others as they are,   *)
(* so that a behaviour of the run is a behaviour of every component, and   *)
(* what is proved of the components is true in it.                         *)
(***************************************************************************)
EXTENDS MCServices, Access_proofs, Optimize_proofs, Batch_proofs

\* Every behaviour of the run is one of each component, which rests or takes
\* its own steps: the run interleaves them and adds nothing (MCTSSearch,
\* LLMClient, RemotePlanCache, Database, the RAG store, the decision, the
\* workload, the posterior correction and the batch drivers).
THEOREM ServicesAreComponents ==
    ServicesSpec => /\ SearchSpec /\ ClientSpec /\ CacheSpec /\ DbSpec /\ RagSpec
                    /\ DecisionSpec /\ WorkloadSpec /\ PosteriorSpec /\ BatchSpec
  <1>1. ServicesInit => /\ SearchInit /\ ClientInit /\ CacheInit /\ DbInit /\ RagInit
                        /\ DecisionInit /\ WorkloadInit /\ PosteriorInit /\ BatchInit
    BY DEF ServicesInit
  <1>2. [ServicesNext]_servicesVars =>
           /\ [SearchNext]_searchVars /\ [ClientNext]_clientVars
           /\ [CacheNext]_cacheVars /\ [DbNext]_dbVars /\ [RagNext]_ragVars
           /\ [DecisionNext]_decisionVars /\ [WorkloadNext]_workloadVars
           /\ [PosteriorNext]_posteriorVars /\ [BatchNext]_batchVars
    BY DEF ServicesNext, servicesVars, Search, Client, Cache, Db, Rag, Optimize, Load,
           Correct, Batch
  <1> QED
    BY <1>1, <1>2, PTL DEF ServicesSpec, SearchSpec, ClientSpec, CacheSpec, DbSpec,
       RagSpec, DecisionSpec, WorkloadSpec, PosteriorSpec, BatchSpec

\* The variables of every component keep their types, whatever the components
\* do (the tables, caches, trees and counters each of them keeps).
THEOREM ServicesTypeCorrect == ServicesSpec => []ServicesTypeOK
  <1>1. ClientSpec => []ClientTypeOK
    BY ClientTypeCorrect, ClientAssumption
  <1>2. CacheSpec => []CacheTypeOK
    BY CacheTypeCorrect, CacheAssumption
  <1>3. RagSpec => []RagTypeOK
    BY RagTypeCorrect, RagAssumption
  <1>4. PosteriorSpec => []PosteriorTypeOK
    BY PosteriorTypeCorrect, PosteriorAssumption
  <1>5. DecisionSpec => []DecisionTypeOK
    BY DecisionTypeCorrect
  <1>6. BatchSpec => []BatchTypeOK
    BY BatchTypeCorrect
  <1> QED
    BY <1>1, <1>2, <1>3, <1>4, <1>5, <1>6, ServicesAreComponents, DbTypeCorrect,
       SearchTypeCorrect, WorkloadTypeCorrect, PTL DEF ServicesTypeOK
=============================================================================
